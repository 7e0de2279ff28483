-------------------------- MODULE RateLimiter_proofs --------------------------
(***************************************************************************)
(* Theorems of RateLimiter, for any number of requests, any limit, window  *)
(* and delay, and runs of any length.                                      *)
(***************************************************************************)
EXTENDS RateLimiter, FiniteSetTheorems, TLAPS

-----------------------------------------------------------------------------
(* The inductive invariant.                                                *)

\* No reading of the clock is older than the delay allows, nor was it when used.
Timely ==
  /\ \A r \in Requests : pc[r] = "stamped" => stamp[r] <= now /\ now <= stamp[r] + MaxDelay
  /\ \A e \in admitted : e.at <= now /\ e.at <= e.stamp + MaxDelay

\* What counts for the bound is still among the time stamps, and those are no more
\* than the limit.
Remembered ==
  /\ IsFiniteSet(requests) /\ Cardinality(requests) <= MaxRequests
  /\ Since(Window - MaxDelay) \subseteq requests

\* The stamps that still fill the window a second after the advice has run out.
Blocking(r) == {e \in requests : e.stamp > advice[r].until + Second - Window}

\* Advice given since the last admission names a time at which there is room.
AdviceHolds ==
  \A r \in Requests :
    /\ advice[r].drawn <= drawn
    /\ MaxRequests > 0 /\ advice[r].given /\ advice[r].drawn = drawn
         => Cardinality(Blocking(r)) < MaxRequests

IInv == TypeOK /\ Timely /\ Remembered /\ AdviceHolds

-----------------------------------------------------------------------------
(* Lemmas.                                                                 *)

\* A part of a finite set is finite and no larger.
LEMMA PartIsSmaller ==
  ASSUME NEW S, NEW T \in SUBSET S, IsFiniteSet(S)
  PROVE  /\ IsFiniteSet(T) /\ Cardinality(T) \in Nat /\ Cardinality(S) \in Nat
         /\ Cardinality(T) <= Cardinality(S)
BY FS_Subset, FS_CardinalityType

\* The limiter starts out empty.
LEMMA InitIInv == Init => IInv
<1>. SUFFICES ASSUME Init PROVE IInv
  OBVIOUS
<1>. USE ConstantsAssumption DEF Init, NoAdvice
<1>1. TypeOK
  BY DEF TypeOK
<1>2. Timely
  BY DEF Timely
<1>3. IsFiniteSet({}) /\ Cardinality({}) = 0
  BY FS_EmptySet
<1>4. Remembered
  BY <1>3 DEF Remembered, Since
<1>5. AdviceHolds
  BY <1>3 DEF AdviceHolds
<1>. QED
  BY <1>1, <1>2, <1>4, <1>5 DEF IInv

\* Time passes only while no reading is too old for it, and admissions get older.
LEMMA TickIInv == ASSUME IInv, Tick PROVE IInv'
<1>. USE ConstantsAssumption DEF IInv, Tick
<1>1. TypeOK'
  BY DEF TypeOK
<1>2. Timely'
  BY DEF TypeOK, Timely, Entry
<1>3. Since(Window - MaxDelay)' \subseteq Since(Window - MaxDelay)
  BY DEF Since, TypeOK, Entry
<1>4. Remembered'
  BY <1>3 DEF Remembered
<1>5. AdviceHolds'
  BY DEF AdviceHolds, Blocking
<1>. QED
  BY <1>1, <1>2, <1>4, <1>5

\* A new reading is of the present.
LEMMA ReadClockIInv == ASSUME IInv, NEW r \in Requests, ReadClock(r) PROVE IInv'
<1>. USE ConstantsAssumption DEF IInv, ReadClock
<1>1. TypeOK'
  BY DEF TypeOK
<1>2. Timely'
  BY DEF TypeOK, Timely
<1>3. Remembered'
  BY DEF Remembered, Since
<1>4. AdviceHolds'
  BY DEF AdviceHolds, Blocking
<1>. QED
  BY <1>1, <1>2, <1>3, <1>4

\* IsAllowed forgets only what has left the shorter window: a stamp that is not kept
\* is so old that its admission is, too.
LEMMA ForgetsTheOld ==
  ASSUME IInv, NEW r \in Requests, pc[r] = "stamped"
  PROVE  Since(Window - MaxDelay) \subseteq Kept(stamp[r])
<1>. SUFFICES ASSUME NEW e \in Since(Window - MaxDelay)
              PROVE  e \in requests /\ e.stamp > stamp[r] - Window
  BY DEF Kept
<1>1. e \in requests /\ e \in admitted /\ e.at > now - (Window - MaxDelay)
  BY DEF IInv, Remembered, Since
<1>2. e.at \in Nat /\ e.stamp \in Nat /\ stamp[r] \in Nat /\ now \in Nat
  BY <1>1 DEF IInv, TypeOK, Entry
<1>3. e.at <= e.stamp + MaxDelay /\ stamp[r] <= now
  BY <1>1 DEF IInv, Timely
<1>. QED
  BY <1>1, <1>2, <1>3, ConstantsAssumption

\* What IsAllowed keeps is a part of what it had.
LEMMA KeptIsPart ==
  ASSUME IInv, NEW s
  PROVE  /\ Kept(s) \subseteq requests /\ IsFiniteSet(Kept(s))
         /\ Cardinality(Kept(s)) \in Nat /\ Cardinality(Kept(s)) <= Cardinality(requests)
         /\ Cardinality(requests) \in Nat
BY PartIsSmaller DEF IInv, Remembered, Kept

\* An admission fills one of the places that are left.
LEMMA AllowIInv == ASSUME IInv, NEW r \in Requests, Allow(r) PROVE IInv'
<1>. DEFINE entry == [n |-> drawn, stamp |-> stamp[r], at |-> now]
            kept == Kept(stamp[r])
<1>1. /\ pc[r] = "stamped" /\ ~Full(stamp[r])
      /\ requests' = kept \cup {entry} /\ admitted' = admitted \cup {entry}
      /\ drawn' = drawn + 1 /\ now' = now
      /\ pc' = [pc EXCEPT ![r] = "idle"] /\ stamp' = [stamp EXCEPT ![r] = 0]
      /\ advice' = [advice EXCEPT ![r] = NoAdvice]
  BY DEF Allow
<1>2. entry \in Entry
  BY DEF Entry, IInv, TypeOK
<1>3. kept \subseteq requests /\ IsFiniteSet(kept) /\ Cardinality(kept) \in Nat
  BY KeptIsPart
<1>4. Cardinality(kept) < MaxRequests
  BY <1>1, <1>3, ConstantsAssumption DEF Full
<1>5. NoAdvice \in [given : BOOLEAN, until : Int, drawn : Nat]
  BY DEF NoAdvice
<1>6. TypeOK'
  BY <1>1, <1>2, <1>3, <1>5 DEF IInv, TypeOK
<1>7. Timely'
  <2>1. entry.at = now /\ entry.stamp = stamp[r]
    OBVIOUS
  <2>. HIDE DEF entry, kept
  <2>. QED
    BY <1>1, <2>1 DEF IInv, TypeOK, Timely
<1>8. IsFiniteSet(requests') /\ Cardinality(requests') <= MaxRequests
  <2>. HIDE DEF entry, kept
  <2>1. /\ IsFiniteSet(kept \cup {entry})
        /\ Cardinality(kept \cup {entry}) =
             IF entry \in kept THEN Cardinality(kept) ELSE Cardinality(kept) + 1
    BY <1>3, FS_AddElement
  <2>. QED
    BY <1>1, <1>3, <1>4, <2>1, ConstantsAssumption
<1>9. Since(Window - MaxDelay)' \subseteq requests'
  <2>1. Since(Window - MaxDelay)' \subseteq Since(Window - MaxDelay) \cup {entry}
    BY <1>1 DEF Since
  <2>. QED
    BY <1>1, <2>1, ForgetsTheOld
<1>10. ASSUME NEW q \in Requests
       PROVE  advice'[q].drawn < drawn' \/ (advice'[q].drawn = 0 /\ ~advice'[q].given)
  BY <1>1 DEF IInv, TypeOK, AdviceHolds, NoAdvice
<1>11. AdviceHolds'
  BY <1>6, <1>10 DEF AdviceHolds, TypeOK
<1>. QED
  BY <1>6, <1>7, <1>8, <1>9, <1>11 DEF IInv, Remembered

\* A refusal prunes the stamps.
LEMMA DenyIInv == ASSUME IInv, NEW r \in Requests, Deny(r) PROVE IInv'
<1>1. /\ pc[r] = "stamped" /\ requests' = Kept(stamp[r])
      /\ UNCHANGED <<now, advice, drawn, admitted>>
      /\ pc' = [pc EXCEPT ![r] = "denied"] /\ stamp' = [stamp EXCEPT ![r] = 0]
  BY DEF Deny
<1>2. /\ requests' \subseteq requests /\ IsFiniteSet(requests')
      /\ Cardinality(requests') \in Nat /\ Cardinality(requests) \in Nat
      /\ Cardinality(requests') <= Cardinality(requests)
  BY <1>1, KeptIsPart
<1>3. TypeOK'
  BY <1>1, <1>2 DEF IInv, TypeOK
<1>4. Timely'
  BY <1>1 DEF IInv, TypeOK, Timely
<1>5. Since(Window - MaxDelay)' \subseteq requests'
  BY <1>1, ForgetsTheOld DEF Since
<1>6. Remembered'
  BY <1>2, <1>5, ConstantsAssumption DEF IInv, Remembered
<1>7. ASSUME NEW q \in Requests
      PROVE  /\ Cardinality(Blocking(q)') \in Nat /\ Cardinality(Blocking(q)) \in Nat
             /\ Cardinality(Blocking(q)') <= Cardinality(Blocking(q))
  <2>1. Blocking(q)' \subseteq Blocking(q) /\ Blocking(q) \subseteq requests
    BY <1>1, <1>2 DEF Blocking
  <2>2. IsFiniteSet(Blocking(q))
    BY <2>1, PartIsSmaller DEF IInv, Remembered
  <2>. QED
    BY <2>1, <2>2, PartIsSmaller
<1>8. AdviceHolds'
  BY <1>1, <1>7, ConstantsAssumption DEF IInv, AdviceHolds
<1>. QED
  BY <1>3, <1>4, <1>6, <1>8 DEF IInv

\* Whole seconds are no more than a second short.
LEMMA SecondsShort ==
  ASSUME NEW ticks \in Int
  PROVE  LET seconds == IF ticks < 0 THEN 0 ELSE ticks \div Second
         IN  seconds * Second \in Int /\ seconds * Second > ticks - Second
<1>1. CASE ticks < 0
  BY <1>1, ConstantsAssumption
<1>2. CASE ticks >= 0
  <2>1. ticks \div Second \in Int
    BY <1>2, ConstantsAssumption
  <2>2. \A n \in Nat, m \in Nat \ {0} : (n \div m) * m > n - m
    OBVIOUS
  <2>. QED
    BY <1>2, <2>1, <2>2, ConstantsAssumption
<1>. QED
  BY <1>1, <1>2

\* The advice leaves out at least the stamp it was computed from.
LEMMA RetryAfterIInv == ASSUME IInv, NEW r \in Requests, RetryAfter(r) PROVE IInv'
<1>1. PICK ticks \in Remaining :
        LET seconds == IF ticks < 0 THEN 0 ELSE ticks \div Second
        IN  advice' = [advice EXCEPT ![r] = [given |-> TRUE, drawn |-> drawn,
                                             until |-> now + seconds * Second]]
  BY DEF RetryAfter
<1>. DEFINE seconds == IF ticks < 0 THEN 0 ELSE ticks \div Second
            until == now + seconds * Second
<1>2. /\ UNCHANGED <<now, requests, stamp, drawn, admitted>>
      /\ pc' = [pc EXCEPT ![r] = "idle"]
      /\ advice' = [advice EXCEPT ![r] = [given |-> TRUE, drawn |-> drawn, until |-> until]]
  BY <1>1 DEF RetryAfter
<1>3. now \in Nat /\ drawn \in Nat /\ requests \subseteq Entry
  BY DEF IInv, TypeOK
<1>4. ticks \in Int
  BY <1>3, ConstantsAssumption DEF Remaining, Entry
<1>5. until \in Int /\ until > now + ticks - Second
  <2>1. seconds * Second \in Int /\ seconds * Second > ticks - Second
    BY <1>4, SecondsShort
  <2>. DEFINE wait == seconds * Second
  <2>2. wait \in Int /\ wait > ticks - Second /\ until = now + wait
    BY <2>1
  <2>. HIDE DEF wait, until
  <2>. QED
    BY <1>3, <1>4, <2>2, ConstantsAssumption
<1>. HIDE DEF until
<1>6. TypeOK'
  BY <1>2, <1>3, <1>5 DEF IInv, TypeOK
<1>7. Timely' /\ Remembered'
  BY <1>2 DEF IInv, TypeOK, Timely, Remembered, Since
<1>8. advice'[r].until = until /\ advice'[r].drawn = drawn
      /\ \A q \in Requests \ {r} : advice'[q] = advice[q]
  BY <1>2 DEF IInv, TypeOK
<1>9. MaxRequests > 0 => Cardinality(Blocking(r)') < MaxRequests
  <2>. DEFINE blocking == {e \in requests : e.stamp > until + Second - Window}
  <2>0. Blocking(r)' = blocking
    BY <1>2, <1>8 DEF Blocking
  <2>1. IsFiniteSet(requests) /\ Cardinality(requests) \in Nat
        /\ Cardinality(requests) <= MaxRequests
    BY FS_CardinalityType DEF IInv, Remembered
  <2>2. CASE requests = {}
    BY <2>0, <2>2, FS_EmptySet
  <2>3. CASE requests # {}
    <3>1. PICK e \in requests : ticks = Window - (now - e.stamp)
      BY <2>3 DEF Remaining
    <3>2. e.stamp \in Nat
      BY <1>3 DEF Entry
    <3>3. e \notin blocking
      BY <1>3, <1>4, <1>5, <3>1, <3>2, ConstantsAssumption
    <3>4. blocking \subseteq requests \ {e}
      BY <3>3
    <3>5. IsFiniteSet(requests \ {e})
          /\ Cardinality(requests \ {e}) = Cardinality(requests) - 1
      BY <2>1, <3>1, FS_RemoveElement
    <3>. HIDE DEF blocking
    <3>6. Cardinality(blocking) \in Nat /\ Cardinality(blocking) <= Cardinality(requests) - 1
      BY <3>4, <3>5, PartIsSmaller
    <3>. QED
      BY <2>0, <2>1, <3>6, ConstantsAssumption
  <2>. QED
    BY <2>2, <2>3
<1>10. ASSUME NEW q \in Requests
       PROVE  /\ advice'[q].drawn <= drawn'
              /\ MaxRequests > 0 /\ advice'[q].given /\ advice'[q].drawn = drawn'
                   => Cardinality(Blocking(q)') < MaxRequests
  <2>1. CASE q = r
    BY <1>2, <1>3, <1>8, <1>9, <2>1
  <2>2. CASE q # r
    <3>1. Blocking(q)' = Blocking(q)
      BY <1>2, <1>8, <2>2 DEF Blocking
    <3>. QED
      BY <1>2, <1>8, <2>2, <3>1 DEF IInv, AdviceHolds
  <2>. QED
    BY <2>1, <2>2
<1>. QED
  BY <1>6, <1>7, <1>10 DEF IInv, AdviceHolds

\* A limiter that is dropped has no stamps and owes no bound.
LEMMA RemoveIInv == ASSUME IInv, Remove PROVE IInv'
<1>. USE ConstantsAssumption DEF IInv, Remove
<1>1. TypeOK' /\ Timely'
  BY DEF TypeOK, Timely
<1>2. IsFiniteSet({}) /\ Cardinality({}) = 0
  BY FS_EmptySet
<1>3. Remembered'
  BY <1>2 DEF Remembered, Since
<1>4. \A r \in Requests : Blocking(r)' = {}
  BY DEF Blocking
<1>5. AdviceHolds'
  BY <1>2, <1>4 DEF AdviceHolds
<1>. QED
  BY <1>1, <1>3, <1>5

\* Every step preserves the invariant.
LEMMA NextIInv == ASSUME IInv, [Next]_vars PROVE IInv'
<1>1. CASE UNCHANGED vars
  BY <1>1 DEF IInv, TypeOK, Timely, Remembered, Since, AdviceHolds, Blocking, vars
<1>. QED
  BY <1>1, TickIInv, RemoveIInv, ReadClockIInv, AllowIInv, DenyIInv, RetryAfterIInv DEF Next

-----------------------------------------------------------------------------
(* The theorems.                                                           *)

\* The inductive invariant holds in every state of every execution of RateLimiter.
THEOREM Invariance == Spec => []IInv
BY InitIInv, NextIInv, PTL DEF Spec

\* Stamps, readings, advice and counts keep their types.
THEOREM TypeCorrect == Spec => []TypeOK
<1>1. IInv => TypeOK
  BY DEF IInv
<1>. QED
  BY <1>1, Invariance, PTL

\* No span of the window less the delay sees more admissions than the limit.
THEOREM WindowBounded == Spec => []WindowBound
<1>1. ASSUME IInv PROVE WindowBound
  <2>1. /\ Cardinality(Since(Window - MaxDelay)) \in Nat
        /\ Cardinality(Since(Window - MaxDelay)) <= Cardinality(requests)
        /\ Cardinality(requests) \in Nat /\ Cardinality(requests) <= MaxRequests
    BY <1>1, PartIsSmaller DEF IInv, Remembered
  <2>. QED
    BY <2>1, ConstantsAssumption DEF WindowBound
<1>. QED
  BY <1>1, Invariance, PTL

\* Who waits a second longer than advised is not refused unless others were admitted.
THEOREM AdviceSuffices == Spec => AdviceAlmostRight
<1>1. ASSUME IInv, Next, MaxRequests > 0, DeniedAgain(Second)
      PROVE  FALSE
  <2>1. PICK r \in Requests :
          /\ pc[r] = "stamped" /\ pc'[r] = "denied"
          /\ advice[r].given /\ advice[r].drawn = drawn
          /\ stamp[r] >= advice[r].until + Second
    BY <1>1 DEF DeniedAgain
  <2>2. \E q \in Requests : Deny(q) /\ q = r
    BY <1>1, <2>1 DEF IInv, TypeOK, Next, Tick, Remove, ReadClock, Allow, Deny, RetryAfter
  <2>3. Full(stamp[r])
    BY <2>2 DEF Deny
  <2>4. Kept(stamp[r]) \subseteq Blocking(r)
    <3>1. stamp[r] \in Nat /\ advice[r].until \in Int /\ \A e \in requests : e.stamp \in Nat
      BY <1>1 DEF IInv, TypeOK, Entry
    <3>. QED
      BY <2>1, <3>1, ConstantsAssumption DEF Kept, Blocking
  <2>5. IsFiniteSet(Blocking(r))
    BY <1>1, PartIsSmaller DEF IInv, Remembered, Blocking
  <2>6. /\ Cardinality(Kept(stamp[r])) \in Nat /\ Cardinality(Blocking(r)) \in Nat
        /\ Cardinality(Kept(stamp[r])) <= Cardinality(Blocking(r))
    BY <2>4, <2>5, PartIsSmaller
  <2>7. Cardinality(Blocking(r)) < MaxRequests
    BY <1>1, <2>1 DEF IInv, AdviceHolds
  <2>. QED
    BY <2>3, <2>6, <2>7, ConstantsAssumption DEF Full
<1>2. IInv /\ [Next]_vars => [MaxRequests > 0 => ~DeniedAgain(Second)]_vars
  BY <1>1
<1>. QED
  BY <1>2, Invariance, PTL DEF Spec, AdviceAlmostRight

\* Saturating and wrapping only ever make a number of ticks smaller.
LEMMA ConversionShrinks ==
  ASSUME NEW seconds \in Nat
  PROVE  /\ Wrap(Atoi(seconds) * Second) \in Int
         /\ Wrap(Atoi(seconds) * Second) <= seconds * Second
         /\ seconds * Second \in Int
<1>. DEFINE n == Atoi(seconds) * Second
<1>1. Atoi(seconds) \in Nat /\ Atoi(seconds) <= seconds
  BY ConstantsAssumption DEF Atoi
<1>2. \A a, b, c \in Nat : a <= b => a * c \in Nat /\ b * c \in Nat /\ a * c <= b * c
  OBVIOUS
<1>3. n \in Nat /\ n <= seconds * Second /\ seconds * Second \in Nat
  BY <1>1, <1>2, ConstantsAssumption
<1>. HIDE DEF n
<1>4. \A a \in Nat, b \in Nat \ {0} : a % b \in Nat /\ a % b <= a
  OBVIOUS
<1>5. n + Top + 1 \in Nat /\ 2 * (Top + 1) \in Nat \ {0}
  BY <1>3, ConstantsAssumption
<1>6. (n + Top + 1) % (2 * (Top + 1)) \in Nat
      /\ (n + Top + 1) % (2 * (Top + 1)) <= n + Top + 1
  BY <1>4, <1>5
<1>7. Wrap(n) \in Int /\ Wrap(n) <= n
  BY <1>3, <1>6, ConstantsAssumption DEF Wrap
<1>. QED
  BY <1>3, <1>7 DEF n

\* Below the largest int a limit is the one that was written, and the window no longer
\* than that: a refusal is one that the rate as written would have given, too.
THEOREM ConversionErrsOpen ==
  ASSUME MaxRequests < Top
  PROVE  Spec => RateErrsOpen
<1>1. ASSUME IInv, Next, NEW r \in Requests, pc[r] = "stamped", pc'[r] = "denied",
             NEW w \in Meant
      PROVE  Cardinality({e \in requests : e.stamp > stamp[r] - w.seconds * Second}) >= w.max
  <2>. DEFINE asWritten == {e \in requests : e.stamp > stamp[r] - w.seconds * Second}
  <2>1. Full(stamp[r])
    BY <1>1 DEF IInv, TypeOK, Next, Tick, Remove, ReadClock, Allow, Deny, RetryAfter
  <2>2. /\ w.max \in Nat /\ w.seconds \in Nat
        /\ Atoi(w.max) = MaxRequests /\ Wrap(Atoi(w.seconds) * Second) = Window
    BY ConstantsAssumption DEF Meant, RateLimitParsed
  <2>3. w.max = MaxRequests
    BY <2>2, ConstantsAssumption, MaxRequests < Top DEF Atoi
  <2>4. Window <= w.seconds * Second /\ w.seconds * Second \in Int
    BY <2>2, ConversionShrinks
  <2>5. stamp[r] \in Nat /\ \A e \in requests : e.stamp \in Nat
    BY <1>1 DEF IInv, TypeOK, Entry
  <2>6. Kept(stamp[r]) \subseteq asWritten
    BY <2>4, <2>5, ConstantsAssumption DEF Kept
  <2>7. IsFiniteSet(asWritten)
    BY <1>1, PartIsSmaller DEF IInv, Remembered
  <2>. HIDE DEF asWritten
  <2>8. /\ Cardinality(Kept(stamp[r])) \in Nat /\ Cardinality(asWritten) \in Nat
        /\ Cardinality(Kept(stamp[r])) <= Cardinality(asWritten)
    BY <2>6, <2>7, PartIsSmaller
  <2>9. Cardinality(asWritten) >= w.max
    BY <2>1, <2>3, <2>8, ConstantsAssumption DEF Full
  <2>. QED
    BY <2>9 DEF asWritten
<1>2. IInv /\ [Next]_vars =>
        [\A r \in Requests : pc[r] = "stamped" /\ pc'[r] = "denied" =>
           \A w \in Meant :
             Cardinality({e \in requests : e.stamp > stamp[r] - w.seconds * Second}) >= w.max]_vars
  BY <1>1
<1>. QED
  BY <1>2, Invariance, PTL DEF Spec, RateErrsOpen
=============================================================================
