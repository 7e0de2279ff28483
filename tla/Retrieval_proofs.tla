--------------------------- MODULE Retrieval_proofs ---------------------------
(***************************************************************************)
(* Theorems of Retrieval, for any scores, shards and envelopes and lists   *)
(* of any bound.                                                           *)
(***************************************************************************)
EXTENDS Retrieval, FiniteSetTheorems, SequenceTheorems, TLAPS

-----------------------------------------------------------------------------
(* Induction and recursion.                                                *)

\* A set of numbers has a least one.
LEMMA Least ==
  ASSUME NEW T, T \subseteq Nat, T # {}
  PROVE  \E m \in T : \A n \in T : m <= n
<1>1. \E R : IsWellFoundedOn(R, Nat) /\ \A x, y \in Nat : x < y => <<x, y>> \in R
  <2>1. IsWellFoundedOn(OpToRel(<, Nat), Nat)
    BY NatLessThanWellFounded
  <2>2. \A x, y \in Nat : x < y => <<x, y>> \in OpToRel(<, Nat)
    BY DEF OpToRel
  <2>. QED
    BY <2>1, <2>2
<1>2. PICK R : IsWellFoundedOn(R, Nat) /\ \A x, y \in Nat : x < y => <<x, y>> \in R
  BY <1>1
<1>3. PICK m \in T : \A n \in T : <<n, m>> \notin R
  <2>1. IsWellFoundedOn(R, Nat)
    BY <1>2
  <2>2. PICK t : t \in T
    OBVIOUS
  <2>. QED
    BY <2>1, <2>2, WFMin
<1>4. \A n \in T : ~(n < m)
  BY <1>2, <1>3
<1>. QED
  BY <1>4

\* A set that has 0, and with a number below N the next one, has all up to N.
LEMMA UpTo ==
  ASSUME NEW N \in Nat, NEW S, 0 \in S, \A n \in 1..N : n - 1 \in S => n \in S
  PROVE  0..N \subseteq S
<1>. DEFINE Gaps == (0..N) \ S
<1>. SUFFICES ASSUME Gaps # {} PROVE FALSE
  OBVIOUS
<1>1. PICK m \in Gaps : \A n \in Gaps : m <= n
  <2>1. Gaps \subseteq Nat
    OBVIOUS
  <2>. HIDE DEF Gaps
  <2>. QED
    BY <2>1, Least
<1>2. m \in 1..N /\ m - 1 \in 0..N
  BY <1>1
<1>3. m - 1 \in S
  BY <1>1, <1>2
<1>. QED
  BY <1>1, <1>2, <1>3

\* f is what N steps on S, the n-th of them step[n], make of the start.
IsRun(f, N, S, start, step) ==
  f \in [0..N -> S] /\ f[0] = start /\ \A n \in 1..N : f[n] = step[n][f[n - 1]]

\* Steps on S, from a start in S, have a run.
LEMMA Run ==
  ASSUME NEW N \in Nat, NEW S, NEW start \in S, NEW step \in [1..N -> [S -> S]]
  PROVE  \E f : IsRun(f, N, S, start, step)
<1>. DEFINE Ran == {n \in 0..N : \E f \in [0..n -> S] :
                      f[0] = start /\ \A i \in 1..n : f[i] = step[i][f[i - 1]]}
<1>1. 0 \in Ran
  <2>1. PICK f : f = [i \in 0..0 |-> start]
    OBVIOUS
  <2>2. f \in [0..0 -> S] /\ f[0] = start /\ \A i \in 1..0 : f[i] = step[i][f[i - 1]]
    BY <2>1
  <2>. QED
    BY <2>2
<1>2. ASSUME NEW n \in 1..N, n - 1 \in Ran PROVE n \in Ran
  <2>1. PICK f \in [0..n - 1 -> S] :
          f[0] = start /\ \A i \in 1..n - 1 : f[i] = step[i][f[i - 1]]
    BY <1>2
  <2>2. PICK next \in S : next = step[n][f[n - 1]]
    BY <2>1
  <2>3. PICK g : g = [i \in 0..n |-> IF i = n THEN next ELSE f[i]]
    OBVIOUS
  <2>4. g \in [0..n -> S] /\ g[0] = start
    BY <2>1, <2>3
  <2>5. ASSUME NEW i \in 1..n PROVE g[i] = step[i][g[i - 1]]
    BY <2>1, <2>2, <2>3
  <2>. QED
    BY <2>4, <2>5
<1>3. 0..N \subseteq Ran
  <2>. HIDE DEF Ran
  <2>. QED
    BY <1>1, <1>2, UpTo
<1>. QED
  BY <1>3 DEF IsRun

LEMMA RunSteps ==
  ASSUME NEW N \in Nat, NEW S, NEW start, NEW step, NEW f, IsRun(f, N, S, start, step),
         NEW n \in 1..N
  PROVE  f[n] = step[n][f[n - 1]] /\ f[n - 1] \in S /\ f[n] \in S
<1>1. n \in 0..N /\ n - 1 \in 0..N
  OBVIOUS
<1>. QED
  BY <1>1 DEF IsRun

-----------------------------------------------------------------------------
(* DecryptMetadata.                                                        *)

\* What the loop may have made so far.
Outcomes == [code : {"OK", "InvalidArgument", "Internal"}, texts : Seq(Texts \cup {Garbage})]

\* The text that an envelope opens to.
TextOf(envelope) ==
  IF envelope.agent = envelope.cipher.key THEN envelope.cipher.text ELSE Garbage

Empty == [code |-> "OK", texts |-> <<>>]

\* An envelope either fails, or has a ciphertext that opens to its text.
LEMMA EnvelopeOpens ==
  ASSUME NEW envelope \in Envelope
  PROVE  /\ CodeOf(envelope) \in {"OK", "InvalidArgument", "Internal"}
         /\ CodeOf(envelope) = "OK" =>
              /\ Decrypted(envelope.cipher, envelope.agent) = TextOf(envelope)
              /\ TextOf(envelope) \in Texts \cup {Garbage}
<1>1. CASE envelope \in [parses : {FALSE}]
  BY <1>1 DEF CodeOf
<1>2. CASE envelope \in [parses : {TRUE}, agent : Agents,
                        cipher : {Broken} \cup [key : Agents, text : Texts]]
  BY <1>2 DEF CodeOf, Decrypted, TextOf
<1>. QED
  BY <1>1, <1>2 DEF Envelope

LEMMA OpenNextTyped ==
  ASSUME NEW out \in Outcomes, NEW envelope \in Envelope
  PROVE  OpenNext(out, envelope) \in Outcomes
BY EnvelopeOpens DEF OpenNext, Outcomes

\* The loop starts with nothing and makes one step for each envelope.
LEMMA OpenedSteps ==
  ASSUME NEW list \in Seq(Envelope)
  PROVE  /\ OpenedSoFar(list)[0] = Empty
         /\ \A n \in 1..Len(list) :
              /\ OpenedSoFar(list)[n - 1] \in Outcomes
              /\ OpenedSoFar(list)[n] = OpenNext(OpenedSoFar(list)[n - 1], list[n])
<1>. PICK N \in Nat : N = Len(list)
  OBVIOUS
<1>. DEFINE Steps(f) == f = [n \in 0..N |-> IF n = 0 THEN Empty ELSE OpenNext(f[n - 1], list[n])]
<1>1. \A n \in 1..N : list[n] \in Envelope
  OBVIOUS
<1>2. PICK step : step = [n \in 1..N |-> [out \in Outcomes |-> OpenNext(out, list[n])]]
  OBVIOUS
<1>3. step \in [1..N -> [Outcomes -> Outcomes]]
  BY <1>1, <1>2, OpenNextTyped
<1>4. Empty \in Outcomes
  BY DEF Outcomes, Empty
<1>5. PICK f : IsRun(f, N, Outcomes, Empty, step)
  BY <1>3, <1>4, Run
<1>6. ASSUME NEW n \in 1..N PROVE f[n] = OpenNext(f[n - 1], list[n])
  <2>1. f[n] = step[n][f[n - 1]] /\ f[n - 1] \in Outcomes
    BY <1>5 DEF IsRun
  <2>2. \A out \in Outcomes : step[n][out] = OpenNext(out, list[n])
    BY <1>2
  <2>. QED
    BY <2>1, <2>2
<1>7. Steps(f)
  BY <1>5, <1>6 DEF IsRun
<1>8. PICK g : g = OpenedSoFar(list)
  OBVIOUS
<1>9. Steps(g)
  BY <1>7, <1>8 DEF OpenedSoFar, Empty
<1>10. g[0] = Empty /\ \A n \in 1..N : g[n] = OpenNext(g[n - 1], list[n])
  BY <1>9
<1>11. 0..N \subseteq {n \in 0..N : g[n] \in Outcomes}
  <2>. DEFINE Typed == {n \in 0..N : g[n] \in Outcomes}
  <2>1. 0 \in Typed /\ \A n \in 1..N : n - 1 \in Typed => n \in Typed
    BY <1>1, <1>4, <1>10, OpenNextTyped
  <2>. HIDE DEF Typed
  <2>. QED
    BY <2>1, UpTo DEF Typed
<1>. QED
  BY <1>8, <1>10, <1>11

\* The texts of the first n envelopes.
TextsOf(list, n) == [i \in 1..n |-> TextOf(list[i])]

LEMMA TextsGrow ==
  ASSUME NEW list, NEW n \in Nat, n # 0
  PROVE  Append(TextsOf(list, n - 1), TextOf(list[n])) = TextsOf(list, n)
<1>1. PICK shorter : shorter = TextsOf(list, n - 1)
  OBVIOUS
<1>2. PICK all : all = TextsOf(list, n)
  OBVIOUS
<1>3. /\ shorter \in Seq({TextOf(list[i]) : i \in 1..n}) /\ Len(shorter) = n - 1
      /\ all \in Seq({TextOf(list[i]) : i \in 1..n}) /\ Len(all) = n
      /\ \A i \in 1..n - 1 : shorter[i] = all[i]
      /\ all[n] = TextOf(list[n])
  BY <1>1, <1>2 DEF TextsOf
<1>4. Append(shorter, TextOf(list[n])) = all
  BY <1>3
<1>. QED
  BY <1>1, <1>2, <1>4

\* While no envelope has failed the loop has the texts of those before; once one has, the
\* outcome is its code.
LEMMA OpenedSoFarIs ==
  ASSUME NEW list \in Seq(Envelope), NEW n \in 0..Len(list)
  PROVE  /\ (\A i \in 1..n : CodeOf(list[i]) = "OK")
              => OpenedSoFar(list)[n] = [code |-> "OK", texts |-> TextsOf(list, n)]
         /\ \A m \in 1..n :
              /\ CodeOf(list[m]) # "OK" /\ \A i \in 1..m - 1 : CodeOf(list[i]) = "OK"
              => OpenedSoFar(list)[n] = [code |-> CodeOf(list[m]), texts |-> <<>>]
<1>. PICK N, out : N \in Nat /\ N = Len(list) /\ out = OpenedSoFar(list)
  OBVIOUS
<1>. DEFINE Open(k) ==
              (\A i \in 1..k : CodeOf(list[i]) = "OK")
                => out[k] = [code |-> "OK", texts |-> TextsOf(list, k)]
            Stopped(k) == \A m \in 1..k :
              /\ CodeOf(list[m]) # "OK" /\ \A i \in 1..m - 1 : CodeOf(list[i]) = "OK"
              => out[k] = [code |-> CodeOf(list[m]), texts |-> <<>>]
            Right == {k \in 0..N : Open(k) /\ Stopped(k)}
<1>1. out[0] = Empty /\ \A k \in 1..N : out[k] = OpenNext(out[k - 1], list[k])
  BY OpenedSteps
<1>2. 0 \in Right
  <2>1. TextsOf(list, 0) = <<>>
    BY DEF TextsOf
  <2>. QED
    BY <1>1, <2>1 DEF Empty
<1>3. ASSUME NEW k \in 1..N, k - 1 \in Right PROVE k \in Right
  <2>1. list[k] \in Envelope /\ k - 1 \in Nat /\ k \in Nat /\ k # 0
    OBVIOUS
  <2>2. out[k] = OpenNext(out[k - 1], list[k])
    BY <1>1
  <2>3. Open(k - 1) /\ Stopped(k - 1)
    BY <1>3
  <2>4. ASSUME \A i \in 1..k : CodeOf(list[i]) = "OK"
        PROVE  out[k] = [code |-> "OK", texts |-> TextsOf(list, k)]
    <3>1. out[k - 1] = [code |-> "OK", texts |-> TextsOf(list, k - 1)]
      BY <2>1, <2>3, <2>4
    <3>2. CodeOf(list[k]) = "OK" /\ Decrypted(list[k].cipher, list[k].agent) = TextOf(list[k])
      BY <2>1, <2>4, EnvelopeOpens
    <3>3. out[k] = [code |-> "OK", texts |-> Append(TextsOf(list, k - 1), TextOf(list[k]))]
      <4>1. PICK before : before = TextsOf(list, k - 1)
        OBVIOUS
      <4>2. OpenNext([code |-> "OK", texts |-> before], list[k])
              = [code |-> "OK", texts |-> Append(before, TextOf(list[k]))]
        BY <3>2 DEF OpenNext
      <4>. QED
        BY <2>2, <3>1, <4>1, <4>2
    <3>. QED
      BY <2>1, <3>3, TextsGrow
  <2>5. ASSUME NEW m \in 1..k, CodeOf(list[m]) # "OK",
               \A i \in 1..m - 1 : CodeOf(list[i]) = "OK"
        PROVE  out[k] = [code |-> CodeOf(list[m]), texts |-> <<>>]
    <3>1. CASE m = k
      <4>1. out[k - 1] = [code |-> "OK", texts |-> TextsOf(list, k - 1)]
        BY <2>3, <2>5, <3>1
      <4>. QED
        BY <2>2, <2>5, <3>1, <4>1 DEF OpenNext
    <3>2. CASE m # k
      <4>1. out[k - 1] = [code |-> CodeOf(list[m]), texts |-> <<>>]
        BY <2>1, <2>3, <2>5, <3>2
      <4>2. out[k - 1].code # "OK"
        BY <2>5, <4>1
      <4>3. out[k] = out[k - 1]
        BY <2>2, <4>2 DEF OpenNext
      <4>. QED
        BY <4>1, <4>3
    <3>. QED
      BY <3>1, <3>2
  <2>6. Open(k) /\ Stopped(k)
    BY <2>4, <2>5
  <2>. QED
    BY <2>6
<1>4. 0..N \subseteq Right
  <2>. HIDE DEF Right
  <2>. QED
    BY <1>2, <1>3, UpTo
<1>. QED
  BY <1>4

\* A list of any length opens as a whole, every text in its place, or fails with the code
\* of its first envelope that does not open.
THEOREM ListsOpenAsAWhole == OpensAllOrNothing
<1>. SUFFICES ASSUME NEW list \in Lists
              PROVE  LET failing == {i \in DOMAIN list : CodeOf(list[i]) # "OK"}
                     IN  OpenList(list) =
                           IF failing = {}
                           THEN [code |-> "OK", texts |-> [i \in DOMAIN list |-> TextOf(list[i])]]
                           ELSE [code |-> CodeOf(list[Min(failing)]), texts |-> <<>>]
  BY DEF OpensAllOrNothing, TextOf
<1>. DEFINE failing == {i \in DOMAIN list : CodeOf(list[i]) # "OK"}
<1>1. list \in Seq(Envelope) /\ DOMAIN list = 1..Len(list) /\ Len(list) \in 0..Len(list)
  BY RetrievalAssumption DEF Lists, BoundedSeq, SeqOf
<1>2. CASE failing = {}
  <2>1. OpenList(list) = [code |-> "OK", texts |-> TextsOf(list, Len(list))]
    BY <1>1, <1>2, OpenedSoFarIs DEF OpenList
  <2>. QED
    BY <1>1, <1>2, <2>1 DEF TextsOf
<1>3. CASE failing # {}
  <2>1. Min(failing) \in failing /\ \A i \in failing : Min(failing) <= i
    <3>1. failing \subseteq Nat
      BY <1>1
    <3>. HIDE DEF failing
    <3>. QED
      BY <1>3, <3>1, Least DEF Min
  <2>2. PICK m \in 1..Len(list) : m = Min(failing)
    BY <1>1, <2>1
  <2>3. CodeOf(list[m]) # "OK" /\ \A i \in 1..m - 1 : CodeOf(list[i]) = "OK"
    <3>1. \A i \in 1..m - 1 : i \in DOMAIN list /\ i \notin failing
      <4>1. \A i \in 1..m - 1 : ~(m <= i) /\ i \in 1..Len(list)
        OBVIOUS
      <4>. HIDE DEF failing
      <4>. QED
        BY <1>1, <2>1, <2>2, <4>1
    <3>. QED
      BY <2>1, <2>2, <3>1
  <2>4. OpenList(list) = [code |-> CodeOf(list[m]), texts |-> <<>>]
    BY <1>1, <2>3, OpenedSoFarIs DEF OpenList
  <2>. QED
    BY <1>3, <2>2, <2>4
<1>. QED
  BY <1>2, <1>3

-----------------------------------------------------------------------------
(* DecryptScores: the order of entries.                                    *)

\* Lists of entries, as DecryptScores flattens the scores into one.
EntryLists == Seq([shard : Int, row : Nat, score : Int])

LEMMA Scored ==
  ASSUME NEW all \in EntryLists
  PROVE  /\ Len(all) \in Nat /\ DOMAIN all = 1..Len(all)
         /\ \A i \in DOMAIN all : i \in Nat /\ all[i].score \in Int
<1>1. ASSUME NEW S, NEW seq \in Seq(S), NEW i \in DOMAIN seq PROVE seq[i] \in S /\ i \in Nat
  OBVIOUS
<1>2. \A i \in DOMAIN all : all[i] \in [shard : Int, row : Nat, score : Int] /\ i \in Nat
  BY <1>1 DEF EntryLists
<1>. QED
  BY <1>2 DEF EntryLists

\* Before is a strict total order of the indexes.
LEMMA BeforeOrders ==
  ASSUME NEW all \in EntryLists, NEW i \in DOMAIN all, NEW j \in DOMAIN all,
         NEW k \in DOMAIN all
  PROVE  /\ ~(Before(all, i, j) /\ Before(all, j, i))
         /\ i = j \/ Before(all, i, j) \/ Before(all, j, i)
         /\ Before(all, i, j) /\ Before(all, j, k) => Before(all, i, k)
BY Scored DEF Before

\* i comes before all the others in T.
Leads(all, T, i) == i \in T /\ \A j \in T \ {i} : Before(all, i, j)

\* Some index of any that are left leads.
LEMMA SomeLeads ==
  ASSUME NEW all \in EntryLists, NEW T \in SUBSET DOMAIN all, T # {}
  PROVE  \E i : Leads(all, T, i)
<1>. PICK N \in Nat : N = Len(all) /\ DOMAIN all = 1..N
  BY Scored
<1>. DEFINE EachLed(n) == \A U : U \subseteq 1..n /\ U # {} => \E i : Leads(all, U, i)
            Led == {n \in 0..N : EachLed(n)}
<1>1. 0 \in Led
  <2>1. 1..0 = {}
    OBVIOUS
  <2>. QED
    BY <2>1
<1>2. ASSUME NEW n \in 1..N, n - 1 \in Led, NEW U, U \subseteq 1..n, U # {}
      PROVE  \E i : Leads(all, U, i)
  <2>1. U \ {n} \subseteq 1..n - 1 /\ U \subseteq DOMAIN all
    BY <1>2
  <2>2. CASE U \ {n} = {}
    BY <1>2, <2>2 DEF Leads
  <2>3. CASE U \ {n} # {}
    <3>1. PICK i : Leads(all, U \ {n}, i)
      BY <1>2, <2>1, <2>3
    <3>2. i \in DOMAIN all /\ n \in DOMAIN all /\ i # n
      BY <2>1, <3>1 DEF Leads
    <3>3. CASE n \notin U
      BY <3>1, <3>3 DEF Leads
    <3>4. CASE n \in U /\ Before(all, i, n)
      BY <3>1, <3>4 DEF Leads
    <3>5. CASE n \in U /\ Before(all, n, i)
      <4>1. ASSUME NEW j \in U \ {n} PROVE Before(all, n, j)
        <5>1. j = i \/ Before(all, i, j)
          BY <3>1 DEF Leads
        <5>2. j \in DOMAIN all
          BY <2>1
        <5>. QED
          BY <3>2, <3>5, <5>1, <5>2, BeforeOrders
      <4>. QED
        BY <3>5, <4>1 DEF Leads
    <3>. QED
      BY <3>2, <3>3, <3>4, <3>5, BeforeOrders
  <2>. QED
    BY <2>2, <2>3
<1>3. 0..N \subseteq Led
  <2>1. \A n \in 1..N : n - 1 \in Led => n \in Led
    <3>1. ASSUME NEW n \in 1..N, n - 1 \in Led PROVE EachLed(n)
      BY <1>2, <3>1
    <3>. HIDE DEF EachLed
    <3>. QED
      BY <3>1
  <2>. HIDE DEF Led
  <2>. QED
    BY <1>1, <2>1, UpTo
<1>. QED
  BY <1>3

\* It is the first of the largest, and no other leads.
LEMMA FirstLeads ==
  ASSUME NEW all \in EntryLists, NEW T \in SUBSET DOMAIN all, NEW i, Leads(all, T, i)
  PROVE  FirstLargest(all, T) = i
<1>. DEFINE First(f) ==
              /\ f \in T
              /\ \A j \in T :
                   /\ all[f].score >= all[j].score
                   /\ all[f].score = all[j].score => f <= j
<1>1. First(i)
  BY Scored DEF Leads, Before
<1>2. ASSUME NEW f, First(f) PROVE f = i
  <2>1. f \in DOMAIN all /\ i \in DOMAIN all /\ i \in T /\ f \in T
    BY <1>1, <1>2
  <2>2. f # i => Before(all, i, f)
    BY <2>1 DEF Leads
  <2>3. ~Before(all, i, f)
    <3>1. /\ i \in Int /\ f \in Int /\ all[i].score \in Int /\ all[f].score \in Int
          /\ all[f].score >= all[i].score /\ (all[f].score = all[i].score => f <= i)
      <4>1. all[f].score >= all[i].score /\ (all[f].score = all[i].score => f <= i)
        BY <1>2, <2>1
      <4>2. i \in Int /\ f \in Int /\ all[i].score \in Int /\ all[f].score \in Int
        BY <2>1, Scored
      <4>. QED
        BY <4>1, <4>2
    <3>. QED
      BY <3>1 DEF Before
  <2>. QED
    BY <2>2, <2>3
<1>. QED
  BY <1>1, <1>2 DEF FirstLargest

\* As long as something is left the selection goes on with it.
LEMMA FirstIsLeft ==
  ASSUME NEW all \in EntryLists, NEW T \in SUBSET DOMAIN all, T # {}
  PROVE  Leads(all, T, FirstLargest(all, T))
BY SomeLeads, FirstLeads

-----------------------------------------------------------------------------
(* The selection, one entry after another.                                 *)

\* Each selection takes the leader of what is left, and leaves one less.
LEMMA RemainingSteps ==
  ASSUME NEW all \in EntryLists, NEW k \in 0..Len(all)
  PROVE  /\ Remaining(all, k)[0] = DOMAIN all
         /\ \A n \in 1..k :
              /\ Remaining(all, k)[n - 1] \in SUBSET DOMAIN all
              /\ Remaining(all, k)[n]
                   = Remaining(all, k)[n - 1] \ {FirstLargest(all, Remaining(all, k)[n - 1])}
<1>. DEFINE Next(T) == T \ {FirstLargest(all, T)}
            Steps(f) == f = [n \in 0..k |-> IF n = 0 THEN DOMAIN all
                                            ELSE f[n - 1] \ {FirstLargest(all, f[n - 1])}]
<1>. PICK S : S = SUBSET DOMAIN all
  OBVIOUS
<1>1. k \in Nat
  BY Scored
<1>2. PICK step : step = [n \in 1..k |-> [T \in S |-> Next(T)]]
  OBVIOUS
<1>3. \A T \in S : Next(T) \in S
  OBVIOUS
<1>4. step \in [1..k -> [S -> S]] /\ DOMAIN all \in S
  <2>. HIDE DEF Next
  <2>. QED
    BY <1>2, <1>3
<1>5. PICK f : IsRun(f, k, S, DOMAIN all, step)
  BY <1>1, <1>4, Run
<1>6. ASSUME NEW n \in 1..k PROVE f[n] = Next(f[n - 1])
  <2>1. f[n] = step[n][f[n - 1]] /\ f[n - 1] \in S
    BY <1>5 DEF IsRun
  <2>2. \A T \in S : step[n][T] = Next(T)
    BY <1>2
  <2>. QED
    BY <2>1, <2>2
<1>7. Steps(f)
  BY <1>5, <1>6 DEF IsRun
<1>8. PICK g : g = Remaining(all, k)
  OBVIOUS
<1>9. Steps(g)
  BY <1>7, <1>8 DEF Remaining
<1>10. g[0] = DOMAIN all /\ \A n \in 1..k : g[n] = g[n - 1] \ {FirstLargest(all, g[n - 1])}
  <2>1. g[0] = DOMAIN all
    BY <1>1, <1>9
  <2>2. ASSUME NEW n \in 1..k PROVE g[n] = g[n - 1] \ {FirstLargest(all, g[n - 1])}
    <3>1. n \in 0..k /\ n # 0
      BY <1>1
    <3>. QED
      BY <1>9, <3>1
  <2>. QED
    BY <2>1, <2>2
<1>11. 0..k \subseteq {n \in 0..k : g[n] \in SUBSET DOMAIN all}
  <2>. DEFINE Typed == {n \in 0..k : g[n] \in SUBSET DOMAIN all}
  <2>1. 0 \in Typed /\ \A n \in 1..k : n - 1 \in Typed => n \in Typed
    BY <1>1, <1>10
  <2>. HIDE DEF Typed
  <2>. QED
    BY <1>1, <2>1, UpTo DEF Typed
<1>. QED
  BY <1>8, <1>10, <1>11

\* Until all have been selected something is left to be.
LEMMA SomeRemain ==
  ASSUME NEW all \in EntryLists, NEW k \in 0..Len(all), NEW n \in 1..k
  PROVE  Leads(all, Remaining(all, k)[n - 1], FirstLargest(all, Remaining(all, k)[n - 1]))
<1>. PICK N, left : N \in Nat /\ N = Len(all) /\ DOMAIN all = 1..N /\ left = Remaining(all, k)
  BY Scored
<1>1. /\ left[0] = 1..N
      /\ \A i \in 1..k :
           /\ left[i - 1] \in SUBSET DOMAIN all
           /\ left[i] = left[i - 1] \ {FirstLargest(all, left[i - 1])}
  BY RemainingSteps
<1>. DEFINE Sized == {i \in 0..k : IsFiniteSet(left[i]) /\ Cardinality(left[i]) >= N - i}
<1>2. 0 \in Sized
  BY <1>1, FS_Interval
<1>3. ASSUME NEW i \in 1..k, i - 1 \in Sized PROVE i \in Sized
  <2>1. /\ IsFiniteSet(left[i - 1]) /\ Cardinality(left[i - 1]) >= N - (i - 1)
        /\ Cardinality(left[i - 1]) \in Nat
    BY <1>3, FS_CardinalityType
  <2>2. /\ IsFiniteSet(left[i])
        /\ Cardinality(left[i]) = Cardinality(left[i - 1])
           \/ Cardinality(left[i]) = Cardinality(left[i - 1]) - 1
    <3>1. PICK first : left[i] = left[i - 1] \ {first}
      BY <1>1
    <3>2. PICK T : T = left[i - 1]
      OBVIOUS
    <3>3. IsFiniteSet(T \ {first}) /\ (Cardinality(T \ {first}) = Cardinality(T)
                                       \/ Cardinality(T \ {first}) = Cardinality(T) - 1)
      BY <2>1, <3>2, FS_RemoveElement
    <3>. QED
      BY <3>1, <3>2, <3>3
  <2>. QED
    BY <2>1, <2>2
<1>4. 0..k \subseteq Sized
  <2>. HIDE DEF Sized
  <2>. QED
    BY <1>2, <1>3, UpTo
<1>5. IsFiniteSet(left[n - 1]) /\ Cardinality(left[n - 1]) >= N - (n - 1) /\ N - (n - 1) > 0
  BY <1>4
<1>6. left[n - 1] # {}
  BY <1>5, FS_EmptySet
<1>. QED
  BY <1>1, <1>6, FirstIsLeft

\* What is selected is gone, and what is selected later was left then.
LEMMA RemainingShrinks ==
  ASSUME NEW all \in EntryLists, NEW k \in 0..Len(all), NEW n \in 0..k, NEW l \in 0..k, n <= l
  PROVE  Remaining(all, k)[l] \subseteq Remaining(all, k)[n]
<1>. PICK left : left = Remaining(all, k)
  OBVIOUS
<1>1. k \in Nat /\ \A i \in 1..k : left[i] \subseteq left[i - 1]
  <2>1. \A i \in 1..k : left[i] = left[i - 1] \ {FirstLargest(all, left[i - 1])}
    BY RemainingSteps
  <2>. QED
    BY <2>1, Scored
<1>. DEFINE Within == {i \in 0..k : n <= i => left[i] \subseteq left[n]}
<1>2. 0 \in Within
  OBVIOUS
<1>3. ASSUME NEW i \in 1..k, i - 1 \in Within PROVE i \in Within
  <2>1. CASE n <= i - 1
    BY <1>1, <1>3, <2>1
  <2>2. CASE n = i \/ ~(n <= i)
    BY <2>2
  <2>. QED
    BY <1>1, <2>1, <2>2
<1>4. 0..k \subseteq Within
  <2>. HIDE DEF Within
  <2>. QED
    BY <1>1, <1>2, <1>3, UpTo
<1>. QED
  BY <1>4

\* Selecting one after another yields an order such as the sort is to make.
LEMMA SomeOrder ==
  ASSUME NEW all \in EntryLists
  PROVE  \E order \in Bijection(DOMAIN all, DOMAIN all) :
           \A n, l \in DOMAIN all : n < l => Before(all, order[n], order[l])
<1>. PICK N, left : N \in Nat /\ N = Len(all) /\ DOMAIN all = 1..N /\ left = Remaining(all, N)
  BY Scored
<1>1. N \in 0..Len(all)
  OBVIOUS
<1>2. PICK order : order = [n \in 1..N |-> FirstLargest(all, left[n - 1])]
  OBVIOUS
<1>3. ASSUME NEW n \in 1..N
      PROVE  /\ Leads(all, left[n - 1], order[n]) /\ left[n - 1] \subseteq DOMAIN all
             /\ left[n] = left[n - 1] \ {order[n]}
  <2>1. order[n] = FirstLargest(all, left[n - 1])
    BY <1>2
  <2>2. Leads(all, left[n - 1], FirstLargest(all, left[n - 1]))
    BY <1>1, SomeRemain
  <2>3. /\ left[n - 1] \in SUBSET DOMAIN all
        /\ left[n] = left[n - 1] \ {FirstLargest(all, left[n - 1])}
    BY <1>1, RemainingSteps
  <2>. QED
    BY <2>1, <2>2, <2>3
<1>4. order \in [DOMAIN all -> DOMAIN all]
  BY <1>2, <1>3 DEF Leads
<1>5. ASSUME NEW n \in 1..N, NEW l \in 1..N, n < l
      PROVE  order[n] # order[l] /\ Before(all, order[n], order[l])
  <2>1. order[l] \in left[n]
    <3>1. left[l - 1] \subseteq left[n]
      BY <1>1, <1>5, RemainingShrinks
    <3>. QED
      BY <1>3, <3>1 DEF Leads
  <2>2. order[l] \in left[n - 1] \ {order[n]}
    BY <1>3, <2>1
  <2>. QED
    BY <1>3, <2>2 DEF Leads
<1>6. order \in Injection(DOMAIN all, DOMAIN all)
  <2>1. \A n, l \in 1..N : order[n] = order[l] => n = l
    BY <1>5
  <2>. QED
    BY <1>4, <2>1 DEF Injection, IsInjective
<1>7. order \in Bijection(DOMAIN all, DOMAIN all)
  BY <1>6, FS_Interval, FS_Injection DEF Bijection
<1>. QED
  BY <1>5, <1>7

LEMMA SortedOrders ==
  ASSUME NEW all \in EntryLists
  PROVE  /\ Sorted(all) \in Bijection(DOMAIN all, DOMAIN all)
         /\ \A n, l \in DOMAIN all : n < l => Before(all, Sorted(all)[n], Sorted(all)[l])
BY SomeOrder DEF Sorted

\* The indexes that come after the first n of the sort are those left by n selections.
LEMMA RemainingAreSorted ==
  ASSUME NEW all \in EntryLists, NEW k \in 0..Len(all), NEW n \in 0..k
  PROVE  Remaining(all, k)[n] = {Sorted(all)[l] : l \in n + 1..Len(all)}
<1>. PICK N, left, order :
       /\ N \in Nat /\ N = Len(all) /\ DOMAIN all = 1..N
       /\ left = Remaining(all, k) /\ order = Sorted(all)
  BY Scored
<1>1. /\ order \in [1..N -> 1..N] /\ \A i \in 1..N : \E l \in 1..N : order[l] = i
      /\ \A l, j \in 1..N : order[l] = order[j] => l = j
      /\ \A l, j \in 1..N : l < j => Before(all, order[l], order[j])
  BY SortedOrders DEF Bijection, Injection, Surjection, IsInjective
<1>. DEFINE After(i) == {order[l] : l \in i + 1..N}
            Right == {i \in 0..k : left[i] = After(i)}
<1>2. 0 \in Right
  <2>1. left[0] = 1..N
    BY RemainingSteps
  <2>2. After(0) = 1..N
    <3>1. 0 + 1..N = 1..N
      OBVIOUS
    <3>2. {order[l] : l \in 1..N} = 1..N
      <4>1. \A l \in 1..N : order[l] \in 1..N
        BY <1>1
      <4>2. \A i \in 1..N : i \in {order[l] : l \in 1..N}
        BY <1>1
      <4>. QED
        BY <4>1, <4>2
    <3>. QED
      BY <3>1, <3>2
  <2>3. 0 \in 0..k
    BY Scored
  <2>. HIDE DEF After
  <2>. QED
    BY <2>1, <2>2, <2>3
<1>3. ASSUME NEW i \in 1..k, i - 1 \in Right PROVE i \in Right
  <2>1. i \in 1..N /\ left[i - 1] = After(i - 1)
    BY <1>3
  <2>2. Leads(all, left[i - 1], order[i])
    <3>1. \A l \in i - 1 + 1..N : l \in 1..N /\ (l = i \/ i < l)
      BY <2>1
    <3>2. i \in i - 1 + 1..N
      BY <2>1
    <3>3. order[i] \in After(i - 1)
      BY <3>2
    <3>4. ASSUME NEW j \in After(i - 1) \ {order[i]} PROVE Before(all, order[i], j)
      <4>1. PICK l \in i - 1 + 1..N : j = order[l]
        BY <3>4
      <4>. QED
        BY <1>1, <2>1, <3>1, <3>4, <4>1
    <3>. HIDE DEF After
    <3>. QED
      BY <2>1, <3>3, <3>4 DEF Leads
  <2>3. FirstLargest(all, left[i - 1]) = order[i]
    <3>1. left[i - 1] \in SUBSET DOMAIN all
      BY RemainingSteps
    <3>. QED
      BY <2>2, <3>1, FirstLeads
  <2>4. left[i] = left[i - 1] \ {order[i]}
    BY <2>3, RemainingSteps
  <2>5. After(i - 1) \ {order[i]} = After(i)
    <3>1. ASSUME NEW j \in After(i - 1), j # order[i] PROVE j \in After(i)
      <4>1. PICK l \in i - 1 + 1..N : j = order[l]
        BY <3>1
      <4>2. l # i
        BY <3>1, <4>1
      <4>3. l \in i + 1..N
        BY <2>1, <4>2
      <4>. QED
        BY <4>1, <4>3
    <3>2. ASSUME NEW j \in After(i) PROVE j \in After(i - 1) /\ j # order[i]
      <4>1. PICK l \in i + 1..N : j = order[l]
        BY <3>2
      <4>2. l \in i - 1 + 1..N /\ l \in 1..N /\ l # i
        BY <2>1
      <4>3. order[l] # order[i]
        BY <1>1, <2>1, <4>2
      <4>. QED
        BY <4>1, <4>2, <4>3
    <3>. HIDE DEF After
    <3>. QED
      BY <3>1, <3>2
  <2>. QED
    BY <2>1, <2>4, <2>5
<1>4. 0..k \subseteq Right
  <2>. HIDE DEF Right
  <2>. QED
    BY <1>2, <1>3, UpTo
<1>. QED
  BY <1>4

\* The n-th entry of the sort is what the n-th selection takes.
LEMMA SelectedIsSorted ==
  ASSUME NEW all \in EntryLists, NEW k \in 0..Len(all), NEW n \in 1..k
  PROVE  FirstLargest(all, Remaining(all, k)[n - 1]) = Sorted(all)[n]
<1>1. Remaining(all, k)[n - 1] = {Sorted(all)[l] : l \in n..Len(all)}
  BY RemainingAreSorted
<1>2. /\ n \in DOMAIN all /\ n \in n..Len(all)
      /\ \A l \in n..Len(all) : l \in DOMAIN all /\ (l = n \/ n < l)
  BY Scored
<1>3. Leads(all, Remaining(all, k)[n - 1], Sorted(all)[n])
  BY <1>1, <1>2, SortedOrders DEF Leads
<1>4. Remaining(all, k)[n - 1] \in SUBSET DOMAIN all
  BY RemainingSteps
<1>. QED
  BY <1>3, <1>4, FirstLeads

\* Sorting all and cutting is selecting, for any list and any number up to its length.
LEMMA SortingSelects ==
  ASSUME NEW all \in EntryLists, NEW k \in 0..Len(all)
  PROVE  [n \in 1..k |-> all[Sorted(all)[n]]] = NLargest(all, k)
BY SelectedIsSorted DEF NLargest

-----------------------------------------------------------------------------
(* Flattening the rows of the shards.                                      *)

LEMMA Element ==
  ASSUME NEW S, NEW seq \in Seq(S)
  PROVE  /\ Len(seq) \in Nat /\ DOMAIN seq = 1..Len(seq)
         /\ \A i \in 1..Len(seq) : seq[i] \in S
OBVIOUS

\* f[n] is the first n sequences, one after another.
IsFlattening(f, seqs, S) ==
  /\ f[0] = <<>>
  /\ \A n \in 0..Len(seqs) : f[n] \in Seq(S)
  /\ \A n \in 1..Len(seqs) : f[n] = f[n - 1] \o seqs[n]
  /\ FlattenSeq(seqs) = f[Len(seqs)]

LEMMA Flattening ==
  ASSUME NEW S, NEW seqs \in Seq(Seq(S))
  PROVE  \E f : IsFlattening(f, seqs, S)
<1>. PICK N, Seqs : N \in Nat /\ N = Len(seqs) /\ Seqs = Seq(S)
  OBVIOUS
<1>1. \A n \in 1..N : seqs[n] \in Seqs
  BY Element
<1>2. <<>> \in Seqs /\ \A s, t \in Seqs : s \o t \in Seqs
  OBVIOUS
<1>3. PICK step : step = [n \in 1..N |-> [s \in Seqs |-> s \o seqs[n]]]
  OBVIOUS
<1>4. step \in [1..N -> [Seqs -> Seqs]]
  BY <1>1, <1>2, <1>3
<1>5. PICK f : IsRun(f, N, Seqs, <<>>, step)
  BY <1>2, <1>4, Run
<1>6. ASSUME NEW n \in 1..N PROVE f[n] = f[n - 1] \o seqs[n]
  <2>1. f[n] = step[n][f[n - 1]] /\ f[n - 1] \in Seqs
    BY <1>5, RunSteps
  <2>2. \A s \in Seqs : step[n][s] = s \o seqs[n]
    BY <1>3
  <2>. QED
    BY <2>1, <2>2
<1>7. f[0] = <<>> /\ \A n \in 0..N : f[n] \in Seqs
  BY <1>5 DEF IsRun
<1>8. CASE N = 0
  <2>1. seqs = <<>>
    BY <1>8, EmptySeq
  <2>2. FlattenSeq(seqs) = <<>>
    BY <2>1 DEF FlattenSeq
  <2>. QED
    BY <1>7, <1>8, <2>2 DEF IsFlattening
<1>9. CASE N # 0
  <2>. DEFINE Steps(g) == g = [i \in 1..N |-> IF i = 1 THEN seqs[i] ELSE g[i - 1] \o seqs[i]]
  <2>1. f[1] = seqs[1]
    <3>1. 1 \in 1..N /\ 1 - 1 = 0
      BY <1>9
    <3>2. f[1] = f[0] \o seqs[1] /\ seqs[1] \in Seq(S)
      <4>1. f[1] = f[1 - 1] \o seqs[1]
        BY <1>6, <3>1
      <4>2. seqs[1] \in Seqs
        BY <1>1, <3>1
      <4>. QED
        BY <3>1, <4>1, <4>2
    <3>3. f[0] = <<>>
      BY <1>7
    <3>. QED
      BY <3>2, <3>3, ConcatEmptySeq
  <2>2. PICK h : h = [i \in 1..N |-> f[i]]
    OBVIOUS
  <2>3. Steps(h)
    <3>1. ASSUME NEW i \in 1..N PROVE h[i] = IF i = 1 THEN seqs[i] ELSE h[i - 1] \o seqs[i]
      <4>1. i # 1 => i - 1 \in 1..N
        OBVIOUS
      <4>2. h[i] = f[i] /\ (i # 1 => h[i - 1] = f[i - 1])
        BY <2>2, <4>1
      <4>3. i # 1 => f[i] = f[i - 1] \o seqs[i]
        BY <1>6
      <4>. QED
        BY <2>1, <4>2, <4>3
    <3>. QED
      BY <2>2, <3>1
  <2>4. PICK g : Steps(g) /\ FlattenSeq(seqs) = g[N]
    BY <1>9, <2>3 DEF FlattenSeq
  <2>. DEFINE Same == {n \in 0..N : n # 0 => g[n] = f[n]}
  <2>5. 0 \in Same
    OBVIOUS
  <2>6. ASSUME NEW n \in 1..N, n - 1 \in Same PROVE n \in Same
    <3>1. g[n] = IF n = 1 THEN seqs[n] ELSE g[n - 1] \o seqs[n]
      BY <2>4
    <3>2. n # 1 => g[n - 1] = f[n - 1]
      BY <2>6
    <3>3. g[n] = f[n]
      BY <1>6, <2>1, <3>1, <3>2
    <3>. QED
      BY <3>3
  <2>7. 0..N \subseteq Same
    <3>. HIDE DEF Same
    <3>. QED
      BY <2>5, <2>6, UpTo
  <2>8. g[N] = f[N]
    BY <1>9, <2>7
  <2>. QED
    BY <1>6, <1>7, <2>4, <2>8 DEF IsFlattening
<1>. QED
  BY <1>8, <1>9

\* The places of a sequence that two others make.
LEMMA JoinedPlaces ==
  ASSUME NEW S, NEW s \in Seq(S), NEW t \in Seq(S), NEW p \in DOMAIN (s \o t)
  PROVE  \/ p \in DOMAIN s /\ (s \o t)[p] = s[p]
         \/ /\ p \notin DOMAIN s
            /\ p - Len(s) \in DOMAIN t
            /\ (s \o t)[p] = t[p - Len(s)]
<1>. PICK M \in Nat, K \in Nat :
       M = Len(s) /\ K = Len(t) /\ DOMAIN s = 1..M /\ DOMAIN t = 1..K
  BY Element
<1>1. s \o t \in Seq(S) /\ Len(s \o t) = M + K
  BY ConcatProperties
<1>2. p \in 1..M + K
  BY <1>1, Element
<1>3. (s \o t)[p] = IF p <= M THEN s[p] ELSE t[p - M]
  BY <1>2, ConcatProperties
<1>4. CASE p <= M
  BY <1>2, <1>3, <1>4
<1>5. CASE ~(p <= M)
  <2>1. p \notin 1..M /\ p - M \in 1..K
    BY <1>2, <1>5
  <2>. QED
    BY <1>3, <1>5, <2>1
<1>. QED
  BY <1>4, <1>5

\* Each element of s is one of the first n rows'; none comes twice; nor any in the rows.
From(s, seqs, n) ==
  \A p \in DOMAIN s : \E i \in 1..n : \E j \in DOMAIN seqs[i] : s[p] = seqs[i][j]
Apart(s) == \A p, q \in DOMAIN s : s[p] = s[q] => p = q
Distinct(seqs) ==
  \A i, k \in DOMAIN seqs : \A j \in DOMAIN seqs[i], l \in DOMAIN seqs[k] :
    seqs[i][j] = seqs[k][l] => i = k /\ j = l

\* One more row keeps both.
LEMMA OneMoreRow ==
  ASSUME NEW S, NEW seqs \in Seq(Seq(S)), NEW n \in 1..Len(seqs), NEW s \in Seq(S),
         From(s, seqs, n - 1)
  PROVE  From(s \o seqs[n], seqs, n) /\ (Distinct(seqs) /\ Apart(s) => Apart(s \o seqs[n]))
<1>1. /\ n \in 1..n /\ 1..n - 1 \subseteq 1..n /\ n \in DOMAIN seqs
      /\ \A i \in 1..n - 1 : i \in DOMAIN seqs /\ i # n
  OBVIOUS
<1>. PICK M, row, all :
       /\ M \in Nat /\ row \in Seq(S) /\ M = Len(s) /\ DOMAIN s = 1..M
       /\ row = seqs[n] /\ all = s \o row
  BY <1>1, Element
<1>. DEFINE Old(p) == p \in DOMAIN s /\ all[p] = s[p]
            New(p) == p \notin DOMAIN s /\ p - M \in DOMAIN row /\ all[p] = row[p - M]
<1>2. \A p \in DOMAIN all : p \in Int /\ (Old(p) \/ New(p))
  <2>1. all \in Seq(S)
    BY ConcatProperties
  <2>2. \A p \in DOMAIN all : p \in Int
    BY <2>1, Element
  <2>. QED
    BY <2>2, JoinedPlaces
<1>3. ASSUME NEW p, Old(p)
      PROVE  \E i \in 1..n - 1 : \E j \in DOMAIN seqs[i] : all[p] = seqs[i][j]
  <2>1. PICK i \in 1..n - 1 : \E j \in DOMAIN seqs[i] : s[p] = seqs[i][j]
    BY <1>3 DEF From
  <2>. QED
    BY <1>3, <2>1
<1>4. ASSUME NEW p \in DOMAIN all
      PROVE  \E i \in 1..n : \E j \in DOMAIN seqs[i] : all[p] = seqs[i][j]
  <2>1. CASE Old(p)
    BY <1>1, <1>3, <2>1
  <2>2. CASE New(p)
    BY <1>1, <2>2
  <2>. QED
    BY <1>2, <2>1, <2>2
<1>5. ASSUME Distinct(seqs), Apart(s), NEW p \in DOMAIN all, NEW q \in DOMAIN all,
             all[p] = all[q]
      PROVE  p = q
  <2>1. CASE Old(p) /\ Old(q)
    BY <1>5, <2>1 DEF Apart
  <2>2. ASSUME NEW u, NEW v, Old(u), New(v), all[u] = all[v]
        PROVE  FALSE
    <3>1. PICK i \in 1..n - 1 : \E j \in DOMAIN seqs[i] : all[u] = seqs[i][j]
      BY <1>3, <2>2
    <3>2. PICK j \in DOMAIN seqs[i] : all[u] = seqs[i][j]
      BY <3>1
    <3>3. all[v] = seqs[n][v - M] /\ v - M \in DOMAIN seqs[n]
      BY <2>2
    <3>4. i \in DOMAIN seqs /\ n \in DOMAIN seqs /\ i # n
      BY <1>1
    <3>5. \A l \in DOMAIN seqs[n] : seqs[i][j] # seqs[n][l]
      BY <1>5, <3>4 DEF Distinct
    <3>. QED
      BY <2>2, <3>2, <3>3, <3>5
  <2>3. CASE New(p) /\ New(q)
    <3>1. /\ p - M \in DOMAIN seqs[n] /\ all[p] = seqs[n][p - M]
          /\ q - M \in DOMAIN seqs[n] /\ all[q] = seqs[n][q - M]
      BY <2>3
    <3>2. \A j, l \in DOMAIN seqs[n] : seqs[n][j] = seqs[n][l] => j = l
      BY <1>1, <1>5 DEF Distinct
    <3>3. p - M = q - M
      BY <1>5, <3>1, <3>2
    <3>. QED
      BY <1>2, <3>3
  <2>. QED
    BY <1>2, <1>5, <2>1, <2>2, <2>3
<1>6. From(all, seqs, n)
  BY <1>4 DEF From
<1>7. Distinct(seqs) /\ Apart(s) => Apart(all)
  BY <1>5 DEF Apart
<1>. QED
  BY <1>6, <1>7

\* Every element of the flat sequence is one of the rows', and none comes twice when
\* none does in the rows.
LEMMA FlatPlaces ==
  ASSUME NEW S, NEW seqs \in Seq(Seq(S))
  PROVE  /\ FlattenSeq(seqs) \in Seq(S) /\ From(FlattenSeq(seqs), seqs, Len(seqs))
         /\ Distinct(seqs) => Apart(FlattenSeq(seqs))
<1>. PICK N, f : N \in Nat /\ N = Len(seqs) /\ IsFlattening(f, seqs, S)
  BY Element, Flattening
<1>. DEFINE Right == {n \in 0..N : From(f[n], seqs, n) /\ (Distinct(seqs) => Apart(f[n]))}
<1>1. 0 \in Right
  <2>1. f[0] = <<>> /\ DOMAIN f[0] = {}
    BY DEF IsFlattening
  <2>. QED
    BY <2>1 DEF From, Apart
<1>2. ASSUME NEW n \in 1..N, n - 1 \in Right PROVE n \in Right
  <2>1. f[n] = f[n - 1] \o seqs[n] /\ f[n - 1] \in Seq(S)
    <3>1. n - 1 \in 0..N
      OBVIOUS
    <3>. QED
      BY <3>1 DEF IsFlattening
  <2>2. From(f[n - 1], seqs, n - 1) /\ (Distinct(seqs) => Apart(f[n - 1]))
    BY <1>2
  <2>3. From(f[n], seqs, n) /\ (Distinct(seqs) => Apart(f[n]))
    BY <2>1, <2>2, OneMoreRow
  <2>. QED
    BY <2>3
<1>3. 0..N \subseteq Right
  <2>. HIDE DEF Right
  <2>. QED
    BY <1>1, <1>2, UpTo
<1>4. From(f[N], seqs, N) /\ (Distinct(seqs) => Apart(f[N]))
  BY <1>3
<1>5. FlattenSeq(seqs) = f[N] /\ f[N] \in Seq(S)
  BY DEF IsFlattening
<1>. QED
  BY <1>4, <1>5

-----------------------------------------------------------------------------
(* The theorems on DecryptScores.                                          *)

Entry == [shard : Int, row : Nat, score : Int]

\* The entries of each row, before they are flattened.
EntryAt(m, x, i, j) == [shard |-> ShardOf(x, i), row |-> j - 1, score |-> m[i][j]]
EntryRows(m, x) == [i \in DOMAIN m |-> [j \in DOMAIN m[i] |-> EntryAt(m, x, i, j)]]

\* A bounded sequence is a sequence, and so is what replaces each element by another.
LEMMA Bounded ==
  ASSUME NEW S, NEW b \in Nat, NEW seq \in BoundedSeq(S, b)
  PROVE  \E n \in Nat : DOMAIN seq = 1..n /\ Len(seq) = n /\ \A i \in 1..n : seq[i] \in S
BY DEF BoundedSeq, SeqOf

LEMMA Mapped ==
  ASSUME NEW S, NEW n \in Nat, NEW f, f = [i \in 1..n |-> f[i]], \A i \in 1..n : f[i] \in S
  PROVE  f \in Seq(S) /\ Len(f) = n
OBVIOUS

LEMMA EntryRowsTyped ==
  ASSUME NEW m \in Matrices, NEW x \in Indexes
  PROVE  /\ EntryRows(m, x) \in Seq(Seq(Entry)) /\ DOMAIN EntryRows(m, x) = DOMAIN m
         /\ \A i \in DOMAIN m :
              /\ i \in Nat /\ DOMAIN EntryRows(m, x)[i] = DOMAIN m[i]
              /\ \A j \in DOMAIN m[i] :
                   j \in Nat /\ EntryRows(m, x)[i][j] = EntryAt(m, x, i, j)
<1>1. PICK N \in Nat : DOMAIN m = 1..N /\ \A i \in 1..N : m[i] \in BoundedSeq(ScoreValues, MaxRows)
  BY Bounded, RetrievalAssumption DEF Matrices
<1>2. ASSUME NEW i \in 1..N
      PROVE  \E n \in Nat : DOMAIN m[i] = 1..n /\ \A j \in 1..n : m[i][j] \in Int
  <2>1. m[i] \in BoundedSeq(ScoreValues, MaxRows)
    BY <1>1
  <2>2. PICK n \in Nat : DOMAIN m[i] = 1..n /\ \A j \in 1..n : m[i][j] \in ScoreValues
    BY <2>1, Bounded, RetrievalAssumption
  <2>. QED
    BY <2>2, RetrievalAssumption
<1>3. ASSUME NEW i \in 1..N PROVE ShardOf(x, i) \in Int
  <2>1. PICK n \in Nat : Len(x) = n /\ \A j \in 1..n : x[j] \in ShardNumbers
    BY Bounded, RetrievalAssumption DEF Indexes
  <2>. QED
    <3>1. i <= Len(x) => i \in 1..n
      BY <2>1
    <3>2. i <= Len(x) => x[i] \in Int
      <4>1. \A number \in ShardNumbers : number \in Int
        BY RetrievalAssumption
      <4>2. i <= Len(x) => x[i] \in ShardNumbers
        BY <2>1, <3>1
      <4>. QED
        BY <4>1, <4>2
    <3>3. i - 1 \in Int
      OBVIOUS
    <3>. QED
      BY <3>2, <3>3 DEF ShardOf
<1>. PICK rows : rows = EntryRows(m, x)
  OBVIOUS
<1>4. ASSUME NEW i \in 1..N
      PROVE  /\ rows[i] \in Seq(Entry) /\ DOMAIN rows[i] = DOMAIN m[i]
             /\ \A j \in DOMAIN m[i] :
                  j \in Nat /\ rows[i][j] = EntryAt(m, x, i, j)
  <2>1. PICK n \in Nat : DOMAIN m[i] = 1..n /\ \A j \in 1..n : m[i][j] \in Int
    BY <1>2
  <2>2. rows[i] = [j \in 1..n |-> EntryAt(m, x, i, j)]
    BY <1>1, <2>1 DEF EntryRows
  <2>3. ASSUME NEW j \in 1..n
        PROVE  EntryAt(m, x, i, j) \in Entry /\ j \in Nat
    BY <1>3, <2>1 DEF Entry, EntryAt
  <2>4. \A j \in 1..n : rows[i][j] \in Entry
    BY <2>2, <2>3
  <2>5. rows[i] \in Seq(Entry)
    BY <2>2, <2>4, Mapped
  <2>. QED
    BY <2>1, <2>2, <2>3, <2>5
<1>5. DOMAIN rows = 1..N /\ rows \in Seq(Seq(Entry))
  <2>1. rows = [i \in 1..N |-> rows[i]]
    BY <1>1 DEF EntryRows
  <2>. QED
    BY <1>4, <2>1, Mapped
<1>. QED
  BY <1>1, <1>4, <1>5

LEMMA FlattenedEntries ==
  ASSUME NEW m \in Matrices, NEW x \in Indexes
  PROVE  /\ Flattened(m, x) \in EntryLists
         /\ From(Flattened(m, x), EntryRows(m, x), Len(EntryRows(m, x)))
         /\ Distinct(EntryRows(m, x)) => Apart(Flattened(m, x))
<1>1. Flattened(m, x) = FlattenSeq(EntryRows(m, x))
  BY DEF Flattened, EntryRows, EntryAt
<1>2. EntryLists = Seq(Entry)
  BY DEF EntryLists, Entry
<1>. QED
  BY <1>1, <1>2, EntryRowsTyped, FlatPlaces

\* As many entries go out as are asked for, or all there are.
LEMMA Cut ==
  ASSUME NEW all \in EntryLists, NEW k \in Limits
  PROVE  Min({k, Len(all)}) \in 0..Len(all)
<1>1. k \in Nat /\ Len(all) \in Nat
  BY Scored DEF Limits
<1>2. PICK least \in {k, Len(all)} : \A n \in {k, Len(all)} : least <= n
  BY <1>1, Least
<1>3. Min({k, Len(all)}) \in {k, Len(all)} /\ \A n \in {k, Len(all)} : Min({k, Len(all)}) <= n
  BY <1>2 DEF Min
<1>. QED
  BY <1>1, <1>3

\* Of scores of any number of shards and rows, sorting all of them stably and cutting the list
\* gives what heapq.nlargest gives: k times the first of the largest that are left.
THEOREM SortingIsSelection == SelectsNLargest
<1>. SUFFICES ASSUME NEW m \in Matrices, NEW x \in Indexes, NEW k \in Limits
              PROVE  topK_FromShards(m, x, k)
                       = NLargest(Flattened(m, x), Min({k, Len(Flattened(m, x))}))
  BY DEF SelectsNLargest
<1>. PICK all, cut : all = Flattened(m, x) /\ cut = Min({k, Len(all)})
  OBVIOUS
<1>1. all \in EntryLists /\ cut \in 0..Len(all)
  BY FlattenedEntries, Cut
<1>2. [n \in 1..cut |-> all[Sorted(all)[n]]] = NLargest(all, cut)
  BY <1>1, SortingSelects
<1>3. topK_FromShards(m, x, k) = [n \in 1..cut |-> all[Sorted(all)[n]]]
  BY DEF topK_FromShards
<1>. QED
  BY <1>2, <1>3

\* No two rows go by one index.
Clear(m, x) == \A i, k \in DOMAIN m : ShardOf(x, i) = ShardOf(x, k) => i = k

LEMMA ClearRows ==
  ASSUME NEW m \in Matrices, NEW x \in Indexes,
         x = <<>> \/ (Len(x) >= Len(m) /\ \A i, j \in DOMAIN x : x[i] = x[j] => i = j)
  PROVE  Clear(m, x)
<1>1. PICK N \in Nat : DOMAIN m = 1..N /\ Len(m) = N
  BY Bounded, RetrievalAssumption DEF Matrices
<1>2. PICK K \in Nat : DOMAIN x = 1..K /\ Len(x) = K
  BY Bounded, RetrievalAssumption DEF Indexes
<1>3. CASE x = <<>>
  <2>1. Len(x) = 0
    BY <1>3
  <2>2. ASSUME NEW i \in 1..N PROVE ShardOf(x, i) = i - 1 /\ i \in Int
    BY <2>1 DEF ShardOf
  <2>. QED
    BY <1>1, <2>2 DEF Clear
<1>4. CASE K >= N /\ \A i, j \in 1..K : x[i] = x[j] => i = j
  <2>1. ASSUME NEW i \in 1..N PROVE ShardOf(x, i) = x[i] /\ i \in 1..K
    BY <1>2, <1>4 DEF ShardOf
  <2>. QED
    BY <1>1, <1>4, <2>1 DEF Clear
<1>. QED
  BY <1>1, <1>2, <1>3, <1>4

\* When no two rows go by one index, an entry of the answer names one row and one score in it,
\* and no two entries name the same, for any number of shards and rows.
THEOREM AnswersNamePlaces == NamesTruePlaces
<1>. SUFFICES ASSUME NEW m \in Matrices, NEW x \in Indexes, NEW k \in Limits,
                     x = <<>> \/ (Len(x) >= Len(m) /\ \A i, j \in DOMAIN x : x[i] = x[j] => i = j),
                     NEW out, out = topK_FromShards(m, x, k)
              PROVE  /\ \A n \in DOMAIN out : \E i \in RowsNamed(m, x, out[n].shard) :
                          /\ RowsNamed(m, x, out[n].shard) = {i}
                          /\ m[i][out[n].row + 1] = out[n].score
                     /\ \A n, l \in DOMAIN out :
                          out[n].shard = out[l].shard /\ out[n].row = out[l].row => n = l
  BY DEF NamesTruePlaces
<1>1. Clear(m, x)
  BY ClearRows
<1>. PICK all, cut, order, rows :
       all = Flattened(m, x) /\ cut = Min({k, Len(all)}) /\ order = Sorted(all)
       /\ rows = EntryRows(m, x)
  OBVIOUS
<1>2. /\ all \in EntryLists /\ DOMAIN all = 1..Len(all) /\ Len(all) \in Nat
      /\ cut \in 0..Len(all) /\ out = [n \in 1..cut |-> all[order[n]]]
  BY FlattenedEntries, Cut, Scored DEF topK_FromShards
<1>3. /\ order \in [DOMAIN all -> DOMAIN all]
      /\ \A n, l \in DOMAIN all : order[n] = order[l] => n = l
  BY <1>2, SortedOrders DEF Bijection, Injection, IsInjective
<1>4. /\ rows \in Seq(Seq(Entry)) /\ DOMAIN rows = DOMAIN m /\ DOMAIN rows = 1..Len(rows)
      /\ \A i \in DOMAIN m :
           /\ DOMAIN rows[i] = DOMAIN m[i]
           /\ \A j \in DOMAIN m[i] :
                j \in Nat /\ rows[i][j] = EntryAt(m, x, i, j)
  BY EntryRowsTyped, Element
<1>5. Distinct(rows)
  <2>. SUFFICES ASSUME NEW i \in DOMAIN m, NEW h \in DOMAIN m, NEW j \in DOMAIN m[i],
                       NEW l \in DOMAIN m[h], rows[i][j] = rows[h][l]
                PROVE  i = h /\ j = l
    <3>1. /\ DOMAIN rows = DOMAIN m /\ \A i \in DOMAIN m : DOMAIN rows[i] = DOMAIN m[i]
      BY <1>4
    <3>. QED
      BY <3>1 DEF Distinct
  <2>1. ShardOf(x, i) = ShardOf(x, h) /\ j - 1 = l - 1 /\ j \in Nat /\ l \in Nat
    <3>1. EntryAt(m, x, i, j) = EntryAt(m, x, h, l) /\ j \in Nat /\ l \in Nat
      BY <1>4
    <3>. QED
      BY <3>1 DEF EntryAt
  <2>. QED
    BY <1>1, <2>1 DEF Clear
<1>6. Apart(all) /\ From(all, rows, Len(rows))
  BY <1>5, FlattenedEntries
<1>7. ASSUME NEW n \in DOMAIN out
      PROVE  \E i \in DOMAIN m : \E j \in DOMAIN m[i] :
               /\ j \in Nat /\ out[n] = rows[i][j]
               /\ out[n].shard = ShardOf(x, i) /\ out[n].row = j - 1
               /\ out[n].score = m[i][j]
  <2>1. n \in DOMAIN all /\ out[n] = all[order[n]] /\ order[n] \in DOMAIN all
    BY <1>2, <1>3
  <2>2. \E i \in 1..Len(rows) : \E j \in DOMAIN rows[i] : all[order[n]] = rows[i][j]
    BY <1>6, <2>1 DEF From
  <2>3. PICK i \in DOMAIN m : \E j \in DOMAIN rows[i] : all[order[n]] = rows[i][j]
    BY <1>4, <2>2
  <2>4. PICK j \in DOMAIN rows[i] : all[order[n]] = rows[i][j]
    BY <2>3
  <2>5. j \in DOMAIN m[i] /\ j \in Nat /\ rows[i][j] = EntryAt(m, x, i, j)
    BY <1>4
  <2>6. /\ EntryAt(m, x, i, j).shard = ShardOf(x, i) /\ EntryAt(m, x, i, j).row = j - 1
        /\ EntryAt(m, x, i, j).score = m[i][j]
    BY DEF EntryAt
  <2>. QED
    BY <2>1, <2>4, <2>5, <2>6
<1>8. ASSUME NEW n \in DOMAIN out
      PROVE  \E i \in RowsNamed(m, x, out[n].shard) :
               /\ RowsNamed(m, x, out[n].shard) = {i}
               /\ m[i][out[n].row + 1] = out[n].score
  <2>1. PICK i \in DOMAIN m : \E j \in DOMAIN m[i] :
          /\ j \in Nat /\ out[n].shard = ShardOf(x, i) /\ out[n].row = j - 1
          /\ out[n].score = m[i][j]
    BY <1>7
  <2>2. PICK j \in Nat : /\ out[n].shard = ShardOf(x, i)
                         /\ out[n].row = j - 1 /\ out[n].score = m[i][j]
    BY <2>1
  <2>3. RowsNamed(m, x, out[n].shard) = {i}
    BY <1>1, <2>2 DEF RowsNamed, Clear
  <2>4. m[i][out[n].row + 1] = out[n].score /\ i \in RowsNamed(m, x, out[n].shard)
    BY <2>2, <2>3
  <2>. QED
    BY <2>3, <2>4
<1>9. ASSUME NEW n \in DOMAIN out, NEW l \in DOMAIN out,
             out[n].shard = out[l].shard, out[n].row = out[l].row
      PROVE  n = l
  <2>1. PICK i \in DOMAIN m : \E j \in Nat :
          /\ out[n] = rows[i][j] /\ out[n].shard = ShardOf(x, i) /\ out[n].row = j - 1
    BY <1>7
  <2>2. PICK h \in DOMAIN m : \E g \in Nat :
          /\ out[l] = rows[h][g] /\ out[l].shard = ShardOf(x, h) /\ out[l].row = g - 1
    BY <1>7
  <2>3. i = h
    BY <1>1, <1>9, <2>1, <2>2 DEF Clear
  <2>4. PICK j \in Nat : out[n] = rows[i][j] /\ out[n].row = j - 1
    BY <2>1
  <2>5. out[n] = out[l]
    <3>1. PICK g \in Nat : out[l] = rows[h][g] /\ out[l].row = g - 1
      BY <2>2
    <3>2. j = g
      BY <1>9, <2>4, <3>1
    <3>. QED
      BY <2>3, <2>4, <3>1, <3>2
  <2>6. /\ n \in DOMAIN all /\ out[n] = all[order[n]] /\ order[n] \in DOMAIN all
        /\ l \in DOMAIN all /\ out[l] = all[order[l]] /\ order[l] \in DOMAIN all
    <3>1. \A p \in DOMAIN out : p \in DOMAIN all /\ out[p] = all[order[p]]
      BY <1>2
    <3>2. \A p \in DOMAIN all : order[p] \in DOMAIN all
      BY <1>3
    <3>. QED
      BY <3>1, <3>2
  <2>7. order[n] = order[l]
    BY <1>6, <2>5, <2>6 DEF Apart
  <2>. QED
    BY <1>3, <2>6, <2>7
<1>. QED
  BY <1>8, <1>9
=============================================================================
