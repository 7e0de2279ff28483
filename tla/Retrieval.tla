------------------------------ MODULE Retrieval ------------------------------
(***************************************************************************)
(* The two pure parts of vault/internal/server/grpc.go: the top k of the   *)
(* decrypted scores, and the decryption of a list of metadata envelopes    *)
(* (with vault/internal/crypto/metadata.go), each beside a definition of   *)
(* what it is to compute.                                                  *)
(*                                                                         *)
(* Only the order of scores matters, so they are integers.  AES-CTR is     *)
(* reduced to what the caller can tell: with the key it was made with a    *)
(* ciphertext gives its text, with any other key it gives garbage and no   *)
(* error.  The team secret is fixed, so a key is named by its agent.       *)
(***************************************************************************)
EXTENDS Integers, SequencesExt

CONSTANTS
  ScoreValues,     \* bound: the scores of a row
  ShardNumbers,    \* bound: the indexes in shardIdx
  MaxShards,       \* bound: rows of scores2D
  MaxRows,         \* bound: scores in a row
  Agents,
  Texts,           \* plaintexts of metadata
  Garbage,         \* what a ciphertext gives under another key
  Broken,          \* a ciphertext that is no base64, or shorter than its IV
  MaxEnvelopes     \* bound: envelopes in a list

ASSUME RetrievalAssumption ==
  /\ ScoreValues \subseteq Int /\ ShardNumbers \subseteq Nat
  /\ MaxShards \in Nat /\ MaxRows \in Nat /\ MaxEnvelopes \in Nat
  /\ Garbage \notin Texts
-----------------------------------------------------------------------------
(* DecryptScores.                                                          *)

\* A row without an index of its own goes by its position.
ShardOf(shardIdx, i) == IF i <= Len(shardIdx) THEN shardIdx[i] ELSE i - 1

Flattened(scores2D, shardIdx) ==
  FlattenSeq([i \in DOMAIN scores2D |->
    [j \in DOMAIN scores2D[i] |->
      [shard |-> ShardOf(shardIdx, i), row |-> j - 1, score |-> scores2D[i][j]]]])

\* Mutant: of equal scores the later one goes first.
UnstableBefore(all, i, j) ==
  \/ all[i].score > all[j].score
  \/ all[i].score = all[j].score /\ i > j

\* The order of sort.SliceStable, by descending score.
Before(all, i, j) ==
  \/ all[i].score > all[j].score
  \/ all[i].score = all[j].score /\ i < j

\* The order in which the entries come after the sort.
Sorted(all) ==
  CHOOSE order \in Bijection(DOMAIN all, DOMAIN all) :
    \A n, l \in DOMAIN all : n < l => Before(all, order[n], order[l])

\* Mutant: rows are numbered by position even when shardIdx names them.
topKByPosition(scores2D, shardIdx, k) ==
  LET all == Flattened(scores2D, <<>>)
  IN  [n \in 1..Min({k, Len(all)}) |-> all[Sorted(all)[n]]]

topK_FromShards(scores2D, shardIdx, k) ==
  LET all == Flattened(scores2D, shardIdx)
  IN  [n \in 1..Min({k, Len(all)}) |-> all[Sorted(all)[n]]]

\* The first of the largest of the entries at the indexes left.
FirstLargest(all, left) ==
  CHOOSE i \in left : \A j \in left :
    /\ all[i].score >= all[j].score
    /\ all[i].score = all[j].score => i <= j

\* The indexes that are left after each of k selections.
Remaining(all, k) ==
  LET left[n \in 0..k] == IF n = 0 THEN DOMAIN all
                          ELSE left[n - 1] \ {FirstLargest(all, left[n - 1])}
  IN  left

\* The reference, heapq.nlargest: k times, the first of the largest that are left.
NLargest(all, k) == [n \in 1..k |-> all[FirstLargest(all, Remaining(all, k)[n - 1])]]

Matrices == BoundedSeq(BoundedSeq(ScoreValues, MaxRows), MaxShards)
Indexes == BoundedSeq(ShardNumbers, MaxShards)
Limits == 0..MaxShards * MaxRows + 1
-----------------------------------------------------------------------------
(* DecryptMetadata.                                                        *)

\* A blob that is no JSON; or an agent's name with a ciphertext made with a key.
Envelope == [parses : {FALSE}]
            \cup [parses : {TRUE}, agent : Agents,
                  cipher : {Broken} \cup [key : Agents, text : Texts]]

\* AES-CTR carries no tag: a wrong key goes unnoticed.
Decrypted(cipher, key) == IF cipher.key = key THEN cipher.text ELSE Garbage

\* The code an envelope stops the loop with, or "OK".
CodeOf(envelope) ==
  CASE ~envelope.parses           -> "InvalidArgument"
    [] envelope.parses /\ envelope.cipher = Broken -> "Internal"
    [] OTHER                      -> "OK"

\* Mutant: an envelope that fails is skipped.
SkipFailed(out, envelope) ==
  IF CodeOf(envelope) = "OK"
  THEN [out EXCEPT !.texts = Append(@, Decrypted(envelope.cipher, envelope.agent))]
  ELSE out

\* One round of the loop; once an envelope has failed there are no more.
OpenNext(out, envelope) ==
  CASE out.code # "OK" -> out
    [] out.code = "OK" /\ CodeOf(envelope) # "OK" -> [code |-> CodeOf(envelope), texts |-> <<>>]
    [] OTHER -> [out EXCEPT !.texts = Append(@, Decrypted(envelope.cipher, envelope.agent))]

\* What the loop has made of the first n envelopes.
OpenedSoFar(list) ==
  LET out[n \in 0..Len(list)] == IF n = 0 THEN [code |-> "OK", texts |-> <<>>]
                                 ELSE OpenNext(out[n - 1], list[n])
  IN  out

OpenList(list) == OpenedSoFar(list)[Len(list)]

Lists == BoundedSeq(Envelope, MaxEnvelopes)
-----------------------------------------------------------------------------
(* What they are to compute, for all inputs within the bounds.             *)

\* Sorting all the scores stably and cutting the list gives what k selections of the first largest
\* give, for fewer scores than k, for empty rows and for ties across shards.
SelectsNLargest ==
  \A m \in Matrices, x \in Indexes, k \in Limits :
    LET all == Flattened(m, x)
    IN  topK_FromShards(m, x, k) = NLargest(all, Min({k, Len(all)}))

\* The row of the matrix that an index names.
RowsNamed(m, x, shard) == {i \in DOMAIN m : ShardOf(x, i) = shard}

\* When every row has an index of its own, or none has, each entry of the answer
\* names one place, that place has the entry's score, and no place comes twice.
\* (With some indexes missing, a row's position may be the index of another.)
NamesTruePlaces ==
  \A m \in Matrices, x \in Indexes, k \in Limits :
    LET out == topK_FromShards(m, x, k)
        clear == x = <<>> \/ (Len(x) >= Len(m) /\ \A i, j \in DOMAIN x : x[i] = x[j] => i = j)
    IN  clear => /\ \A n \in DOMAIN out : \E i \in RowsNamed(m, x, out[n].shard) :
                      /\ RowsNamed(m, x, out[n].shard) = {i}
                      /\ m[i][out[n].row + 1] = out[n].score
                 /\ \A n, l \in DOMAIN out :
                      out[n].shard = out[l].shard /\ out[n].row = out[l].row => n = l

\* A list is decrypted as a whole: every text is in its place, or the first envelope
\* that fails names the error and no text goes out.  Garbage stands in the place of a
\* text that another agent's key had made.
OpensAllOrNothing ==
  \A list \in Lists :
    LET failing == {i \in DOMAIN list : CodeOf(list[i]) # "OK"}
        text(i) == IF list[i].agent = list[i].cipher.key THEN list[i].cipher.text ELSE Garbage
    IN  OpenList(list) =
          IF failing = {} THEN [code |-> "OK", texts |-> [i \in DOMAIN list |-> text(i)]]
          ELSE [code |-> CodeOf(list[Min(failing)]), texts |-> <<>>]
=============================================================================
