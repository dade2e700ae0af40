--------------------------- MODULE QwenRunnerProofs ---------------------------
(***************************************************************************)
(* Proofs about QwenRunner, for every value of its constants: whatever     *)
(* lengths share a batch, every row attends to its own tokens, all of      *)
(* them, at the right positions, and the tensors are what RunLoop's        *)
(* `cache` says.                                                           *)
(*                                                                         *)
(* The padded row is the heart of it: as many pads as the row is short of  *)
(* the width, then the tokens of one sequence. Padding on the left makes   *)
(* it closed under appending a column to every row of a batch.             *)
(***************************************************************************)
EXTENDS QwenRunner, RunLoopProofs

-----------------------------------------------------------------------------
(* Sets of numbers, and the columns of a padded row *)

\* A finite set of numbers has a largest one, and that is what Max returns.
LEMMA MaxProperties ==
  ASSUME NEW S \in SUBSET Int, IsFiniteSet(S), S # {}
  PROVE  Max(S) \in S /\ \A y \in S : y <= Max(S)
<1> DEFINE c == Cardinality(S)
           f == [i \in S |-> Rank(S, i)]
<1>1. c \in Nat /\ c # 0
  BY FS_CardinalityType, FS_EmptySet
<1>2. ASSUME NEW i \in S PROVE Rank(S, i) \in 1 .. c
  <2>. DEFINE L == {j \in S : j <= i}
  <2>1. L \in SUBSET S /\ i \in L
    OBVIOUS
  <2>2. IsFiniteSet(L) /\ Cardinality(L) <= c /\ Cardinality(L) \in Nat
    BY <2>1, FS_Subset, FS_CardinalityType
  <2>3. Cardinality(L) # 0
    BY <2>1, <2>2, FS_EmptySet
  <2>. QED BY <1>1, <2>2, <2>3 DEF Rank
<1>3. ASSUME NEW i \in S, NEW k \in S, i < k PROVE Rank(S, i) # Rank(S, k)
  <2>. DEFINE L == {j \in S : j <= i}
              H == {j \in S : j <= k}
  <2>1. L \in SUBSET H /\ k \in H /\ k \notin L /\ H \in SUBSET S
    <3>1. \A j \in S : j <= i => j <= k
      BY <1>3
    <3>2. k <= k /\ ~(k <= i)
      BY <1>3
    <3>. QED BY <3>1, <3>2
  <2>2. IsFiniteSet(H)
    BY <2>1, FS_Subset
  <2>3. Cardinality(L) # Cardinality(H)
    BY <2>1, <2>2, FS_Subset
  <2>. QED BY <2>3 DEF Rank
<1>4. ASSUME NEW i \in S, NEW k \in S, Rank(S, i) = Rank(S, k) PROVE i = k
  <2>1. i \in Int /\ k \in Int
    OBVIOUS
  <2>2. ~(i < k) /\ ~(k < i)
    BY <1>3, <1>4
  <2>. QED BY <2>1, <2>2
<1>5. f \in Injection(S, 1 .. c)
  BY <1>2, <1>4 DEF Injection, IsInjective
<1>6. f \in Surjection(S, 1 .. c)
  <2>1. IsFiniteSet(1 .. c) /\ Cardinality(1 .. c) = c
    BY <1>1, FS_Interval
  <2>. QED BY <1>5, <2>1, FS_Injection
<1>7. PICK x \in S : Rank(S, x) = c
  <2>1. c \in 1 .. c
    BY <1>1
  <2>. QED BY <1>6, <2>1 DEF Surjection
<1>8. {j \in S : j <= x} = S
  BY <1>7, FS_Subset DEF Rank
<1>9. \A y \in S : y <= x
  BY <1>8
<1>10. \E m \in S : \A y \in S : m >= y
  BY <1>7, <1>9
<1>11. Max(S) \in S /\ \A y \in S : Max(S) >= y
  BY <1>10 DEF Max
<1>. QED BY <1>11

\* Of the last n of w positions, the k-th is k places after the others.
LEMMA NthOfSuffix ==
  ASSUME NEW a \in Nat, NEW n \in Nat
  PROVE  LET K == (a + 1) .. (a + n)
         IN  /\ Cardinality(K) = n
             /\ \A k \in 1 .. n : NthOf(K, k) = a + k
<1> DEFINE K == (a + 1) .. (a + n)
<1>1. Cardinality(K) = n
  BY FS_Interval
<1>2. K \in SUBSET (1 .. (a + n)) /\ a + n \in Nat
  OBVIOUS
<1>3. ASSUME NEW k \in 1 .. n PROVE NthOf(K, k) = a + k
  <2>1. a + k \in K
    OBVIOUS
  <2>2. {j \in K : j <= a + k} = (a + 1) .. (a + k)
    OBVIOUS
  <2>3. Cardinality((a + 1) .. (a + k)) = k
    BY FS_Interval
  <2>4. Rank(K, a + k) = k
    BY <2>2, <2>3 DEF Rank
  <2>. HIDE DEF K
  <2>. QED BY <1>2, <2>1, <2>4, NthOfProperties
<1>. QED BY <1>1, <1>3

\* Dropping what comes before the last n positions.
LEMMA RetainSuffix ==
  ASSUME NEW a \in Nat, NEW n \in Nat, NEW q
  PROVE  Retain(q, (a + 1) .. (a + n)) = [k \in 1 .. n |-> q[a + k]]
<1> DEFINE K == (a + 1) .. (a + n)
<1>1. Cardinality(K) = n /\ \A k \in 1 .. n : NthOf(K, k) = a + k
  BY NthOfSuffix
<1>. HIDE DEF K
<1>2. Retain(q, K) = [k \in 1 .. n |-> q[NthOf(K, k)]]
  BY <1>1 DEF Retain
<1>3. Retain(q, K) = [k \in 1 .. n |-> q[a + k]]
  BY <1>1, <1>2
<1>. QED BY <1>3 DEF K

\* [filler] * pad + q: the filler up to the last n columns, and then q.
LEMMA PadColumns ==
  ASSUME NEW S, NEW filler \in S, NEW n \in Nat, NEW w \in Nat, n <= w,
         NEW q \in [1 .. n -> S]
  PROVE  LET r == [k \in 1 .. w - Len(q) |-> filler] \o q
         IN  /\ r \in Seq(S) /\ Len(r) = w
             /\ \A c \in 1 .. w : r[c] = IF c <= w - n THEN filler ELSE q[c - (w - n)]
<1>1. q \in Seq(S) /\ Len(q) = n
  BY SeqOfFunction
<1> DEFINE m == w - n
           p == [k \in 1 .. m |-> filler]
<1>2. m \in Nat /\ m + n = w
  OBVIOUS
<1>3. p \in [1 .. m -> S] /\ \A k \in 1 .. m : p[k] = filler
  OBVIOUS
<1>. HIDE DEF m
<1>4. p \in Seq(S) /\ Len(p) = m
  BY <1>2, <1>3, SeqOfFunction
<1>5. w - Len(q) = m
  BY <1>1 DEF m
<1>. HIDE DEF p
<1>6. /\ p \o q \in Seq(S) /\ Len(p \o q) = m + n
      /\ \A c \in 1 .. m + n : (p \o q)[c] = IF c <= m THEN p[c] ELSE q[c - m]
  BY <1>1, <1>4
<1>7. \A c \in 1 .. w : (p \o q)[c] = IF c <= m THEN filler ELSE q[c - m]
  BY <1>2, <1>3, <1>6
<1>. QED BY <1>2, <1>5, <1>6, <1>7 DEF m, p

-----------------------------------------------------------------------------
(* Rows of a rectangular batch *)

\* The column that stands for the n-th token of request id.
TokenColumn(id, n) == [token |-> [id |-> id, n |-> n], pos |-> n - 1]

PadColumn == [token |-> PadToken, pos |-> 0]

\* The first n tokens of request id, padded on the left to w columns.
PaddedRow(id, n, w) ==
  [c \in 1 .. w |-> IF c <= w - n THEN PadColumn ELSE TokenColumn(id, c - (w - n))]

\* The first n tokens of request id, at positions 0 to n - 1.
OwnTokens(id, n) == [k \in 1 .. n |-> [token |-> [id |-> id, n |-> k], pos |-> k - 1]]

\* The columns of a row that are no pads.
RealColumns(row) == {c \in DOMAIN row : row[c].token # PadToken}

\* Appending the next token to a padded row pads a row that is one longer.
LEMMA PaddedRowGrows ==
  ASSUME NEW id, NEW n \in Nat, NEW w \in Nat, n <= w
  PROVE  PaddedRow(id, n, w) \o <<TokenColumn(id, n + 1)>> = PaddedRow(id, n + 1, w + 1)
<1> DEFINE C == {PadColumn} \cup {TokenColumn(id, k) : k \in Int}
           new == TokenColumn(id, n + 1)
           r == PaddedRow(id, n, w)
           s == PaddedRow(id, n + 1, w + 1)
<1>1. PICK m \in Nat : m = w - n
  OBVIOUS
<1>2. (w + 1) - (n + 1) = m /\ w = m + n
  BY <1>1
<1>3. /\ r = [c \in 1 .. w |-> IF c <= m THEN PadColumn ELSE TokenColumn(id, c - m)]
      /\ s = [c \in 1 .. w + 1 |-> IF c <= m THEN PadColumn ELSE TokenColumn(id, c - m)]
  BY <1>1, <1>2 DEF PaddedRow
<1>4. /\ r \in [1 .. w -> C] /\ s \in [1 .. w + 1 -> C] /\ new \in C
      /\ \A c \in 1 .. w : s[c] = r[c]
      /\ s[w + 1] = TokenColumn(id, (w + 1) - m)
  <2>. HIDE DEF r, s
  <2>1. \A c \in 1 .. w + 1 : (IF c <= m THEN PadColumn ELSE TokenColumn(id, c - m)) \in C
    OBVIOUS
  <2>2. 1 .. w \subseteq 1 .. w + 1 /\ w + 1 \in 1 .. w + 1 /\ ~(w + 1 <= m)
    BY <1>2
  <2>3. new \in C
    OBVIOUS
  <2>. HIDE DEF C
  <2>. QED BY <1>3, <2>1, <2>2, <2>3
<1>5. (w + 1) - m = n + 1
  BY <1>2
<1>6. s[w + 1] = new
  BY <1>4, <1>5
<1>. HIDE DEF C, r, s, new
<1>7. r \in Seq(C) /\ Len(r) = w /\ s \in Seq(C) /\ Len(s) = w + 1
  BY <1>4, SeqOfFunction
<1>8. r \o <<new>> = Append(r, new)
  BY <1>4, <1>7
<1>9. /\ Append(r, new) \in Seq(C) /\ Len(Append(r, new)) = w + 1
      /\ Append(r, new)[w + 1] = new /\ \A c \in 1 .. w : Append(r, new)[c] = r[c]
  BY <1>4, <1>7
<1>10. \A c \in 1 .. w + 1 : Append(r, new)[c] = s[c]
  <2>1. \A c \in 1 .. w + 1 : c = w + 1 \/ c \in 1 .. w
    OBVIOUS
  <2>. QED BY <1>4, <1>6, <1>9, <2>1
<1>11. Append(r, new) = s
  BY <1>7, <1>9, <1>10
<1>. QED BY <1>8, <1>11 DEF r, s, new

\* Without its pads a padded row is the request's tokens, in order, from
\* position 0 on; its last column is the newest of them.
LEMMA PaddedRowContent ==
  ASSUME NEW id \in Nat, NEW n \in Nat, NEW w \in Nat, n <= w,
         NEW row, row = PaddedRow(id, n, w)
  PROVE  /\ RealColumns(row) = (w - n + 1) .. w
         /\ Retain(row, RealColumns(row)) = OwnTokens(id, n)
         /\ n > 0 => row[w] = TokenColumn(id, n)
         /\ Len(row) = w /\ DOMAIN row = 1 .. w
<1> DEFINE r == PaddedRow(id, n, w)
<1>1. PICK m \in Nat : m = w - n
  OBVIOUS
<1>2. w = m + n
  BY <1>1
<1>3. r = [c \in 1 .. w |-> IF c <= m THEN PadColumn ELSE TokenColumn(id, c - m)]
  BY <1>1 DEF PaddedRow
<1>4. /\ DOMAIN r = 1 .. w
      /\ \A c \in 1 .. m : r[c] = PadColumn
      /\ \A k \in 1 .. n : r[m + k] = TokenColumn(id, k)
  <2>. HIDE DEF r
  <2>1. DOMAIN r = 1 .. w
    BY <1>3
  <2>2. \A c \in 1 .. m : c \in 1 .. w /\ c <= m
    BY <1>2
  <2>3. \A k \in 1 .. n : m + k \in 1 .. w /\ ~(m + k <= m) /\ (m + k) - m = k
    BY <1>2
  <2>4. \A c \in 1 .. m : r[c] = PadColumn
    BY <1>3, <2>2
  <2>5. ASSUME NEW k \in 1 .. n PROVE r[m + k] = TokenColumn(id, k)
    <3>1. r[m + k] = TokenColumn(id, (m + k) - m)
      BY <1>3, <2>3
    <3>. QED BY <2>3, <3>1
  <2>. QED BY <2>1, <2>4, <2>5
<1>. HIDE DEF r
<1>5. PadColumn.token = PadToken /\ \A k \in 1 .. n : TokenColumn(id, k).token # PadToken
  <2>1. PadColumn.token = PadToken
    BY DEF PadColumn
  <2>2. ASSUME NEW k \in 1 .. n PROVE TokenColumn(id, k).token # PadToken
    <3>1. TokenColumn(id, k).token.n = k
      BY DEF TokenColumn
    <3>2. PadToken.n = 0
      BY DEF PadToken
    <3>3. k # 0
      OBVIOUS
    <3>. QED BY <3>1, <3>2, <3>3
  <2>. QED BY <2>1, <2>2
<1>6. {c \in DOMAIN r : r[c].token # PadToken} = (m + 1) .. (m + n)
  <2>1. ASSUME NEW c \in 1 .. w PROVE r[c].token # PadToken <=> c \in (m + 1) .. (m + n)
    <3>1. CASE c <= m
      <4>1. c \in 1 .. m /\ c \notin (m + 1) .. (m + n)
        BY <3>1
      <4>. QED BY <1>4, <1>5, <4>1
    <3>2. CASE ~(c <= m)
      <4>1. PICK k \in 1 .. n : c = m + k
        <5>1. c - m \in 1 .. n /\ c = m + (c - m)
          BY <1>2, <3>2
        <5>. QED BY <5>1
      <4>2. c \in (m + 1) .. (m + n)
        BY <4>1
      <4>. QED BY <1>4, <1>5, <4>1, <4>2
    <3>. QED BY <3>1, <3>2
  <2>2. (m + 1) .. (m + n) \subseteq 1 .. w
    BY <1>2
  <2>. QED BY <1>4, <2>1, <2>2
<1>7. Retain(r, (m + 1) .. (m + n)) = [k \in 1 .. n |-> r[m + k]]
  BY RetainSuffix
<1>8. Retain(r, (m + 1) .. (m + n))
        = [k \in 1 .. n |-> [token |-> [id |-> id, n |-> k], pos |-> k - 1]]
  <2>1. \A k \in 1 .. n : r[m + k] = [token |-> [id |-> id, n |-> k], pos |-> k - 1]
    BY <1>4 DEF TokenColumn
  <2>. QED BY <1>7, <2>1
<1>9. n > 0 => r[w] = TokenColumn(id, n)
  <2>1. n > 0 => n \in 1 .. n
    OBVIOUS
  <2>. QED BY <1>2, <1>4, <2>1
<1>10. Len(r) = w
  BY <1>4
<1>11. row = r
  BY DEF r
<1>12. RealColumns(row) = (m + 1) .. (m + n)
  BY <1>6, <1>11 DEF RealColumns
<1>13. m + 1 = w - n + 1 /\ m + n = w
  BY <1>1
<1>14. Retain(row, RealColumns(row)) = OwnTokens(id, n)
  BY <1>8, <1>11, <1>12 DEF OwnTokens
<1>. QED BY <1>4, <1>9, <1>10, <1>11, <1>12, <1>13, <1>14

-----------------------------------------------------------------------------
(* What _pad_and_stack builds *)

\* Every prompt has a token, so that every row has one.
Prompted == \A id \in Ids : seqs[id].prompt_len \in Nat \ {0}

\* The batch is as wide as its longest row, and no row is empty.
LEMMA BatchShape ==
  ASSUME TypeOK, Prompted, NEW row \in DOMAIN batch
  PROVE  /\ batch[row] \in Ids /\ batch[row] \in Nat
         /\ SeqLen(seqs[batch[row]]) \in Nat \ {0}
         /\ Width \in Nat \ {0} /\ SeqLen(seqs[batch[row]]) <= Width
         /\ \E top \in DOMAIN batch : SeqLen(seqs[batch[top]]) = Width
<1> DEFINE S == {SeqLen(seqs[batch[r]]) : r \in DOMAIN batch}
<1>1. /\ SchedulerTypeOK /\ batch \in Seq(Ids)
      /\ DOMAIN batch = 1 .. Len(batch) /\ Len(batch) \in Nat
  BY DEF TypeOK
<1>2. \A r \in DOMAIN batch : batch[r] \in Ids
  BY <1>1
<1>3. \A id \in Ids : id \in Nat /\ seqs[id] \in Sequence
  BY <1>1, IdsProperties
<1>4. ASSUME NEW r \in DOMAIN batch PROVE SeqLen(seqs[batch[r]]) \in Nat \ {0}
  <2>1. PICK s \in Sequence : s = seqs[batch[r]] /\ s.prompt_len \in Nat \ {0}
    BY <1>2, <1>3 DEF Prompted
  <2>2. Len(s.output_ids) \in Nat
    <3>1. s.output_ids \in Seq(Tokens)
      BY DEF Sequence
    <3>. QED BY <3>1
  <2>3. s.prompt_len + Len(s.output_ids) \in Nat \ {0}
    <3>1. PICK a \in Nat \ {0} : a = s.prompt_len
      BY <2>1
    <3>2. PICK b \in Nat : b = Len(s.output_ids)
      BY <2>2
    <3>3. a + b \in Nat \ {0}
      OBVIOUS
    <3>. QED BY <3>1, <3>2, <3>3
  <2>. QED BY <2>1, <2>3 DEF SeqLen
<1>5. IsFiniteSet(S)
  <2> DEFINE f == [r \in DOMAIN batch |-> SeqLen(seqs[batch[r]])]
  <2>1. f \in Surjection(DOMAIN batch, S)
    BY DEF Surjection
  <2>2. IsFiniteSet(DOMAIN batch)
    BY <1>1, FS_Interval
  <2>. HIDE DEF f, S
  <2>. QED BY <2>1, <2>2, FS_Surjection
<1>6. S \in SUBSET Int /\ S # {} /\ SeqLen(seqs[batch[row]]) \in S
  BY <1>4
<1>7. Width = Max(S)
  BY DEF Width
<1>8. Width \in S /\ \A y \in S : y <= Width
  <2>. HIDE DEF S
  <2>. QED BY <1>5, <1>6, <1>7, MaxProperties
<1>. QED BY <1>2, <1>3, <1>4, <1>6, <1>8

\* The position of a column, by the real columns up to it.
PositionAfter(real) == IF real = {} THEN 0 ELSE Cardinality(real) - 1

\* Pads count for nothing in the positions: the n-th token of a row is at n - 1.
LEMMA PositionOf ==
  ASSUME NEW m \in Nat, NEW c \in Nat, NEW real \in SUBSET (1 .. c),
         \A k \in 1 .. c : k \in real <=> ~(k <= m)
  PROVE  PositionAfter(real) = IF c <= m THEN 0 ELSE (c - m) - 1
<1>1. real = (m + 1) .. c
  <2>1. \A k : k \in (m + 1) .. c <=> k \in 1 .. c /\ ~(k <= m)
    OBVIOUS
  <2>. QED BY <2>1
<1>2. Cardinality((m + 1) .. c) = IF m + 1 > c THEN 0 ELSE c - (m + 1) + 1
  BY FS_Interval
<1>3. CASE c <= m
  <2>1. (m + 1) .. c = {}
    BY <1>3
  <2>. QED BY <1>1, <1>3, <2>1 DEF PositionAfter
<1>4. CASE ~(c <= m)
  <2>1. c \in (m + 1) .. c
    BY <1>4
  <2>2. real # {}
    BY <1>1, <2>1
  <2>3. PICK k \in Nat : k = c - m
    BY <1>4
  <2>4. Cardinality((m + 1) .. c) = k
    BY <1>2, <1>4, <2>3
  <2>5. Cardinality(real) = k
    BY <1>1, <2>4
  <2>6. PositionAfter(real) = k - 1
    BY <2>2, <2>5 DEF PositionAfter
  <2>. QED BY <1>4, <2>3, <2>6
<1>. QED BY <1>3, <1>4

\* Column by column, the padded tensors of a row are its padded row.
LEMMA StackedColumns ==
  ASSUME TypeOK, Prompted, NEW row \in DOMAIN batch, NEW c \in 1 .. Width
  PROVE  /\ [token |-> InputIds(row)[c], pos |-> PositionIds(row)[c]]
              = PaddedRow(batch[row], SeqLen(seqs[batch[row]]), Width)[c]
         /\ AttentionMask(row)[c] = 1
              <=> c \in (Width - SeqLen(seqs[batch[row]]) + 1) .. Width
<1>1. PICK id \in Nat : id = batch[row]
  BY BatchShape
<1>2. PICK n \in Nat : n = SeqLen(seqs[batch[row]])
  BY BatchShape
<1>3. PICK w \in Nat : w = Width
  BY BatchShape
<1>4. n <= w /\ c \in 1 .. w
  BY <1>2, <1>3, BatchShape
<1>5. PICK m \in Nat : m = w - n
  BY <1>4
<1>6. InputIds(row)[c] = IF c <= m THEN PadToken ELSE [id |-> id, n |-> c - m]
  <2> DEFINE T == [id : Nat, n : Nat]
             q == [k \in 1 .. n |-> [id |-> id, n |-> k]]
  <2>1. q \in [1 .. n -> T] /\ PadToken \in T
    BY DEF PadToken
  <2>2. TokenIds(batch[row]) = q
    BY <1>1, <1>2 DEF TokenIds
  <2>3. InputIds(row) = [k \in 1 .. w - Len(q) |-> PadToken] \o q
    BY <1>3, <2>2 DEF InputIds, Padded
  <2>. HIDE DEF q, T
  <2>4. InputIds(row)[c] = IF c <= w - n THEN PadToken ELSE q[c - (w - n)]
    BY <1>4, <2>1, <2>3, PadColumns
  <2>5. ~(c <= m) => c - m \in 1 .. n
    BY <1>4, <1>5
  <2>6. ~(c <= m) => q[c - m] = [id |-> id, n |-> c - m]
    BY <2>5 DEF q
  <2>. QED BY <1>5, <2>4, <2>6
<1>7. \A k \in 1 .. w : AttentionMask(row)[k] = IF k <= m THEN 0 ELSE 1
  <2> DEFINE q == [k \in 1 .. n |-> 1]
  <2>1. q \in [1 .. n -> {0, 1}] /\ 0 \in {0, 1} /\ \A k \in 1 .. n : q[k] = 1
    OBVIOUS
  <2>2. AttentionMask(row) = [k \in 1 .. w - Len(q) |-> 0] \o q
    BY <1>2, <1>3 DEF AttentionMask, Padded
  <2>. HIDE DEF q
  <2>3. \A k \in 1 .. w : AttentionMask(row)[k] = IF k <= w - n THEN 0 ELSE q[k - (w - n)]
    BY <1>4, <2>1, <2>2, PadColumns
  <2>4. \A k \in 1 .. w : ~(k <= m) => k - m \in 1 .. n
    BY <1>4, <1>5
  <2>. QED BY <1>5, <2>1, <2>3, <2>4
<1>8. PositionIds(row)[c] = IF c <= m THEN 0 ELSE (c - m) - 1
  <2>1. PICK mask : mask = AttentionMask(row)
    OBVIOUS
  <2>2. PICK real : real = {k \in 1 .. c : mask[k] = 1}
    OBVIOUS
  <2>3. PositionIds(row)[c] = PositionAfter(real)
    BY <1>3, <1>4, <2>1, <2>2 DEF PositionIds, PositionAfter
  <2>4. \A k \in 1 .. w : mask[k] = IF k <= m THEN 0 ELSE 1
    BY <1>7, <2>1
  <2>5. PositionAfter(real) = IF c <= m THEN 0 ELSE (c - m) - 1
    <3>1. c \in Nat /\ real \in SUBSET (1 .. c) /\ \A k \in 1 .. c : k \in 1 .. w
      BY <1>4, <2>2
    <3>2. \A k \in 1 .. c : k \in real <=> ~(k <= m)
      BY <2>2, <2>4, <3>1
    <3>. QED BY <3>1, <3>2, PositionOf
  <2>. QED BY <2>3, <2>5
<1>9. PaddedRow(id, n, w)[c] = IF c <= m THEN PadColumn ELSE TokenColumn(id, c - m)
  BY <1>4, <1>5 DEF PaddedRow
<1>10. [token |-> InputIds(row)[c], pos |-> PositionIds(row)[c]] = PaddedRow(id, n, w)[c]
  BY <1>6, <1>8, <1>9 DEF PadColumn, TokenColumn
<1>11. AttentionMask(row)[c] = 1 <=> c \in (w - n + 1) .. w
  <2>1. AttentionMask(row)[c] = 1 <=> ~(c <= m)
    BY <1>4, <1>7
  <2>2. ~(c <= m) <=> c \in (w - n + 1) .. w
    BY <1>4, <1>5
  <2>. QED BY <2>1, <2>2
<1>. QED BY <1>1, <1>2, <1>3, <1>10, <1>11

-----------------------------------------------------------------------------
(* The forward pass *)

\* The KV cache is the padded rows that `cache` names, in one width, and the
\* widest of them has no pad.
TensorIs(width) ==
  /\ \A row \in DOMAIN cache : cache[row].held <= width
  /\ DOMAIN cache # {} => \E top \in DOMAIN cache : cache[top].held = width
  /\ kv = [row \in DOMAIN cache |-> PaddedRow(cache[row].id, cache[row].held, width)]

Tensor == \E width \in Nat : TensorIs(width)

\* With no cache, or none that counts, all columns of a row are fed; with one,
\* only that of its newest token.
LEMMA FedColumns ==
  ASSUME TypeOK, Prompted, NEW row \in DOMAIN batch
  PROVE  LET r == PaddedRow(batch[row], SeqLen(seqs[batch[row]]), Width)
         IN  /\ PastKeyValues = <<>> => <<>> \o Fed(row) = r
             /\ PastKeyValues # <<>> =>
                  Fed(row) = <<TokenColumn(batch[row], SeqLen(seqs[batch[row]]))>>
<1> DEFINE r == PaddedRow(batch[row], SeqLen(seqs[batch[row]]), Width)
<1>1. PICK id \in Nat : id = batch[row]
  BY BatchShape
<1>2. PICK n \in Nat \ {0} : n = SeqLen(seqs[batch[row]])
  BY BatchShape
<1>3. PICK w \in Nat \ {0} : w = Width /\ n <= w
  BY <1>2, BatchShape
<1>4. r = PaddedRow(id, n, w)
  BY <1>1, <1>2, <1>3
<1>. HIDE DEF r
<1>5. \A c \in 1 .. Width : [token |-> InputIds(row)[c], pos |-> PositionIds(row)[c]] = r[c]
  BY StackedColumns DEF r
<1>6. Len(r) = w /\ DOMAIN r = 1 .. w /\ r[w] = TokenColumn(id, n)
  <2>1. n <= w /\ n \in Nat /\ w \in Nat /\ n > 0
    BY <1>3
  <2>. QED BY <1>4, <2>1, PaddedRowContent
<1>7. r = [c \in 1 .. w |-> r[c]]
  BY <1>4 DEF PaddedRow
<1>8. PastKeyValues = <<>> => Fed(row) = r
  <2>1. [c \in 1 .. Width |-> [token |-> InputIds(row)[c], pos |-> PositionIds(row)[c]]] = r
    BY <1>3, <1>5, <1>7
  <2>. QED BY <2>1 DEF Fed
<1>9. PastKeyValues # <<>> => Fed(row) = <<TokenColumn(id, n)>>
  <2>1. Width \in 1 .. Width
    BY <1>3
  <2>2. [token |-> InputIds(row)[Width], pos |-> PositionIds(row)[Width]] = r[Width]
    BY <1>5, <2>1
  <2>3. r[Width] = TokenColumn(id, n)
    BY <1>3, <1>6
  <2>. QED BY <2>2, <2>3 DEF Fed
<1>10. <<>> \o r = r
  <2>1. r \in Seq({r[c] : c \in 1 .. w})
    <3>1. \A c \in 1 .. w : r[c] \in {r[k] : k \in 1 .. w}
      OBVIOUS
    <3>2. r \in [1 .. w -> {r[c] : c \in 1 .. w}]
      BY <1>7, <3>1
    <3>. QED BY <3>2, SeqOfFunction
  <2>. QED BY <2>1
<1>. QED BY <1>1, <1>2, <1>8, <1>9, <1>10 DEF r

\* After a forward pass the KV cache is the batch, padded to one width: a prefill
\* feeds all of it, and a decode brings what its cache lacked.
LEMMA ForwardPass ==
  ASSUME TypeOK, CacheInv, Prompted, Tensor, pc = "exec"
  PROVE  KvAfter = [row \in DOMAIN batch |->
                      PaddedRow(batch[row], SeqLen(seqs[batch[row]]), Width)]
<1> SUFFICES ASSUME NEW row \in DOMAIN batch
             PROVE  (IF PastKeyValues = <<>> THEN <<>> ELSE PastKeyValues[row]) \o Fed(row)
                      = PaddedRow(batch[row], SeqLen(seqs[batch[row]]), Width)
  BY DEF KvAfter
<1>1. CASE PastKeyValues = <<>>
  BY <1>1, FedColumns
<1>2. CASE PastKeyValues # <<>>
  <2>1. ~is_prefill /\ PastKeyValues = kv
    BY <1>2 DEF PastKeyValues
  <2>2. /\ DOMAIN cache = DOMAIN batch
        /\ \A r \in DOMAIN batch :
             /\ cache[r].id = batch[r]
             /\ cache[r].held = SeqLen(seqs[batch[r]]) - 1
    BY <2>1 DEF CacheInv, CacheDescribesBatch
  <2>3. PICK w \in Nat : TensorIs(w)
    BY DEF Tensor
  <2>4. PICK id \in Nat : id = batch[row]
    BY BatchShape
  <2>5. PICK n \in Nat : n + 1 = SeqLen(seqs[batch[row]])
    <3>1. PICK k \in Nat \ {0} : k = SeqLen(seqs[batch[row]])
      BY BatchShape
    <3>2. k - 1 \in Nat /\ (k - 1) + 1 = k
      OBVIOUS
    <3>. QED BY <3>1, <3>2
  <2>6. cache[row].held = n
    <3>1. (n + 1) - 1 = n
      OBVIOUS
    <3>. QED BY <2>2, <2>5, <3>1
  <2>7. kv[row] = PaddedRow(id, n, w) /\ n <= w
    BY <2>2, <2>3, <2>4, <2>6 DEF TensorIs
  <2>8. Width = w + 1
    <3>1. PICK top \in DOMAIN batch : cache[top].held = w
      BY <2>2, <2>3 DEF TensorIs
    <3>2. PICK a \in Nat : a = SeqLen(seqs[batch[top]]) /\ a <= Width /\ a - 1 = w
      BY <2>2, <3>1, BatchShape
    <3>3. PICK long \in DOMAIN batch : SeqLen(seqs[batch[long]]) = Width
      BY BatchShape
    <3>4. PICK b \in Nat : b = Width /\ b - 1 = cache[long].held
      BY <2>2, <3>3, BatchShape
    <3>5. b - 1 <= w
      BY <2>2, <2>3, <3>4 DEF TensorIs
    <3>. QED BY <3>2, <3>4, <3>5
  <2>9. Fed(row) = <<TokenColumn(id, n + 1)>>
    BY <1>2, <2>4, <2>5, FedColumns
  <2>10. PaddedRow(id, n, w) \o <<TokenColumn(id, n + 1)>> = PaddedRow(id, n + 1, w + 1)
    BY <2>7, PaddedRowGrows
  <2>. QED BY <1>2, <2>1, <2>4, <2>5, <2>7, <2>8, <2>9, <2>10
<1>. QED BY <1>1, <1>2

-----------------------------------------------------------------------------
(* The inductive invariant *)

\* Every step of the runner's loop is one of run_loop.
LEMMA QwenStepIsStep == [QwenNext]_qwenVars => [AnyStep]_vars
  BY RunLoopAssumption
     DEF QwenNext, Execute, DropCache, Elsewhere, qwenVars, AnyStep, AnyLoopStep, LoopStep

\* No step leaves a request without a prompt.
LEMMA PromptedNext == TypeOK /\ Prompted /\ [AnyStep]_vars => Prompted'
<1> SUFFICES ASSUME TypeOK, Prompted, [AnyStep]_vars PROVE Prompted'
  OBVIOUS
<1>1. ASSUME NEW id \in Ids PROVE seqs'[id].prompt_len = seqs[id].prompt_len
  <2>1. Touched(id)
    BY StepTouches
  <2>2. PICK s \in Sequence : s = seqs[id]
    BY IdsProperties DEF TypeOK
  <2>3. "error" \in FinishReasons /\ "cancelled" \in FinishReasons
    BY DEF FinishReasons
  <2>4. /\ GiveUp(s, "error").prompt_len = s.prompt_len
        /\ GiveUp(s, "cancelled").prompt_len = s.prompt_len
        /\ \A token \in Tokens : AppendToken(s, token).prompt_len = s.prompt_len
    BY <2>3, GiveUpType, AppendTokenType
  <2>5. Fail(s).prompt_len = s.prompt_len
    BY FailType
  <2>. QED BY <2>1, <2>2, <2>4, <2>5 DEF Touched, LoopTouched
<1>2. ASSUME NEW eos \in SUBSET Tokens, Submit(eos) PROVE Prompted'
  <2>1. PICK p \in PromptLens, m \in MaxNews : Add(p, m, eos)
    BY <1>2 DEF Submit
  <2>2. p \in Nat \ {0} /\ m \in Nat
    BY SchedulerAssumption, QwenRunnerAssumption
  <2> DEFINE n == Len(seqs) + 1
             s == NewSequence(p, m, eos)
             e == Emit([s EXCEPT !.finish_reason = "length"], None)
  <2>3. Ids' = Ids \cup {n} /\ (seqs'[n] = e \/ seqs'[n] = s)
    BY <2>1, <2>2, AddSequences DEF TypeOK
  <2>4. s.prompt_len = p /\ e.prompt_len = p
    BY DEF NewSequence, Emit
  <2>. HIDE DEF n, s, e
  <2>. QED BY <1>1, <2>2, <2>3, <2>4 DEF Prompted
<1>3. ASSUME ~ \E eos \in SUBSET Tokens : Submit(eos) PROVE Ids' = Ids
  BY <1>3, SameRequests
<1>. QED BY <1>1, <1>2, <1>3 DEF Prompted

\* What holds between the loop, its requests and the tensors.
QwenInv == LoopInv /\ CacheInv /\ Prompted /\ Tensor

\* Nothing is cached at first.
LEMMA QwenInvInit == QwenInit => QwenInv
<1> SUFFICES ASSUME QwenInit PROVE QwenInv
  OBVIOUS
<1>1. Init /\ kv = <<>> /\ cache = <<>> /\ seqs = <<>>
  BY DEF QwenInit, Init, InitScheduler, NoCache
<1>2. LoopInv
  BY <1>1, LoopInvInit
<1>3. CacheInv
  BY <1>1 DEF Init, NoCache, CacheInv, CacheFollowsMembers, CacheDescribesBatch
<1>4. Prompted
  BY <1>1 DEF Prompted, Ids
<1>5. Tensor
  <2>1. TensorIs(0)
    BY <1>1 DEF TensorIs
  <2>. QED BY <2>1 DEF Tensor
<1>. QED BY <1>2, <1>3, <1>4, <1>5 DEF QwenInv

\* A forward pass leaves the tensors that `cache` describes, and nothing else
\* touches either but to drop both.
LEMMA TensorNext ==
  ASSUME TypeOK, CacheInv, Prompted, Tensor, [QwenNext]_qwenVars
  PROVE  Tensor'
<1>1. CASE Execute
  <2>1. pc = "exec" /\ kv' = KvAfter /\ cache' = Forward
    BY <1>1 DEF Execute, ExecReturns, Tick
  <2>2. /\ DOMAIN Forward = DOMAIN batch
        /\ \A row \in DOMAIN batch :
             /\ Forward[row].id = batch[row]
             /\ Forward[row].held = SeqLen(seqs[batch[row]])
    BY <2>1, ForwardDescribes
  <2>3. kv' = [row \in DOMAIN batch |->
                 PaddedRow(batch[row], SeqLen(seqs[batch[row]]), Width)]
    BY <2>1, ForwardPass
  <2>4. kv' = [row \in DOMAIN Forward |->
                 PaddedRow(Forward[row].id, Forward[row].held, Width)]
    BY <2>2, <2>3
  <2>5. PICK w : w = Width
    OBVIOUS
  <2>6. CASE DOMAIN batch # {}
    <3>1. /\ w \in Nat /\ \A row \in DOMAIN Forward : Forward[row].held <= w
          /\ \E top \in DOMAIN Forward : Forward[top].held = w
      BY <2>2, <2>5, <2>6, BatchShape
    <3>2. TensorIs(w)'
      BY <2>1, <2>4, <2>5, <3>1 DEF TensorIs
    <3>. QED BY <3>1, <3>2 DEF Tensor
  <2>7. CASE DOMAIN batch = {}
    <3>1. DOMAIN Forward = {} /\ kv' = [row \in DOMAIN Forward |->
                                          PaddedRow(Forward[row].id, Forward[row].held, 0)]
      BY <2>2, <2>4, <2>7
    <3>2. TensorIs(0)'
      BY <2>1, <3>1 DEF TensorIs
    <3>. QED BY <3>2 DEF Tensor
  <2>. QED BY <2>6, <2>7
<1>2. CASE DropCache
  <2>1. cache' = <<>> /\ kv' = <<>>
    BY <1>2 DEF DropCache, Reset, NoCache
  <2>2. TensorIs(0)'
    BY <2>1 DEF TensorIs
  <2>. QED BY <2>2 DEF Tensor
<1>3. CASE UNCHANGED <<cache, kv>>
  BY <1>3 DEF Tensor, TensorIs
<1>. QED BY <1>1, <1>2, <1>3
         DEF QwenNext, Elsewhere, Submit, Cancel, Sleep, Wake, Dispatch, AwaitRaises,
             CancelledInSleep, loopVars, vars, qwenVars

\* Every step keeps all of it.
LEMMA QwenInvNext == QwenInv /\ [QwenNext]_qwenVars => QwenInv'
<1> SUFFICES ASSUME QwenInv, [QwenNext]_qwenVars PROVE QwenInv'
  OBVIOUS
<1>1. [AnyStep]_vars
  BY QwenStepIsStep
<1>2. LoopInv'
  BY <1>1, LoopInvNext DEF QwenInv
<1>3. CacheInv'
  BY <1>1, CacheNext DEF QwenInv, LoopInv
<1>4. Prompted'
  BY <1>1, PromptedNext DEF QwenInv, LoopInv
<1>5. Tensor'
  BY TensorNext DEF QwenInv, LoopInv
<1>. QED BY <1>2, <1>3, <1>4, <1>5 DEF QwenInv

\* Under every interleaving of arrivals, cancellations, ticks and failures.
THEOREM TensorsAreSound == QwenSpec => []QwenInv
  BY QwenInvInit, QwenInvNext, PTL DEF QwenSpec

-----------------------------------------------------------------------------
(* What it says of a forward pass *)

\* In every forward pass every row attends to its own tokens, all of them, in
\* order, at the positions 0, 1, 2, ..., and is sampled at its newest: for any
\* lengths, any batch and any history (_pad_and_stack and execute).
THEOREM RowsAttendToThemselves == QwenSpec => []AttendsToItself
<1>1. ASSUME QwenInv PROVE AttendsToItself
  <2> SUFFICES ASSUME pc = "exec", NEW row \in DOMAIN batch
               PROVE  LET s == batch[row]
                          n == SeqLen(seqs[s])
                      IN  /\ Len(KvAfter[row]) = Width
                          /\ Attended(row)
                               = [k \in 1 .. n |-> [token |-> [id |-> s, n |-> k], pos |-> k - 1]]
                          /\ KvAfter[row][Width].token = [id |-> s, n |-> n]
    BY DEF AttendsToItself
  <2>t. TypeOK /\ CacheInv /\ Prompted /\ Tensor
    BY <1>1 DEF QwenInv, LoopInv
  <2>1. PICK id \in Nat : id = batch[row]
    BY <2>t, BatchShape
  <2>2. PICK n \in Nat \ {0} : n = SeqLen(seqs[batch[row]])
    BY <2>t, BatchShape
  <2>3. PICK w \in Nat : w = Width /\ n <= w
    BY <2>t, <2>2, BatchShape
  <2>4. KvAfter[row] = PaddedRow(id, n, w)
    BY <2>t, <2>1, <2>2, <2>3, ForwardPass
  <2>5. /\ Len(KvAfter[row]) = w
        /\ RealColumns(KvAfter[row]) = (w - n + 1) .. w
        /\ Retain(KvAfter[row], RealColumns(KvAfter[row])) = OwnTokens(id, n)
        /\ KvAfter[row][w] = TokenColumn(id, n)
    <3>1. n <= w /\ n \in Nat /\ n > 0
      BY <2>3
    <3>2. PICK r : r = PaddedRow(id, n, w)
      OBVIOUS
    <3>3. /\ Len(r) = w /\ RealColumns(r) = (w - n + 1) .. w
          /\ Retain(r, RealColumns(r)) = OwnTokens(id, n) /\ r[w] = TokenColumn(id, n)
      BY <3>1, <3>2, PaddedRowContent
    <3>. QED BY <2>4, <3>2, <3>3
  <2>6. {c \in 1 .. w : AttentionMask(row)[c] = 1} = (w - n + 1) .. w
    <3>1. \A c \in 1 .. w : AttentionMask(row)[c] = 1 <=> c \in (w - n + 1) .. w
      BY <2>t, <2>2, <2>3, StackedColumns
    <3>2. (w - n + 1) .. w \subseteq 1 .. w
      BY <2>3
    <3>. QED BY <3>1, <3>2
  <2>7. Attended(row) = [k \in 1 .. n |-> [token |-> [id |-> id, n |-> k], pos |-> k - 1]]
    BY <2>3, <2>5, <2>6 DEF Attended, OwnTokens
  <2>8. KvAfter[row][w].token = [id |-> id, n |-> n]
    BY <2>5 DEF TokenColumn
  <2>. QED BY <2>1, <2>2, <2>3, <2>5, <2>7, <2>8
<1>. QED BY <1>1, TensorsAreSound, PTL

\* The tensors hold what `cache` says: the theorems about RunLoop's cache
\* (CacheIsRight) are theorems about QwenRunner's tensors.
THEOREM CacheIsRealized == QwenSpec => []CacheIsTheTensor
<1>1. ASSUME QwenInv PROVE CacheIsTheTensor
  <2>1. PICK w \in Nat : TensorIs(w)
    BY <1>1 DEF QwenInv, Tensor
  <2>2. cache \in Seq(CacheRow)
    BY <1>1 DEF QwenInv, LoopInv, TypeOK
  <2>3. DOMAIN kv = DOMAIN cache
    BY <2>1 DEF TensorIs
  <2>4. ASSUME NEW row \in DOMAIN cache
        PROVE  /\ Len(kv[row]) = w
               /\ Retain(kv[row], {c \in DOMAIN kv[row] : kv[row][c].token # PadToken})
                    = [k \in 1 .. cache[row].held |->
                         [token |-> [id |-> cache[row].id, n |-> k], pos |-> k - 1]]
    <3>1. cache[row] \in CacheRow
      BY <2>2
    <3>2. PICK id \in Nat, n \in Nat : id = cache[row].id /\ n = cache[row].held
      BY <3>1 DEF CacheRow
    <3>3. n <= w /\ kv[row] = PaddedRow(id, n, w)
      BY <2>1, <3>2 DEF TensorIs
    <3>4. /\ Len(kv[row]) = w
          /\ Retain(kv[row], RealColumns(kv[row])) = OwnTokens(id, n)
      BY <3>3, PaddedRowContent
    <3>. QED BY <3>2, <3>4 DEF RealColumns, OwnTokens
  <2>5. \A row \in DOMAIN cache : 1 \in DOMAIN cache
    BY <2>2
  <2>. QED BY <2>3, <2>4, <2>5 DEF CacheIsTheTensor
<1>. QED BY <1>1, TensorsAreSound, PTL
=============================================================================
