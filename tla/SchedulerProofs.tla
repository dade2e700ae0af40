--------------------------- MODULE SchedulerProofs ---------------------------
(***************************************************************************)
(* Lemmas about the operators of Scheduler, for every value of its         *)
(* constants: what Retain, the filter behind schedule's sweep and          *)
(* deque.remove, returns; what the methods of one Sequence return; that    *)
(* the scheduler's methods keep its types, and the order in its deques.    *)
(*                                                                         *)
(* Then what is true of every Sequence, its verdict, output, stream and    *)
(* budget together (Sound), and that every method keeps it; and what the   *)
(* methods do to the number of requests in flight and to the length of a   *)
(* Sequence; and what a sum over a deque is.                               *)
(***************************************************************************)
EXTENDS Scheduler, FiniteSetTheorems, SequenceTheorems, TLAPS

-----------------------------------------------------------------------------
(* Finite sets of positions *)

Rank(K, i) == Cardinality({j \in K : j <= i})

\* Ranks number the elements of K from 1 to its size, in increasing order.
LEMMA RankProperties ==
  ASSUME NEW m \in Nat, NEW K \in SUBSET (1 .. m)
  PROVE  /\ IsFiniteSet(K)
         /\ Cardinality(K) \in 0 .. m
         /\ \A i \in K : Rank(K, i) \in 1 .. Cardinality(K)
         /\ \A i, k \in K : i < k => Rank(K, i) < Rank(K, k)
<1> DEFINE c == Cardinality(K)
<1>1. IsFiniteSet(K) /\ c \in Nat /\ c <= m
  <2>1. IsFiniteSet(1 .. m) /\ Cardinality(1 .. m) = m
    BY FS_Interval
  <2>. QED BY <2>1, FS_Subset, FS_CardinalityType
<1>2. ASSUME NEW i \in K PROVE Rank(K, i) \in 1 .. c
  <2>. DEFINE L == {j \in K : j <= i}
  <2>1. L \in SUBSET K /\ i \in L
    OBVIOUS
  <2>2. IsFiniteSet(L) /\ Cardinality(L) <= c /\ Cardinality(L) \in Nat
    BY <1>1, <2>1, FS_Subset, FS_CardinalityType
  <2>3. Cardinality(L) # 0
    BY <2>1, <2>2, FS_EmptySet
  <2>. QED BY <1>1, <2>2, <2>3 DEF Rank
<1>3. ASSUME NEW i \in K, NEW k \in K, i < k PROVE Rank(K, i) < Rank(K, k)
  <2>. DEFINE L == {j \in K : j <= i}
              H == {j \in K : j <= k}
  <2>1. L \in SUBSET H /\ k \in H /\ k \notin L /\ H \in SUBSET K
    <3>1. i \in Int /\ k \in Int /\ \A j \in K : j \in Int
      OBVIOUS
    <3>2. \A j \in K : j <= i => j <= k
      BY <1>3, <3>1
    <3>3. k <= k /\ ~(k <= i)
      BY <1>3, <3>1
    <3>. QED BY <3>2, <3>3
  <2>2. IsFiniteSet(H)
    BY <1>1, <2>1, FS_Subset
  <2>3. Cardinality(L) <= Cardinality(H) /\ Cardinality(L) # Cardinality(H)
    BY <2>1, <2>2, FS_Subset
  <2>4. Cardinality(L) \in Nat /\ Cardinality(H) \in Nat
    BY <1>2 DEF Rank
  <2>. QED BY <2>3, <2>4 DEF Rank
<1>. QED BY <1>1, <1>2, <1>3

\* NthOf enumerates K, in increasing order.
LEMMA NthOfProperties ==
  ASSUME NEW m \in Nat, NEW K \in SUBSET (1 .. m)
  PROVE  /\ \A n \in 1 .. Cardinality(K) : NthOf(K, n) \in K
         /\ \A a, b \in 1 .. Cardinality(K) : a < b => NthOf(K, a) < NthOf(K, b)
         /\ \A i \in K : \E n \in 1 .. Cardinality(K) : NthOf(K, n) = i
         /\ \A i \in K : NthOf(K, Rank(K, i)) = i
         /\ \A n \in 1 .. Cardinality(K) : Rank(K, NthOf(K, n)) = n
<1> DEFINE c == Cardinality(K)
           f == [i \in K |-> Rank(K, i)]
<1>1. /\ IsFiniteSet(K) /\ c \in Nat
      /\ \A i \in K : Rank(K, i) \in 1 .. c
      /\ \A i, k \in K : i < k => Rank(K, i) < Rank(K, k)
  BY RankProperties
<1>2. \A i \in K : i \in Int
  OBVIOUS
<1>3. ASSUME NEW i \in K, NEW k \in K, Rank(K, i) = Rank(K, k) PROVE i = k
  <2>1. Rank(K, i) \in Int
    BY <1>1
  <2>. QED BY <1>1, <1>2, <1>3, <2>1
<1>4. f \in Injection(K, 1 .. c)
  BY <1>1, <1>3 DEF Injection, IsInjective
<1>5. f \in Surjection(K, 1 .. c)
  <2>1. IsFiniteSet(1 .. c) /\ Cardinality(1 .. c) = c
    BY <1>1, FS_Interval
  <2>. QED BY <1>4, <2>1, FS_Injection
<1>6. ASSUME NEW n \in 1 .. c PROVE \E i \in K : Rank(K, i) = n
  BY <1>5, <1>6 DEF Surjection
<1>7. ASSUME NEW n \in 1 .. c
      PROVE  NthOf(K, n) \in K /\ Rank(K, NthOf(K, n)) = n
  BY <1>6, <1>7 DEF NthOf, Rank
<1>8. ASSUME NEW a \in 1 .. c, NEW b \in 1 .. c, a < b
      PROVE  NthOf(K, a) < NthOf(K, b)
  <2>1. NthOf(K, a) \in K /\ NthOf(K, b) \in K
    BY <1>7
  <2>2. Rank(K, NthOf(K, a)) < Rank(K, NthOf(K, b))
    BY <1>7, <1>8
  <2>3. CASE NthOf(K, b) < NthOf(K, a)
    <3>1. Rank(K, NthOf(K, b)) < Rank(K, NthOf(K, a))
      BY <1>1, <2>1, <2>3
    <3>2. Rank(K, NthOf(K, b)) \in 1 .. c /\ Rank(K, NthOf(K, a)) \in 1 .. c
      BY <1>1, <2>1
    <3>. QED BY <2>2, <3>1, <3>2
  <2>4. CASE NthOf(K, b) = NthOf(K, a)
    <3>1. Rank(K, NthOf(K, b)) = b /\ Rank(K, NthOf(K, a)) = a
      BY <1>7
    <3>. QED BY <1>8, <2>4, <3>1
  <2>5. NthOf(K, a) \in Int /\ NthOf(K, b) \in Int
    BY <1>2, <2>1
  <2>. QED BY <2>3, <2>4, <2>5
<1>9. ASSUME NEW i \in K PROVE Rank(K, i) \in 1 .. c /\ NthOf(K, Rank(K, i)) = i
  <2>1. Rank(K, i) \in 1 .. c
    BY <1>1
  <2>2. Rank(K, NthOf(K, Rank(K, i))) = Rank(K, i) /\ NthOf(K, Rank(K, i)) \in K
    BY <1>7, <2>1
  <2>. QED BY <1>3, <2>1, <2>2
<1>. QED BY <1>7, <1>8, <1>9

\* A position above all of K is the last of K with it, and the others keep their
\* places.
LEMMA NthOfAbove ==
  ASSUME NEW m \in Nat, NEW K \in SUBSET (1 .. m)
  PROVE  LET L == K \cup {m + 1}
         IN  /\ Cardinality(L) = Cardinality(K) + 1
             /\ \A n \in 1 .. Cardinality(K) : NthOf(L, n) = NthOf(K, n)
             /\ NthOf(L, Cardinality(K) + 1) = m + 1
<1> DEFINE L == K \cup {m + 1}
<1>1. L \in SUBSET (1 .. (m + 1)) /\ m + 1 \in Nat /\ m + 1 \notin K
  OBVIOUS
<1>2. IsFiniteSet(K) /\ Cardinality(K) \in Nat
  BY RankProperties
<1>3. Cardinality(L) = Cardinality(K) + 1
  BY <1>1, <1>2, FS_AddElement
<1>4. \A i \in L : NthOf(L, Rank(L, i)) = i
  <2>. HIDE DEF L
  <2>. QED BY <1>1, NthOfProperties
<1>5. ASSUME NEW n \in 1 .. Cardinality(K)
      PROVE  NthOf(L, n) = NthOf(K, n)
  <2> DEFINE i == NthOf(K, n)
  <2>1. i \in K /\ Rank(K, i) = n
    BY NthOfProperties
  <2>. HIDE DEF i
  <2>2. {j \in L : j <= i} = {j \in K : j <= i}
    BY <2>1
  <2>3. Rank(L, i) = n
    BY <2>1, <2>2 DEF Rank
  <2>. QED BY <1>4, <2>1, <2>3 DEF i
<1>6. NthOf(L, Cardinality(K) + 1) = m + 1
  <2>0. \A j \in L : j <= m + 1
    OBVIOUS
  <2>1. {j \in L : j <= m + 1} = L
    BY <2>0
  <2>2. Rank(L, m + 1) = Cardinality(K) + 1
    BY <1>3, <2>1 DEF Rank
  <2>. QED BY <1>4, <2>2
<1>. QED BY <1>3, <1>5, <1>6

-----------------------------------------------------------------------------
(* Sequences *)

\* A function on 1 .. n is a sequence.
LEMMA SeqOfFunction ==
  ASSUME NEW S, NEW n \in Nat, NEW f \in [1 .. n -> S]
  PROVE  f \in Seq(S) /\ Len(f) = n /\ DOMAIN f = 1 .. n
  OBVIOUS

\* What Retain returns: the elements of q at the positions K, in q's order.
LEMMA RetainProperties ==
  ASSUME NEW S, NEW q \in Seq(S), NEW K \in SUBSET (DOMAIN q)
  PROVE  /\ Retain(q, K) \in Seq(S)
         /\ Len(Retain(q, K)) = Cardinality(K)
         /\ Cardinality(K) \in 0 .. Len(q)
         /\ \A n \in 1 .. Cardinality(K) :
              NthOf(K, n) \in K /\ Retain(q, K)[n] = q[NthOf(K, n)]
         /\ \A a, b \in 1 .. Cardinality(K) : a < b => NthOf(K, a) < NthOf(K, b)
         /\ Range(Retain(q, K)) = {q[i] : i \in K}
<1>1. Len(q) \in Nat /\ K \in SUBSET (1 .. Len(q)) /\ q \in [1 .. Len(q) -> S]
  OBVIOUS
<1>2. Cardinality(K) \in 0 .. Len(q)
  BY <1>1, RankProperties
<1>3. /\ \A n \in 1 .. Cardinality(K) : NthOf(K, n) \in K
      /\ \A a, b \in 1 .. Cardinality(K) : a < b => NthOf(K, a) < NthOf(K, b)
      /\ \A i \in K : \E n \in 1 .. Cardinality(K) : NthOf(K, n) = i
  BY <1>1, NthOfProperties
<1>4. Retain(q, K) \in [1 .. Cardinality(K) -> S]
  BY <1>1, <1>3 DEF Retain
<1>5. /\ Retain(q, K) \in Seq(S)
      /\ Len(Retain(q, K)) = Cardinality(K)
      /\ DOMAIN Retain(q, K) = 1 .. Cardinality(K)
  BY <1>2, <1>4, SeqOfFunction
<1>6. \A n \in 1 .. Cardinality(K) : Retain(q, K)[n] = q[NthOf(K, n)]
  BY DEF Retain
<1>7. Range(Retain(q, K)) = {q[i] : i \in K}
  BY <1>3, <1>5, <1>6 DEF Range
<1>. QED BY <1>2, <1>3, <1>5, <1>6, <1>7

\* Retain does not look at what is appended behind the positions it keeps, and
\* keeps what is appended if its position is one of them.
LEMMA RetainAppend ==
  ASSUME NEW S, NEW q \in Seq(S), NEW x \in S, NEW K \in SUBSET (DOMAIN q)
  PROVE  /\ Retain(Append(q, x), K) = Retain(q, K)
         /\ Retain(Append(q, x), K \cup {Len(q) + 1}) = Append(Retain(q, K), x)
<1> DEFINE m == Len(q)
           c == Cardinality(K)
           r == Append(q, x)
           L == K \cup {m + 1}
<1>1. m \in Nat /\ DOMAIN q = 1 .. m /\ K \in SUBSET (1 .. m)
  OBVIOUS
<1>2. /\ r \in Seq(S) /\ DOMAIN r = 1 .. (m + 1) /\ r[m + 1] = x
      /\ \A i \in 1 .. m : r[i] = q[i]
  OBVIOUS
<1>3. c \in Nat /\ \A n \in 1 .. c : NthOf(K, n) \in K
  <2>1. c \in Nat
    BY <1>1, RankProperties
  <2>. QED BY <1>1, <2>1, NthOfProperties
<1>4. \A n \in 1 .. c : r[NthOf(K, n)] = q[NthOf(K, n)]
  BY <1>1, <1>2, <1>3
<1>5. Retain(r, K) = Retain(q, K)
  BY <1>4 DEF Retain
<1>6. /\ Cardinality(L) = c + 1
      /\ \A n \in 1 .. c : NthOf(L, n) = NthOf(K, n)
      /\ NthOf(L, c + 1) = m + 1
  BY <1>1, NthOfAbove
<1>7. Retain(q, K) \in Seq(S) /\ Len(Retain(q, K)) = c
      /\ \A n \in 1 .. c : Retain(q, K)[n] = q[NthOf(K, n)]
  BY RetainProperties
<1> DEFINE old == Retain(q, K)
           new == Append(old, x)
<1>8. /\ new \in Seq(S) /\ DOMAIN new = 1 .. (c + 1) /\ new[c + 1] = x
      /\ \A n \in 1 .. c : new[n] = old[n]
  <2>. HIDE DEF old
  <2>. QED BY <1>7 DEF old
<1>9. \A n \in 1 .. (c + 1) : new[n] = r[NthOf(L, n)]
  <2>1. ASSUME NEW n \in 1 .. (c + 1) PROVE new[n] = r[NthOf(L, n)]
    <3>1. CASE n = c + 1
      BY <1>2, <1>6, <1>8, <3>1
    <3>2. CASE n \in 1 .. c
      BY <1>4, <1>6, <1>7, <1>8, <3>2
    <3>3. n = c + 1 \/ n \in 1 .. c
      <4>1. c \in Nat
        BY <1>3
      <4>. HIDE DEF c
      <4>. QED BY <4>1
    <3>. QED BY <3>1, <3>2, <3>3
  <2>. QED BY <2>1
<1>10. new = [n \in 1 .. (c + 1) |-> new[n]]
  <2>. HIDE DEF new
  <2>. QED BY <1>8
<1>11. Retain(r, L) = new
  <2>1. Retain(r, L) = [n \in 1 .. (c + 1) |-> r[NthOf(L, n)]]
    BY <1>6 DEF Retain
  <2>. HIDE DEF new
  <2>. QED BY <1>9, <1>10, <2>1
<1>. QED BY <1>5, <1>11

-----------------------------------------------------------------------------
(* One Sequence *)

Item == Tokens \cup {None}

\* The end-of-stream sentinel may be put in a queue.
LEMMA NoneIsItem == None \in Item
  BY DEF Item

\* Emitting puts one item in the queue and changes nothing else.
LEMMA EmitType ==
  ASSUME NEW s \in Sequence, NEW item \in Item
  PROVE  /\ Emit(s, item) \in Sequence
         /\ Emit(s, item) = [s EXCEPT !.queue = Append(s.queue, item)]
         /\ Emit(s, item).finish_reason = s.finish_reason
         /\ Emit(s, item).output_ids = s.output_ids
         /\ Emit(s, item).prompt_len = s.prompt_len
<1>1. s.queue \in Seq(Item)
  BY DEF Sequence, Item
<1>2. Append(s.queue, item) \in Seq(Item)
  BY <1>1
<1>3. Emit(s, item) = [s EXCEPT !.queue = Append(s.queue, item)]
  BY DEF Emit
<1>. QED BY <1>2, <1>3 DEF Sequence, Item

\* A verdict changes the verdict alone.
LEMMA WithReasonType ==
  ASSUME NEW s \in Sequence, NEW reason \in FinishReasons
  PROVE  LET t == [s EXCEPT !.finish_reason = reason]
         IN  /\ t \in Sequence
             /\ IsFinished(t)
             /\ t.output_ids = s.output_ids
             /\ t.prompt_len = s.prompt_len
  BY DEF Sequence, IsFinished, FinishReasons

\* postprocess: the token joins the output, and the verdict is the one computed.
LEMMA AppendTokenType ==
  ASSUME NEW s \in Sequence, NEW token \in Tokens
  PROVE  /\ AppendToken(s, token) \in Sequence
         /\ AppendToken(s, token).output_ids = Append(s.output_ids, token)
         /\ AppendToken(s, token).prompt_len = s.prompt_len
         /\ AppendToken(s, token).finish_reason = Verdict(s, token)
<1> DEFINE v == Verdict(s, token)
           grown == [s EXCEPT !.output_ids = Append(s.output_ids, token),
                              !.queue = Append(s.queue, token),
                              !.finish_reason = v]
<1>1. v \in FinishReasons \cup {""}
  BY DEF Verdict, Sequence, FinishReasons
<1>2. s.output_ids \in Seq(Tokens) /\ s.queue \in Seq(Item)
  BY DEF Sequence, Item
<1>3. Append(s.output_ids, token) \in Seq(Tokens)
  BY <1>2
<1>4. Append(s.queue, token) \in Seq(Item)
  BY <1>2 DEF Item
<1>5. /\ grown \in Sequence
      /\ grown.output_ids = Append(s.output_ids, token)
      /\ grown.prompt_len = s.prompt_len
      /\ grown.finish_reason = v
  <2>. HIDE DEF v
  <2>. QED BY <1>1, <1>3, <1>4 DEF Sequence, Item
<1>6. /\ Emit(grown, None) \in Sequence
      /\ Emit(grown, None).output_ids = grown.output_ids
      /\ Emit(grown, None).prompt_len = grown.prompt_len
      /\ Emit(grown, None).finish_reason = grown.finish_reason
  <2>. HIDE DEF grown
  <2>. QED BY <1>5, EmitType DEF Item
<1>7. AppendToken(s, token) = IF IsFinished(grown) THEN Emit(grown, None) ELSE grown
  BY DEF AppendToken
<1>. HIDE DEF grown
<1>. QED BY <1>5, <1>6, <1>7

\* abort: the sequence has a verdict, and its output is what it was.
LEMMA GiveUpType ==
  ASSUME NEW s \in Sequence, NEW reason \in FinishReasons
  PROVE  /\ GiveUp(s, reason) \in Sequence
         /\ IsFinished(GiveUp(s, reason))
         /\ GiveUp(s, reason).output_ids = s.output_ids
         /\ GiveUp(s, reason).prompt_len = s.prompt_len
<1> DEFINE t == [s EXCEPT !.finish_reason = reason]
<1>1. t \in Sequence /\ IsFinished(t) /\ t.output_ids = s.output_ids /\ t.prompt_len = s.prompt_len
  BY WithReasonType
<1>2. GiveUp(s, reason) = IF IsFinished(s) THEN s ELSE Emit(t, None)
  BY DEF GiveUp
<1>. HIDE DEF t
<1>3. /\ Emit(t, None) \in Sequence
      /\ Emit(t, None).finish_reason = t.finish_reason
      /\ Emit(t, None).output_ids = t.output_ids
      /\ Emit(t, None).prompt_len = t.prompt_len
  BY <1>1, NoneIsItem, EmitType
<1>4. IsFinished(Emit(t, None))
  BY <1>1, <1>3 DEF IsFinished
<1>. QED BY <1>1, <1>2, <1>3, <1>4

\* fail_all: the sequence has a verdict, and its output is what it was.
LEMMA FailType ==
  ASSUME NEW s \in Sequence
  PROVE  /\ Fail(s) \in Sequence
         /\ IsFinished(Fail(s))
         /\ Fail(s).output_ids = s.output_ids
         /\ Fail(s).prompt_len = s.prompt_len
<1> DEFINE t == IF IsFinished(s) THEN s ELSE [s EXCEPT !.finish_reason = "error"]
<1>1. t \in Sequence /\ IsFinished(t) /\ t.output_ids = s.output_ids /\ t.prompt_len = s.prompt_len
  BY WithReasonType DEF FinishReasons
<1>2. Fail(s) = Emit(t, None)
  BY DEF Fail
<1>. HIDE DEF t
<1>3. /\ Emit(t, None) \in Sequence
      /\ Emit(t, None).finish_reason = t.finish_reason
      /\ Emit(t, None).output_ids = t.output_ids
      /\ Emit(t, None).prompt_len = t.prompt_len
  BY <1>1, NoneIsItem, EmitType
<1>4. IsFinished(Emit(t, None))
  BY <1>1, <1>3 DEF IsFinished
<1>. QED BY <1>1, <1>2, <1>3, <1>4

\* prompt_to_sequence, and the sequence add answers without any work.
LEMMA NewSequenceType ==
  ASSUME NEW p \in Nat, NEW m \in Nat, NEW eos \in SUBSET Tokens
  PROVE  /\ NewSequence(p, m, eos) \in Sequence
         /\ Emit([NewSequence(p, m, eos) EXCEPT !.finish_reason = "length"], None) \in Sequence
<1>1. NewSequence(p, m, eos) \in Sequence
  BY DEF NewSequence, Sequence
<1>2. [NewSequence(p, m, eos) EXCEPT !.finish_reason = "length"] \in Sequence
  BY <1>1, WithReasonType DEF FinishReasons
<1>. QED BY <1>1, <1>2, NoneIsItem, EmitType

\* A sequence has a length.
LEMMA SeqLenType ==
  ASSUME NEW s \in Sequence
  PROVE  SeqLen(s) \in Nat
<1>1. s.prompt_len \in Nat /\ s.output_ids \in Seq(Tokens)
  BY DEF Sequence
<1>2. Len(s.output_ids) \in Nat
  BY <1>1
<1>. QED BY <1>1, <1>2 DEF SeqLen

-----------------------------------------------------------------------------
(* The scheduler's methods keep the scheduler's types *)

\* What the type invariant says of one id.
LEMMA IdsProperties ==
  ASSUME SchedulerTypeOK
  PROVE  /\ Len(seqs) \in Nat
         /\ Ids = 1 .. Len(seqs)
         /\ \A id \in Ids : seqs[id] \in Sequence
  BY DEF SchedulerTypeOK, Ids

\* Replacing seqs by another family over the same ids keeps the types.
LEMMA SameIds ==
  ASSUME SchedulerTypeOK, NEW f \in [Ids -> Sequence], seqs' = f
  PROVE  /\ seqs' \in Seq(Sequence)
         /\ Ids' = Ids
<1>1. Len(seqs) \in Nat /\ Ids = 1 .. Len(seqs)
  BY IdsProperties
<1>2. f \in Seq(Sequence) /\ DOMAIN f = 1 .. Len(seqs)
  BY <1>1, SeqOfFunction
<1>. QED BY <1>1, <1>2 DEF Ids

\* add: one more sequence, the ids already given stay.
LEMMA AddType ==
  ASSUME SchedulerTypeOK, NEW p \in Nat, NEW m \in Nat, NEW eos \in SUBSET Tokens,
         Add(p, m, eos)
  PROVE  SchedulerTypeOK' /\ Ids \subseteq Ids'
<1> DEFINE s == NewSequence(p, m, eos)
           e == Emit([s EXCEPT !.finish_reason = "length"], None)
           n == Len(seqs) + 1
<1>1. s \in Sequence /\ e \in Sequence
  BY NewSequenceType
<1>2. Len(seqs) \in Nat /\ Ids = 1 .. Len(seqs)
  BY IdsProperties
<1>3. seqs \in Seq(Sequence) /\ waiting \in Seq(Ids) /\ running \in Seq(Ids)
  BY DEF SchedulerTypeOK
<1>4. \/ seqs' = Append(seqs, e) /\ waiting' = waiting /\ running' = running
      \/ seqs' = Append(seqs, s) /\ waiting' = Append(waiting, n) /\ running' = running
  BY DEF Add
<1>5. \E t \in Sequence : seqs' = Append(seqs, t)
  BY <1>1, <1>4
<1>6. seqs' \in Seq(Sequence) /\ DOMAIN seqs' = 1 .. n
  <2>1. PICK t \in Sequence : seqs' = Append(seqs, t)
    BY <1>5
  <2>2. Append(seqs, t) \in Seq(Sequence) /\ Len(Append(seqs, t)) = n
    BY <1>3
  <2>. QED BY <2>1, <2>2
<1>7. Ids \subseteq Ids' /\ n \in Ids'
  BY <1>2, <1>6 DEF Ids
<1>8. running' \in Seq(Ids') /\ waiting \in Seq(Ids')
  BY <1>3, <1>4, <1>7, SeqMonotonic
<1>9. waiting' \in Seq(Ids')
  <2>1. Append(waiting, n) \in Seq(Ids')
    BY <1>7, <1>8
  <2>. QED BY <1>4, <1>8, <2>1
<1>. QED BY <1>6, <1>7, <1>8, <1>9 DEF SchedulerTypeOK

\* schedule's sweep returns a subsequence of running, of unfinished rows.
LEMMA UnfinishedProperties ==
  ASSUME SchedulerTypeOK
  PROVE  /\ Unfinished(running) \in Seq(Ids)
         /\ Len(Unfinished(running)) \in 0 .. Len(running)
         /\ \A r \in DOMAIN Unfinished(running) :
              ~IsFinished(seqs[Unfinished(running)[r]])
<1> DEFINE K == {p \in DOMAIN running : ~IsFinished(seqs[running[p]])}
<1>1. running \in Seq(Ids) /\ K \in SUBSET (DOMAIN running)
  BY DEF SchedulerTypeOK
<1>2. /\ Retain(running, K) \in Seq(Ids)
      /\ Len(Retain(running, K)) = Cardinality(K)
      /\ Cardinality(K) \in 0 .. Len(running)
      /\ \A n \in 1 .. Cardinality(K) :
           NthOf(K, n) \in K /\ Retain(running, K)[n] = running[NthOf(K, n)]
  <2>. HIDE DEF K
  <2>. QED BY <1>1, RetainProperties
<1>3. Unfinished(running) = Retain(running, K)
  BY DEF Unfinished
<1>4. DOMAIN Retain(running, K) = 1 .. Cardinality(K)
  BY <1>2
<1>5. ASSUME NEW r \in 1 .. Cardinality(K)
      PROVE  ~IsFinished(seqs[Retain(running, K)[r]])
  BY <1>2
<1>. HIDE DEF K
<1>. QED BY <1>2, <1>3, <1>4, <1>5

\* A prefix and the rest of a sequence.
LEMMA SplitProperties ==
  ASSUME NEW S, NEW q \in Seq(S), NEW k \in 0 .. Len(q)
  PROVE  /\ SubSeq(q, 1, k) \in Seq(S)
         /\ Len(SubSeq(q, 1, k)) = k
         /\ \A i \in 1 .. k : SubSeq(q, 1, k)[i] = q[i]
         /\ SubSeq(q, k + 1, Len(q)) \in Seq(S)
         /\ Len(SubSeq(q, k + 1, Len(q))) = Len(q) - k
         /\ \A i \in 1 .. Len(q) - k : SubSeq(q, k + 1, Len(q))[i] = q[k + i]
  OBVIOUS

\* The prefix and the rest make up the sequence again.
LEMMA SplitConcat ==
  ASSUME NEW S, NEW q \in Seq(S), NEW k \in 0 .. Len(q)
  PROVE  SubSeq(q, 1, k) \o SubSeq(q, k + 1, Len(q)) = q
<1>1. Len(q) \in Nat /\ 1 \in 1 .. Len(q) + 1 /\ Len(q) \in k .. Len(q) /\ 1 - 1 = 0
  OBVIOUS
<1>2. k \in 1 - 1 .. Len(q)
  BY <1>1
<1>3. SubSeq(q, 1, k) \o SubSeq(q, k + 1, Len(q)) = SubSeq(q, 1, Len(q))
  BY <1>1, <1>2, ConcatAdjacentSubSeq
<1>. QED BY <1>3, SubSeqFull

\* schedule, with the types of everything it computes.
LEMMA ScheduleProperties ==
  ASSUME SchedulerTypeOK, Schedule
  PROVE  \E k \in 0 .. Len(waiting), kept \in Seq(Ids) :
           /\ kept = Unfinished(running)
           /\ Len(kept) \in 0 .. Len(running)
           /\ \A j \in 1 .. k : Fits(kept, j)
           /\ running' = kept \o SubSeq(waiting, 1, k)
           /\ waiting' = SubSeq(waiting, k + 1, Len(waiting))
           /\ seqs' = seqs
           /\ running' \in Seq(Ids)
           /\ waiting' \in Seq(Ids)
           /\ Len(running') = Len(kept) + k
<1> DEFINE kept == Unfinished(running)
<1>1. kept \in Seq(Ids) /\ Len(kept) \in 0 .. Len(running)
  BY UnfinishedProperties
<1>2. waiting \in Seq(Ids)
  BY DEF SchedulerTypeOK
<1>3. PICK k \in 0 .. Len(waiting) :
        /\ \A j \in 1 .. k : Fits(kept, j)
        /\ running' = kept \o SubSeq(waiting, 1, k)
        /\ waiting' = SubSeq(waiting, k + 1, Len(waiting))
        /\ seqs' = seqs
  BY DEF Schedule
<1>4. /\ SubSeq(waiting, 1, k) \in Seq(Ids)
      /\ Len(SubSeq(waiting, 1, k)) = k
      /\ waiting' \in Seq(Ids)
  BY <1>2, <1>3, SplitProperties
<1>. HIDE DEF kept
<1>5. running' \in Seq(Ids) /\ Len(running') = Len(kept) + k
  BY <1>1, <1>3, <1>4
<1>. QED BY <1>1, <1>3, <1>4, <1>5 DEF kept

\* deque.remove: a subsequence without the id.
LEMMA WithoutProperties ==
  ASSUME NEW S, NEW q \in Seq(S), NEW id
  PROVE  /\ Without(q, id) \in Seq(S)
         /\ Range(Without(q, id)) = Range(q) \ {id}
<1> DEFINE K == {p \in DOMAIN q : q[p] # id}
<1>1. /\ Retain(q, K) \in Seq(S)
      /\ Range(Retain(q, K)) = {q[i] : i \in K}
  <2>1. K \in SUBSET (DOMAIN q)
    OBVIOUS
  <2>. HIDE DEF K
  <2>. QED BY <2>1, RetainProperties
<1>2. Without(q, id) = Retain(q, K)
  BY DEF Without
<1>3. {q[i] : i \in K} = Range(q) \ {id}
  BY DEF Range
<1>. QED BY <1>1, <1>2, <1>3

\* abort, with the types of what it leaves.
LEMMA AbortType ==
  ASSUME SchedulerTypeOK, NEW id \in Ids, Abort(id, "cancelled")
  PROVE  SchedulerTypeOK' /\ Ids' = Ids
<1> DEFINE f == [seqs EXCEPT ![id] = GiveUp(seqs[id], "cancelled")]
<1>1. /\ waiting \in Seq(Ids) /\ running \in Seq(Ids)
      /\ seqs \in [Ids -> Sequence]
  BY IdsProperties DEF SchedulerTypeOK, Ids
<1>2. GiveUp(seqs[id], "cancelled") \in Sequence
  BY <1>1, GiveUpType DEF FinishReasons
<1>3. f \in [Ids -> Sequence]
  BY <1>1, <1>2
<1>4. seqs' = f /\ running' = running
      /\ (waiting' = waiting \/ waiting' = Without(waiting, id))
  BY DEF Abort
<1>5. seqs' \in Seq(Sequence) /\ Ids' = Ids
  <2>. HIDE DEF f
  <2>. QED BY <1>3, <1>4, SameIds
<1>6. waiting' \in Seq(Ids)
  BY <1>1, <1>4, WithoutProperties
<1>. QED BY <1>1, <1>4, <1>5, <1>6 DEF SchedulerTypeOK

\* What one id's sequence becomes when a tick's results are recorded.
Recorded(id, q, next_ids) ==
  IF \E row \in DOMAIN q : q[row] = id
  THEN LET row == CHOOSE r \in DOMAIN q : q[r] = id
       IN  IF next_ids[row] = None
           THEN GiveUp(seqs[id], "error")
           ELSE AppendToken(seqs[id], next_ids[row])
  ELSE seqs[id]

\* abort for the failed rows, postprocess for the others: a row's sequence is
\* given up or grows by its token, every other sequence stays.
LEMMA RecordedProperties ==
  ASSUME SchedulerTypeOK, NEW id \in Ids, NEW q,
         NEW next_ids \in [DOMAIN q -> Tokens \cup {None}]
  PROVE  /\ Recorded(id, q, next_ids) \in Sequence
         /\ Recorded(id, q, next_ids).prompt_len = seqs[id].prompt_len
         /\ (~ \E row \in DOMAIN q : q[row] = id)
              => Recorded(id, q, next_ids) = seqs[id]
         /\ (\E row \in DOMAIN q : q[row] = id) =>
              \/ IsFinished(Recorded(id, q, next_ids))
              \/ \E token \in Tokens :
                   Recorded(id, q, next_ids).output_ids
                     = Append(seqs[id].output_ids, token)
<1>1. seqs[id] \in Sequence
  BY IdsProperties
<1>2. CASE ~ \E row \in DOMAIN q : q[row] = id
  BY <1>1, <1>2 DEF Recorded
<1>3. CASE \E row \in DOMAIN q : q[row] = id
  <2> DEFINE row == CHOOSE r \in DOMAIN q : q[r] = id
  <2>1. row \in DOMAIN q
    BY <1>3
  <2>2. next_ids[row] \in Tokens \/ next_ids[row] = None
    BY <2>1
  <2>3. CASE next_ids[row] = None
    <3>1. Recorded(id, q, next_ids) = GiveUp(seqs[id], "error")
      BY <1>3, <2>3 DEF Recorded
    <3>2. "error" \in FinishReasons
      BY DEF FinishReasons
    <3>3. /\ GiveUp(seqs[id], "error") \in Sequence
          /\ IsFinished(GiveUp(seqs[id], "error"))
          /\ GiveUp(seqs[id], "error").prompt_len = seqs[id].prompt_len
      BY <1>1, <3>2, GiveUpType
    <3>. QED BY <1>3, <3>1, <3>3
  <2>4. CASE next_ids[row] \in Tokens /\ next_ids[row] # None
    <3>1. Recorded(id, q, next_ids) = AppendToken(seqs[id], next_ids[row])
      BY <1>3, <2>4 DEF Recorded
    <3>2. /\ AppendToken(seqs[id], next_ids[row]) \in Sequence
          /\ AppendToken(seqs[id], next_ids[row]).output_ids
               = Append(seqs[id].output_ids, next_ids[row])
          /\ AppendToken(seqs[id], next_ids[row]).prompt_len = seqs[id].prompt_len
      BY <1>1, <2>4, AppendTokenType
    <3>. QED BY <1>3, <2>4, <3>1, <3>2
  <2>. QED BY <2>2, <2>3, <2>4
<1>. QED BY <1>2, <1>3

\* Recording a tick's results keeps the types.
LEMMA RecordType ==
  ASSUME SchedulerTypeOK, NEW q, NEW next_ids \in [DOMAIN q -> Tokens \cup {None}],
         Record(q, next_ids)
  PROVE  /\ SchedulerTypeOK'
         /\ Ids' = Ids
         /\ \A id \in Ids : seqs'[id] = Recorded(id, q, next_ids)
         /\ waiting' = waiting /\ running' = running
<1> DEFINE f == [id \in Ids |-> Recorded(id, q, next_ids)]
<1>1. \A id \in Ids : Recorded(id, q, next_ids) \in Sequence
  BY RecordedProperties
<1>2. f \in [Ids -> Sequence] /\ \A id \in Ids : f[id] = Recorded(id, q, next_ids)
  BY <1>1
<1>3. seqs' = f /\ waiting' = waiting /\ running' = running
  BY DEF Record, Recorded
<1>4. seqs' \in Seq(Sequence) /\ Ids' = Ids
  <2>. HIDE DEF f
  <2>. QED BY <1>2, <1>3, SameIds
<1>5. waiting \in Seq(Ids) /\ running \in Seq(Ids)
  BY DEF SchedulerTypeOK
<1>. QED BY <1>2, <1>3, <1>4, <1>5 DEF SchedulerTypeOK

\* fail_all keeps the types, and ends every request in flight.
LEMMA FailAllType ==
  ASSUME SchedulerTypeOK, FailAll
  PROVE  SchedulerTypeOK' /\ Ids' = Ids
<1> DEFINE f == [id \in Ids |-> IF id \in InFlight THEN Fail(seqs[id]) ELSE seqs[id]]
<1>1. \A id \in Ids : seqs[id] \in Sequence /\ Fail(seqs[id]) \in Sequence
  BY IdsProperties, FailType
<1>2. f \in [Ids -> Sequence]
  BY <1>1
<1>3. seqs' = f /\ waiting' = <<>> /\ running' = <<>>
  BY DEF FailAll
<1>4. seqs' \in Seq(Sequence) /\ Ids' = Ids
  <2>. HIDE DEF f
  <2>. QED BY <1>2, <1>3, SameIds
<1>. QED BY <1>3, <1>4 DEF SchedulerTypeOK
-----------------------------------------------------------------------------
(* Order in the deques *)

\* The filter keeps an increasing sequence increasing.
LEMMA RetainIncreasing ==
  ASSUME NEW q \in Seq(Nat), Increasing(q), NEW K \in SUBSET (DOMAIN q)
  PROVE  Increasing(Retain(q, K))
<1> DEFINE r == Retain(q, K)
           c == Cardinality(K)
<1>1. /\ r \in Seq(Nat) /\ Len(r) = c /\ c \in Nat
      /\ \A n \in 1 .. c : NthOf(K, n) \in K /\ r[n] = q[NthOf(K, n)]
      /\ \A a, b \in 1 .. c : a < b => NthOf(K, a) < NthOf(K, b)
  BY RetainProperties
<1>2. DOMAIN r = 1 .. c
  BY <1>1
<1>3. ASSUME NEW a \in 1 .. c, NEW b \in 1 .. c, a < b
      PROVE  r[a] < r[b]
  <2>1. NthOf(K, a) \in DOMAIN q /\ NthOf(K, b) \in DOMAIN q
    BY <1>1
  <2>2. NthOf(K, a) < NthOf(K, b)
    BY <1>1, <1>3
  <2>3. q[NthOf(K, a)] < q[NthOf(K, b)]
    BY <2>1, <2>2 DEF Increasing
  <2>. QED BY <1>1, <2>3
<1>. HIDE DEF r, c
<1>. QED BY <1>2, <1>3 DEF Increasing, r

\* Reading one sequence after another goes up iff each does and every element
\* of the first is below every element of the second.
LEMMA ConcatIncreasing ==
  ASSUME NEW q \in Seq(Nat), NEW r \in Seq(Nat)
  PROVE  Increasing(q \o r) <=>
           /\ Increasing(q)
           /\ Increasing(r)
           /\ \A i \in DOMAIN q, j \in DOMAIN r : q[i] < r[j]
<1> DEFINE m == Len(q)
           n == Len(r)
           w == q \o r
<1>1. /\ m \in Nat /\ n \in Nat
      /\ DOMAIN q = 1 .. m /\ DOMAIN r = 1 .. n /\ DOMAIN w = 1 .. m + n
      /\ \A i \in 1 .. m : w[i] = q[i]
      /\ \A j \in 1 .. n : w[m + j] = r[j]
  OBVIOUS
<1>2. ASSUME Increasing(w)
      PROVE  /\ Increasing(q)
             /\ Increasing(r)
             /\ \A i \in DOMAIN q, j \in DOMAIN r : q[i] < r[j]
  <2>. HIDE DEF w, m, n
  <2>1. \A i, j \in 1 .. m + n : i < j => w[i] < w[j]
    BY <1>1, <1>2 DEF Increasing
  <2>2. ASSUME NEW i \in 1 .. m, NEW j \in 1 .. m, i < j PROVE q[i] < q[j]
    <3>1. i \in 1 .. m + n /\ j \in 1 .. m + n
      BY <1>1
    <3>. QED BY <1>1, <2>1, <2>2, <3>1
  <2>3. ASSUME NEW i \in 1 .. n, NEW j \in 1 .. n, i < j PROVE r[i] < r[j]
    <3>1. m + i \in 1 .. m + n /\ m + j \in 1 .. m + n /\ m + i < m + j
      BY <1>1, <2>3
    <3>2. w[m + i] = r[i] /\ w[m + j] = r[j]
      BY <1>1
    <3>. QED BY <2>1, <3>1, <3>2
  <2>4. ASSUME NEW i \in 1 .. m, NEW j \in 1 .. n PROVE q[i] < r[j]
    <3>1. i \in 1 .. m + n /\ m + j \in 1 .. m + n /\ i < m + j
      BY <1>1
    <3>2. w[i] = q[i] /\ w[m + j] = r[j]
      BY <1>1
    <3>. QED BY <2>1, <3>1, <3>2
  <2>. QED BY <1>1, <2>2, <2>3, <2>4 DEF Increasing
<1>3. ASSUME Increasing(q), Increasing(r),
             \A i \in DOMAIN q, j \in DOMAIN r : q[i] < r[j]
      PROVE  Increasing(w)
  <2>. HIDE DEF w, m, n
  <2>1. ASSUME NEW i \in 1 .. m + n, NEW j \in 1 .. m + n, i < j
        PROVE  w[i] < w[j]
    <3>1. CASE j <= m
      <4>1. i \in 1 .. m /\ j \in 1 .. m
        BY <1>1, <2>1, <3>1
      <4>. QED BY <1>1, <1>3, <2>1, <4>1 DEF Increasing
    <3>2. CASE i <= m /\ m < j
      <4>1. i \in 1 .. m /\ j - m \in 1 .. n /\ m + (j - m) = j
        BY <1>1, <3>2
      <4>2. w[i] = q[i] /\ w[j] = r[j - m]
        BY <1>1, <4>1
      <4>. QED BY <1>1, <1>3, <4>1, <4>2
    <3>3. CASE m < i
      <4>1. i - m \in 1 .. n /\ j - m \in 1 .. n /\ i - m < j - m
            /\ m + (i - m) = i /\ m + (j - m) = j
        BY <1>1, <2>1, <3>3
      <4>2. w[i] = r[i - m] /\ w[j] = r[j - m]
        BY <1>1, <4>1
      <4>. QED BY <1>1, <1>3, <4>1, <4>2 DEF Increasing
    <3>. QED BY <1>1, <2>1, <3>1, <3>2, <3>3
  <2>. QED BY <1>1, <2>1 DEF Increasing
<1>. QED BY <1>2, <1>3

\* What order says when the types hold.
LEMMA InOrderProperties ==
  ASSUME SchedulerTypeOK
  PROVE  /\ running \in Seq(Nat) /\ waiting \in Seq(Nat)
         /\ FirstComeFirstServed <=>
              /\ Increasing(running)
              /\ Increasing(waiting)
              /\ \A i \in DOMAIN running, j \in DOMAIN waiting : running[i] < waiting[j]
<1>1. running \in Seq(Ids) /\ waiting \in Seq(Ids) /\ Ids \subseteq Nat
  BY IdsProperties DEF SchedulerTypeOK
<1>2. running \in Seq(Nat) /\ waiting \in Seq(Nat)
  BY <1>1, SeqMonotonic
<1>. QED BY <1>2, ConcatIncreasing DEF FirstComeFirstServed

\* A request is in at most one of the deques.
LEMMA Disjoint ==
  ASSUME SchedulerTypeOK, FirstComeFirstServed, NEW id \in Range(waiting)
  PROVE  id \notin Range(running)
<1>1. \A i \in DOMAIN running, j \in DOMAIN waiting : running[i] < waiting[j]
  BY InOrderProperties
<1>2. running \in Seq(Nat) /\ waiting \in Seq(Nat)
  BY InOrderProperties
<1>3. \A i \in DOMAIN running : running[i] \in Nat
  BY <1>2
<1>. QED BY <1>1, <1>3 DEF Range

\* A new arrival goes behind everybody.
LEMMA AddInOrder ==
  ASSUME SchedulerTypeOK, FirstComeFirstServed, NEW p \in Nat, NEW m \in Nat,
         NEW eos \in SUBSET Tokens, Add(p, m, eos)
  PROVE  FirstComeFirstServed'
<1> DEFINE n == Len(seqs) + 1
           w == running \o waiting
<1>1. running \in Seq(Ids) /\ waiting \in Seq(Ids) /\ Ids = 1 .. Len(seqs) /\ Len(seqs) \in Nat
  BY IdsProperties DEF SchedulerTypeOK
<1>2. CASE waiting' = waiting /\ running' = running
  BY <1>2 DEF FirstComeFirstServed
<1>3. CASE waiting' = Append(waiting, n) /\ running' = running
  <2>1. running' \o waiting' = Append(w, n)
    BY <1>1, <1>3
  <2>2. w \in Seq(Ids)
    BY <1>1
  <2>3. \A i \in DOMAIN w : w[i] < n
    <3>1. \A i \in DOMAIN w : w[i] \in Ids
      BY <2>2
    <3>2. \A id \in Ids : id < n
      BY <1>1
    <3>. HIDE DEF w, n
    <3>. QED BY <3>1, <3>2
  <2>4. Increasing(w)
    BY DEF FirstComeFirstServed
  <2>5. Increasing(Append(w, n))
    <3>. HIDE DEF w, n
    <3>. QED BY <2>2, <2>3, <2>4 DEF Increasing
  <2>. QED BY <2>1, <2>5 DEF FirstComeFirstServed
<1>. QED BY <1>2, <1>3 DEF Add

\* schedule's sweep keeps the order of running.
LEMMA UnfinishedInOrder ==
  ASSUME SchedulerTypeOK, Increasing(running)
  PROVE  /\ Increasing(Unfinished(running))
         /\ \A r \in DOMAIN Unfinished(running) :
              \E p \in DOMAIN running : Unfinished(running)[r] = running[p]
<1> DEFINE K == {p \in DOMAIN running : ~IsFinished(seqs[running[p]])}
<1>1. running \in Seq(Nat) /\ K \in SUBSET (DOMAIN running)
  BY InOrderProperties
<1>2. Unfinished(running) = Retain(running, K)
  BY DEF Unfinished
<1>. HIDE DEF K
<1>3. /\ Increasing(Retain(running, K))
      /\ DOMAIN Retain(running, K) = 1 .. Cardinality(K)
      /\ \A n \in 1 .. Cardinality(K) :
           NthOf(K, n) \in K /\ Retain(running, K)[n] = running[NthOf(K, n)]
  <2>1. Retain(running, K) \in Seq(Nat) /\ Len(Retain(running, K)) = Cardinality(K)
    BY <1>1, RetainProperties
  <2>. QED BY <1>1, <2>1, RetainProperties, RetainIncreasing
<1>. QED BY <1>1, <1>2, <1>3

\* Moving a prefix of waiting behind running keeps everybody's place.
LEMMA ScheduleInOrder ==
  ASSUME SchedulerTypeOK, FirstComeFirstServed, Schedule
  PROVE  FirstComeFirstServed'
<1>1. PICK k \in 0 .. Len(waiting), kept \in Seq(Ids) :
        /\ kept = Unfinished(running)
        /\ running' = kept \o SubSeq(waiting, 1, k)
        /\ waiting' = SubSeq(waiting, k + 1, Len(waiting))
  BY ScheduleProperties
<1>2. /\ running \in Seq(Nat) /\ waiting \in Seq(Nat)
      /\ Increasing(running)
      /\ Increasing(waiting)
      /\ \A i \in DOMAIN running, j \in DOMAIN waiting : running[i] < waiting[j]
  BY InOrderProperties
<1>3. kept \in Seq(Nat)
  BY IdsProperties, SeqMonotonic
<1>4. Increasing(kept) /\ \A r \in DOMAIN kept : \E p \in DOMAIN running : kept[r] = running[p]
  BY <1>1, <1>2, UnfinishedInOrder
<1>5. \A i \in DOMAIN kept, j \in DOMAIN waiting : kept[i] < waiting[j]
  BY <1>2, <1>4
<1>6. Increasing(kept \o waiting)
  BY <1>2, <1>3, <1>4, <1>5, ConcatIncreasing
<1>7. running' \o waiting' = kept \o waiting
  <2> DEFINE a == SubSeq(waiting, 1, k)
             b == SubSeq(waiting, k + 1, Len(waiting))
  <2>1. a \o b = waiting
    BY <1>2, SplitConcat
  <2>2. a \in Seq(Nat) /\ b \in Seq(Nat)
    BY <1>2, SplitProperties
  <2>3. running' = kept \o a /\ waiting' = b
    BY <1>1
  <2>. HIDE DEF a, b
  <2>4. (kept \o a) \o b = kept \o (a \o b)
    BY <1>3, <2>2
  <2>. QED BY <2>1, <2>3, <2>4
<1>. QED BY <1>6, <1>7 DEF FirstComeFirstServed

\* abort takes at most one id out of waiting.
LEMMA AbortInOrder ==
  ASSUME SchedulerTypeOK, FirstComeFirstServed, NEW id \in Ids, NEW reason, Abort(id, reason)
  PROVE  FirstComeFirstServed'
<1> DEFINE K == {p \in DOMAIN waiting : waiting[p] # id}
<1>1. /\ running \in Seq(Nat) /\ waiting \in Seq(Nat)
      /\ Increasing(running)
      /\ Increasing(waiting)
      /\ \A i \in DOMAIN running, j \in DOMAIN waiting : running[i] < waiting[j]
  BY InOrderProperties
<1>2. CASE waiting' = waiting /\ running' = running
  BY <1>2 DEF FirstComeFirstServed
<1>3. CASE waiting' = Without(waiting, id) /\ running' = running
  <2>1. waiting' = Retain(waiting, K) /\ K \in SUBSET (DOMAIN waiting)
    BY <1>3 DEF Without
  <2>. HIDE DEF K
  <2>2. /\ Retain(waiting, K) \in Seq(Nat)
        /\ DOMAIN Retain(waiting, K) = 1 .. Cardinality(K)
        /\ \A n \in 1 .. Cardinality(K) :
             NthOf(K, n) \in K /\ Retain(waiting, K)[n] = waiting[NthOf(K, n)]
    <3>1. /\ Retain(waiting, K) \in Seq(Nat) /\ Len(Retain(waiting, K)) = Cardinality(K)
          /\ \A n \in 1 .. Cardinality(K) :
               NthOf(K, n) \in K /\ Retain(waiting, K)[n] = waiting[NthOf(K, n)]
      BY <1>1, <2>1, RetainProperties
    <3>. QED BY <3>1
  <2>3. \A i \in DOMAIN running, j \in DOMAIN waiting' : running[i] < waiting'[j]
    BY <1>1, <2>1, <2>2
  <2>4. Increasing(Retain(waiting, K))
    BY <1>1, <2>1, RetainIncreasing
  <2>5. Increasing(running \o Retain(waiting, K))
    BY <1>1, <2>1, <2>2, <2>3, <2>4, ConcatIncreasing
  <2>. QED BY <1>3, <2>1, <2>5 DEF FirstComeFirstServed
<1>. QED BY <1>2, <1>3 DEF Abort

\* A batch that admission has let grow is no larger than max_batch_size; one
\* that only lost rows is no larger than it was.
LEMMA ScheduleCapacity ==
  ASSUME SchedulerTypeOK, Schedule, Len(running) <= MaxBatchSize
  PROVE  Len(running') <= MaxBatchSize
<1>1. PICK k \in 0 .. Len(waiting), kept \in Seq(Ids) :
        /\ Len(kept) \in 0 .. Len(running)
        /\ \A j \in 1 .. k : Fits(kept, j)
        /\ Len(running') = Len(kept) + k
  BY ScheduleProperties
<1>2. MaxBatchSize \in Nat /\ Len(running) \in Nat /\ Len(waiting) \in Nat
  BY SchedulerAssumption DEF SchedulerTypeOK
<1>3. CASE k = 0
  BY <1>1, <1>2, <1>3
<1>4. CASE k > 0
  <2>1. Fits(kept, k)
    BY <1>1, <1>2, <1>4
  <2>. QED BY <1>1, <2>1 DEF Fits
<1>. QED BY <1>1, <1>2, <1>3, <1>4

-----------------------------------------------------------------------------
(* What the methods do to the sequences of one deque *)

\* deque membership after schedule: waiting only loses, and every row of the
\* batch was unfinished in running or came from waiting.
LEMMA ScheduleRanges ==
  ASSUME SchedulerTypeOK, Schedule
  PROVE  /\ seqs' = seqs
         /\ Range(waiting') \subseteq Range(waiting)
         /\ \A r \in DOMAIN running' :
              \/ ~IsFinished(seqs[running'[r]])
              \/ running'[r] \in Range(waiting)
<1>1. PICK k \in 0 .. Len(waiting), kept \in Seq(Ids) :
        /\ kept = Unfinished(running)
        /\ running' = kept \o SubSeq(waiting, 1, k)
        /\ waiting' = SubSeq(waiting, k + 1, Len(waiting))
        /\ seqs' = seqs
  BY ScheduleProperties
<1>2. \A r \in DOMAIN kept : ~IsFinished(seqs[kept[r]])
  BY <1>1, UnfinishedProperties
<1>3. waiting \in Seq(Ids) /\ DOMAIN waiting = 1 .. Len(waiting) /\ Len(waiting) \in Nat
  BY DEF SchedulerTypeOK
<1> DEFINE a == SubSeq(waiting, 1, k)
           b == SubSeq(waiting, k + 1, Len(waiting))
<1>4. /\ a \in Seq(Ids) /\ Len(a) = k /\ \A i \in 1 .. k : a[i] = waiting[i]
      /\ b \in Seq(Ids) /\ Len(b) = Len(waiting) - k
      /\ \A i \in 1 .. Len(waiting) - k : b[i] = waiting[k + i]
  BY <1>3, SplitProperties
<1>5. Range(b) \subseteq Range(waiting)
  <2>1. DOMAIN b = 1 .. Len(waiting) - k
    BY <1>4
  <2>2. \A i \in 1 .. Len(waiting) - k : k + i \in DOMAIN waiting
    BY <1>3
  <2>. HIDE DEF b
  <2>. QED BY <1>4, <2>1, <2>2, SMTT(30) DEF Range
<1>6. \A r \in DOMAIN (kept \o a) :
        ~IsFinished(seqs[(kept \o a)[r]]) \/ (kept \o a)[r] \in Range(waiting)
  <2>. HIDE DEF a, b
  <2>0. a \in Seq(Ids) /\ Len(a) = k
    BY <1>4
  <2>1. DOMAIN (kept \o a) = 1 .. Len(kept) + k /\ Len(kept) \in Nat /\ DOMAIN kept = 1 .. Len(kept)
    BY <2>0
  <2>2. ASSUME NEW r \in 1 .. Len(kept)
        PROVE  ~IsFinished(seqs[(kept \o a)[r]])
    BY <1>2, <1>4, <2>1
  <2>3. ASSUME NEW r \in 1 .. k
        PROVE  (kept \o a)[Len(kept) + r] \in Range(waiting)
    <3>1. (kept \o a)[Len(kept) + r] = a[r]
      <4>1. Len(kept) + r \in 1 .. Len(kept) + Len(a) /\ ~(Len(kept) + r <= Len(kept))
            /\ (Len(kept) + r) - Len(kept) = r
        BY <1>4, <2>1
      <4>. QED BY <1>4, <2>1, <4>1
    <3>2. a[r] = waiting[r]
      BY <1>4
    <3>3. r \in DOMAIN waiting
      BY <1>3
    <3>. QED BY <3>1, <3>2, <3>3 DEF Range
  <2>4. \A r \in 1 .. Len(kept) + k :
          \/ r \in 1 .. Len(kept)
          \/ \E x \in 1 .. k : r = Len(kept) + x
    <3>. SUFFICES ASSUME NEW r \in 1 .. Len(kept) + k, ~(r \in 1 .. Len(kept))
                  PROVE  r - Len(kept) \in 1 .. k /\ r = Len(kept) + (r - Len(kept))
      OBVIOUS
    <3>. QED BY <2>1
  <2>. QED BY <2>1, <2>2, <2>3, <2>4
<1>. QED BY <1>1, <1>5, <1>6

\* A request that is waiting has no verdict, and nothing was emitted for it.
LEMMA AddWaiting ==
  ASSUME SchedulerTypeOK, WaitingUntouched, NEW p \in Nat, NEW m \in Nat,
         NEW eos \in SUBSET Tokens, Add(p, m, eos)
  PROVE  WaitingUntouched' /\ \A id \in Ids : seqs'[id] = seqs[id]
<1> DEFINE s == NewSequence(p, m, eos)
           e == Emit([s EXCEPT !.finish_reason = "length"], None)
           n == Len(seqs) + 1
<1>1. s \in Sequence /\ e \in Sequence
  BY NewSequenceType
<1>2. ~IsFinished(s) /\ s.queue = <<>>
  BY DEF NewSequence, IsFinished
<1>3. /\ seqs \in Seq(Sequence) /\ waiting \in Seq(Ids)
      /\ Ids = 1 .. Len(seqs) /\ Len(seqs) \in Nat
  BY IdsProperties DEF SchedulerTypeOK
<1>4. \A id \in Range(waiting) : id \in Ids /\ ~IsFinished(seqs[id]) /\ seqs[id].queue = <<>>
  BY <1>3 DEF WaitingUntouched, Range
<1>5. CASE seqs' = Append(seqs, e) /\ waiting' = waiting
  <2>. HIDE DEF e
  <2>1. \A id \in Ids : seqs'[id] = seqs[id]
    BY <1>3, <1>5
  <2>. QED BY <1>4, <1>5, <2>1 DEF WaitingUntouched
<1>6. CASE seqs' = Append(seqs, s) /\ waiting' = Append(waiting, n)
  <2>. HIDE DEF s
  <2>1. \A id \in Ids : seqs'[id] = seqs[id]
    BY <1>3, <1>6
  <2>2. seqs'[n] = s
    BY <1>3, <1>6
  <2>3. Range(waiting') = Range(waiting) \cup {n}
    <3>1. /\ Len(waiting) \in Nat /\ DOMAIN waiting = 1 .. Len(waiting)
          /\ DOMAIN waiting' = 1 .. Len(waiting) + 1
          /\ \A i \in 1 .. Len(waiting) : waiting'[i] = waiting[i]
          /\ waiting'[Len(waiting) + 1] = n
      BY <1>3, <1>6
    <3>2. \A i \in 1 .. Len(waiting) + 1 : i \in 1 .. Len(waiting) \/ i = Len(waiting) + 1
      BY <3>1
    <3>3. 1 .. Len(waiting) \subseteq 1 .. Len(waiting) + 1
          /\ Len(waiting) + 1 \in 1 .. Len(waiting) + 1
      BY <3>1
    <3>. HIDE DEF n
    <3>. QED BY <3>1, <3>2, <3>3 DEF Range
  <2>. QED BY <1>2, <1>4, <2>1, <2>2, <2>3 DEF WaitingUntouched
<1>. QED BY <1>5, <1>6 DEF Add

\* abort of a waiting request takes it out of waiting.
LEMMA AbortWaiting ==
  ASSUME SchedulerTypeOK, WaitingUntouched, NEW id \in Ids, Abort(id, "cancelled")
  PROVE  /\ WaitingUntouched'
         /\ \A other \in Ids \ {id} : seqs'[other] = seqs[other]
         /\ seqs'[id] = GiveUp(seqs[id], "cancelled")
<1>1. waiting \in Seq(Ids) /\ seqs \in [Ids -> Sequence]
  BY IdsProperties DEF SchedulerTypeOK, Ids
<1>2. /\ \A other \in Ids \ {id} : seqs'[other] = seqs[other]
      /\ seqs'[id] = GiveUp(seqs[id], "cancelled")
  BY <1>1 DEF Abort
<1>3. \A x \in Range(waiting) : x \in Ids /\ ~IsFinished(seqs[x]) /\ seqs[x].queue = <<>>
  BY <1>1 DEF WaitingUntouched, Range
<1>4. CASE IsFinished(seqs[id])
  <2>1. waiting' = waiting /\ seqs'[id] = seqs[id] /\ id \notin Range(waiting)
    BY <1>2, <1>3, <1>4 DEF Abort, GiveUp
  <2>. QED BY <1>2, <1>3, <2>1 DEF WaitingUntouched
<1>5. CASE ~IsFinished(seqs[id])
  <2>1. waiting' = Without(waiting, id)
    BY <1>5 DEF Abort
  <2>2. Range(waiting') = Range(waiting) \ {id}
    BY <1>1, <2>1, WithoutProperties
  <2>. QED BY <1>2, <1>3, <2>2 DEF WaitingUntouched
<1>. QED BY <1>2, <1>4, <1>5

-----------------------------------------------------------------------------
(* Verdicts and streams: what is true of every Sequence *)

\* The positions of a queue that hold tokens.
Data(q) == {p \in DOMAIN q : q[p] # None}

\* How many sentinels were emitted.
Sentinels(s) == Cardinality(DOMAIN s.queue \ Data(s.queue))

\* The places of stop tokens in the output.
Stops(s) == {k \in 1 .. Len(s.output_ids) : s.output_ids[k] \in s.eos_token_ids}

\* RunLoop's SentinelIffVerdict, of one sequence.
Signalled(s) == IsFinished(s) <=> s.queue # <<>> /\ s.queue[Len(s.queue)] = None

\* HonestVerdict, of one sequence.
Honest(s) ==
  /\ Len(s.output_ids) <= s.max_new
  /\ Stops(s) \subseteq {Len(s.output_ids)}
  /\ s.finish_reason = "stop" <=> Stops(s) # {}
  /\ s.finish_reason = "length" => Len(s.output_ids) = s.max_new
  /\ ~IsFinished(s) => Len(s.output_ids) < s.max_new

\* StreamIsOutput, of one sequence, and that sentinels come with a verdict.
Streamed(s) ==
  /\ Retain(s.queue, Data(s.queue)) = s.output_ids
  /\ Sentinels(s) <= 2
  /\ ~IsFinished(s) => Sentinels(s) = 0

Sound(s) == Signalled(s) /\ Honest(s) /\ Streamed(s)

\* A sequence that may be on the worker thread: it has no verdict, or was
\* cancelled there, which told its consumer once.
Going(s) ==
  /\ s.finish_reason \in {"", "cancelled"}
  /\ Len(s.output_ids) < s.max_new
  /\ Sentinels(s) <= 1

\* What one more item does to the tokens and to the sentinels of a queue.
LEMMA QueueAppend ==
  ASSUME NEW q \in Seq(Item), NEW item \in Item, NEW r, r = Append(q, item)
  PROVE  /\ r # <<>> /\ r[Len(r)] = item
         /\ Cardinality(DOMAIN q \ Data(q)) \in Nat
         /\ item = None =>
              /\ Retain(r, Data(r)) = Retain(q, Data(q))
              /\ Cardinality(DOMAIN r \ Data(r)) = Cardinality(DOMAIN q \ Data(q)) + 1
         /\ item # None =>
              /\ Retain(r, Data(r)) = Append(Retain(q, Data(q)), item)
              /\ Cardinality(DOMAIN r \ Data(r)) = Cardinality(DOMAIN q \ Data(q))
<1> DEFINE m == Len(q)
           K == Data(q)
           old == DOMAIN q \ Data(q)
<1>1. m \in Nat /\ DOMAIN q = 1 .. m /\ K \in SUBSET (DOMAIN q) /\ m + 1 \notin DOMAIN q
  BY DEF Data
<1>2. /\ Len(r) = m + 1 /\ DOMAIN r = 1 .. (m + 1) /\ r[m + 1] = item
      /\ \A i \in 1 .. m : r[i] = q[i]
      /\ r # <<>>
  OBVIOUS
<1>3. DOMAIN r = DOMAIN q \cup {m + 1}
  BY <1>1, <1>2
<1>4. old \in SUBSET (1 .. m) /\ m + 1 \notin old
  BY <1>1
<1>5. IsFiniteSet(old) /\ Cardinality(old) \in Nat
  <2>. HIDE DEF old
  <2>. QED BY <1>1, <1>4, RankProperties
<1>6. /\ Retain(r, K) = Retain(q, K)
      /\ Retain(r, K \cup {m + 1}) = Append(Retain(q, K), item)
  <2>1. K \in SUBSET (DOMAIN q)
    BY <1>1
  <2>. HIDE DEF K
  <2>. QED BY <2>1, RetainAppend
<1>7. CASE item = None
  <2>1. Data(r) = K
    BY <1>1, <1>2, <1>3, <1>7 DEF Data
  <2>2. DOMAIN r \ Data(r) = old \cup {m + 1}
    BY <1>1, <1>3, <2>1
  <2>3. Cardinality(old \cup {m + 1}) = Cardinality(old) + 1
    BY <1>4, <1>5, FS_AddElement
  <2>. QED BY <1>2, <1>5, <1>6, <1>7, <2>1, <2>2, <2>3
<1>8. CASE item # None
  <2>1. Data(r) = K \cup {m + 1}
    BY <1>1, <1>2, <1>3, <1>8 DEF Data
  <2>2. DOMAIN r \ Data(r) = old
    BY <1>1, <1>3, <2>1
  <2>. QED BY <1>2, <1>5, <1>6, <1>8, <2>1, <2>2
<1>. QED BY <1>7, <1>8

\* A sentinel with, or after, a verdict that no token was recorded for.
LEMMA EndedSound ==
  ASSUME NEW s \in Sequence, NEW t \in Sequence, Sound(s), Sentinels(s) <= 1,
         t.output_ids = s.output_ids, t.max_new = s.max_new,
         t.eos_token_ids = s.eos_token_ids, t.queue = Append(s.queue, None),
         \/ IsFinished(s) /\ t.finish_reason = s.finish_reason
         \/ ~IsFinished(s) /\ t.finish_reason \in {"cancelled", "error"}
  PROVE  Sound(t) /\ Sentinels(t) = Sentinels(s) + 1
<1>1. s.queue \in Seq(Item) /\ None \in Item
  BY NoneIsItem DEF Sequence, Item
<1>2. /\ t.queue # <<>> /\ t.queue[Len(t.queue)] = None
      /\ Sentinels(s) \in Nat
      /\ Retain(t.queue, Data(t.queue)) = Retain(s.queue, Data(s.queue))
      /\ Sentinels(t) = Sentinels(s) + 1
  BY <1>1, QueueAppend, ZenonT(30) DEF Sentinels
<1>3. IsFinished(t)
  BY DEF IsFinished
<1>4. Signalled(t)
  BY <1>2, <1>3 DEF Signalled
<1>5. Stops(t) = Stops(s)
  BY DEF Stops
<1>6. Honest(t)
  BY <1>3, <1>5 DEF Sound, Honest, IsFinished
<1>7. Streamed(t)
  BY <1>2, <1>3 DEF Sound, Streamed
<1>. QED BY <1>2, <1>4, <1>6, <1>7 DEF Sound

\* add: a request nobody has worked on, and one that is answered right away.
LEMMA NewSound ==
  ASSUME NEW p \in Nat, NEW m \in Nat, NEW eos \in SUBSET Tokens
  PROVE  LET s == NewSequence(p, m, eos)
         IN  /\ m > 0 => Sound(s)
             /\ m <= 0 => Sound(Emit([s EXCEPT !.finish_reason = "length"], None))
<1> DEFINE s == NewSequence(p, m, eos)
           t == Emit([s EXCEPT !.finish_reason = "length"], None)
           q == <<>>
<1>1. /\ s.output_ids = q /\ s.queue = q
      /\ t.output_ids = q /\ t.queue = Append(q, None)
  BY DEF NewSequence, Emit
<1>2. /\ s.max_new = m /\ s.finish_reason = ""
      /\ t.max_new = m /\ t.finish_reason = "length"
  BY DEF NewSequence, Emit
<1>3. q \in Seq(Item) /\ Len(q) = 0 /\ DOMAIN q = {} /\ q = <<>>
  OBVIOUS
<1>4. Data(q) = {} /\ DOMAIN q \ Data(q) = {} /\ Cardinality({}) = 0
  BY <1>3, FS_EmptySet DEF Data
<1>. HIDE DEF s, t, q
<1>5. Retain(q, Data(q)) = q
  <2>1. {} \in SUBSET (DOMAIN q)
    OBVIOUS
  <2>2. Retain(q, {}) \in Seq(Item) /\ Len(Retain(q, {})) = 0
    <3>1. Retain(q, {}) \in Seq(Item) /\ Len(Retain(q, {})) = Cardinality({})
      BY <1>3, <2>1, RetainProperties
    <3>. QED BY <1>4, <3>1
  <2>3. Retain(q, {}) = <<>>
    BY <2>2, EmptySeq
  <2>. QED BY <1>3, <1>4, <2>3
<1>6. Len(s.output_ids) = 0 /\ Len(t.output_ids) = 0
  BY <1>1, <1>3
<1>7. Stops(s) = {} /\ Stops(t) = {}
  BY <1>6 DEF Stops
<1>8. Signalled(s) /\ Streamed(s)
  <2>1. Sentinels(s) = 0
    BY <1>1, <1>4 DEF Sentinels
  <2>2. Retain(s.queue, Data(s.queue)) = s.output_ids
    BY <1>1, <1>5
  <2>3. Streamed(s)
    BY <2>1, <2>2 DEF Streamed
  <2>4. s.queue = <<>>
    BY <1>1, <1>3
  <2>. QED BY <1>2, <2>3, <2>4 DEF Signalled, IsFinished
<1>9. Signalled(t) /\ Streamed(t)
  <2>1. None \in Item
    BY NoneIsItem
  <2>2. /\ t.queue # <<>> /\ t.queue[Len(t.queue)] = None
        /\ Retain(t.queue, Data(t.queue)) = Retain(q, Data(q))
        /\ Cardinality(DOMAIN t.queue \ Data(t.queue)) = Cardinality(DOMAIN q \ Data(q)) + 1
    BY <1>1, <1>3, <2>1, QueueAppend, ZenonT(30)
  <2>3. Sentinels(t) = 1
    BY <1>4, <2>2 DEF Sentinels
  <2>4. IsFinished(t)
    BY <1>2 DEF IsFinished
  <2>5. Retain(t.queue, Data(t.queue)) = t.output_ids
    BY <1>1, <1>5, <2>2
  <2>. QED BY <2>2, <2>3, <2>4, <2>5 DEF Signalled, Streamed
<1>10. (m > 0 => Honest(s)) /\ (m <= 0 => Honest(t))
  <2>1. /\ s.max_new \in Nat /\ (m > 0 => 0 < s.max_new)
        /\ t.max_new \in Nat /\ (m <= 0 => t.max_new = 0)
    <3>1. (m > 0 => 0 < m) /\ (m <= 0 => m = 0)
      OBVIOUS
    <3>. QED BY <1>2, <3>1
  <2>2. Stops(s) \subseteq {Len(s.output_ids)} /\ Stops(t) \subseteq {Len(t.output_ids)}
    BY <1>7
  <2>3. ~IsFinished(s) /\ s.finish_reason # "stop" /\ s.finish_reason # "length"
    BY <1>2 DEF IsFinished
  <2>4. IsFinished(t) /\ t.finish_reason # "stop"
    BY <1>2 DEF IsFinished
  <2>. QED BY <1>6, <1>7, <2>1, <2>2, <2>3, <2>4 DEF Honest
<1>11. (m > 0 => Sound(s)) /\ (m <= 0 => Sound(t))
  BY <1>8, <1>9, <1>10 DEF Sound
<1>. QED BY <1>11 DEF s, t

\* abort: nothing on a sequence with a verdict, a sentinel on one without.
LEMMA GiveUpSound ==
  ASSUME NEW s \in Sequence, NEW reason \in {"cancelled", "error"}, Sound(s)
  PROVE  /\ Sound(GiveUp(s, reason))
         /\ IsFinished(s) => GiveUp(s, reason) = s
         /\ ~IsFinished(s) => /\ GiveUp(s, reason).finish_reason = reason
                              /\ Sentinels(GiveUp(s, reason)) = 1
         /\ GiveUp(s, reason).max_new = s.max_new
<1> DEFINE t == GiveUp(s, reason)
<1>1. CASE IsFinished(s)
  BY <1>1 DEF GiveUp
<1>2. CASE ~IsFinished(s)
  <2>1. t \in Sequence /\ t.output_ids = s.output_ids
    BY GiveUpType DEF FinishReasons
  <2>2. t = [[s EXCEPT !.finish_reason = reason] EXCEPT !.queue = Append(s.queue, None)]
    BY <1>2 DEF GiveUp, Emit, Sequence
  <2>3. /\ t.max_new = s.max_new /\ t.eos_token_ids = s.eos_token_ids
        /\ t.queue = Append(s.queue, None) /\ t.finish_reason = reason
    BY <2>2 DEF Sequence
  <2>4. Sentinels(s) = 0
    BY <1>2 DEF Sound, Streamed
  <2>. HIDE DEF t
  <2>5. Sound(t) /\ Sentinels(t) = 1
    BY <1>2, <2>1, <2>3, <2>4, EndedSound
  <2>. QED BY <1>2, <2>3, <2>5 DEF t
<1>. QED BY <1>1, <1>2

\* fail_all: a sentinel either way, so there is room for it only if at most one
\* was emitted before.
LEMMA FailSound ==
  ASSUME NEW s \in Sequence, Sound(s), Sentinels(s) <= 1
  PROVE  /\ Sound(Fail(s))
         /\ Sentinels(Fail(s)) = Sentinels(s) + 1
         /\ IsFinished(s) => Fail(s).finish_reason = s.finish_reason
         /\ ~IsFinished(s) => Fail(s).finish_reason = "error"
<1> DEFINE t == Fail(s)
<1>1. t \in Sequence /\ t.output_ids = s.output_ids
  BY FailType
<1>2. /\ t.max_new = s.max_new /\ t.eos_token_ids = s.eos_token_ids
      /\ t.queue = Append(s.queue, None)
      /\ IsFinished(s) => t.finish_reason = s.finish_reason
      /\ ~IsFinished(s) => t.finish_reason = "error"
  BY DEF Fail, Emit, Sequence
<1>. HIDE DEF t
<1>3. Sound(t) /\ Sentinels(t) = Sentinels(s) + 1
  BY <1>1, <1>2, EndedSound
<1>. QED BY <1>2, <1>3 DEF t

\* The verdict postprocess computes, by what the token is and what room is left.
LEMMA VerdictCases ==
  ASSUME NEW s \in Sequence, NEW token \in Tokens
  PROVE  LET v == Verdict(s, token)
         IN  /\ token \in s.eos_token_ids => v = "stop"
             /\ token \notin s.eos_token_ids =>
                  IF Len(s.output_ids) + 1 >= s.max_new THEN v = "length"
                  ELSE v = s.finish_reason
  BY DEF Verdict

\* What postprocess leaves of the other fields, and what it puts in the queue.
LEMMA AppendTokenFields ==
  ASSUME NEW s \in Sequence, NEW token \in Tokens
  PROVE  LET t == AppendToken(s, token)
             r == Append(s.queue, token)
         IN  /\ t.max_new = s.max_new /\ t.eos_token_ids = s.eos_token_ids
             /\ Verdict(s, token) = "" => t.queue = r
             /\ Verdict(s, token) # "" => t.queue = Append(r, None)
<1> DEFINE t == AppendToken(s, token)
           v == Verdict(s, token)
           r == Append(s.queue, token)
           out == Append(s.output_ids, token)
           grown == [s EXCEPT !.output_ids = out, !.queue = r, !.finish_reason = v]
<1>1. t = IF IsFinished(grown) THEN Emit(grown, None) ELSE grown
  BY DEF AppendToken
<1>2. out \in Seq(Tokens) /\ r \in Seq(Item) /\ v \in FinishReasons \cup {""}
  <2>1. s.output_ids \in Seq(Tokens) /\ s.queue \in Seq(Item) /\ token \in Item
    BY DEF Sequence, Item
  <2>2. v \in FinishReasons \cup {""}
    BY DEF Verdict, Sequence, FinishReasons
  <2>3. out \in Seq(Tokens)
    BY <2>1
  <2>4. r \in Seq(Item)
    BY <2>1
  <2>. HIDE DEF v, r, out
  <2>. QED BY <2>2, <2>3, <2>4
<1>. HIDE DEF t, v, r, out
<1>3. /\ grown \in Sequence /\ grown.finish_reason = v /\ grown.queue = r
      /\ grown.max_new = s.max_new /\ grown.eos_token_ids = s.eos_token_ids
  BY <1>2 DEF Sequence, Item
<1>. HIDE DEF grown
<1>4. Emit(grown, None) = [grown EXCEPT !.queue = Append(grown.queue, None)]
  BY DEF Emit
<1>5. /\ Emit(grown, None).queue = Append(grown.queue, None)
      /\ Emit(grown, None).max_new = grown.max_new
      /\ Emit(grown, None).eos_token_ids = grown.eos_token_ids
  BY <1>3, <1>4 DEF Sequence
<1>6. /\ t.max_new = s.max_new /\ t.eos_token_ids = s.eos_token_ids
      /\ v = "" => t.queue = r
      /\ v # "" => t.queue = Append(r, None)
  BY <1>1, <1>3, <1>5 DEF IsFinished
<1>. QED BY <1>6 DEF t, v, r

\* postprocess: one row's token, also of a row cancelled on the worker thread.
LEMMA AppendTokenSound ==
  ASSUME NEW s \in Sequence, NEW token \in Tokens, Sound(s), Going(s)
  PROVE  /\ Sound(AppendToken(s, token))
         /\ Sentinels(AppendToken(s, token)) <= Sentinels(s) + 1
         /\ IsFinished(s) =>
              AppendToken(s, token).finish_reason \in {"cancelled", "stop", "length"}
<1> DEFINE t == AppendToken(s, token)
           v == Verdict(s, token)
           n == Len(s.output_ids)
           r == Append(s.queue, token)
<1>1. /\ t \in Sequence /\ t.finish_reason = v
      /\ t.output_ids = Append(s.output_ids, token)
  BY AppendTokenType
<1>2. /\ t.max_new = s.max_new /\ t.eos_token_ids = s.eos_token_ids
      /\ v = "" => t.queue = r
      /\ v # "" => t.queue = Append(r, None)
  BY AppendTokenFields
<1>3. /\ s.output_ids \in Seq(Tokens) /\ s.queue \in Seq(Item)
      /\ s.max_new \in Nat /\ n \in Nat
  <2>1. s.output_ids \in Seq(Tokens) /\ s.queue \in Seq(Item) /\ s.max_new \in Nat
    BY DEF Sequence, Item
  <2>. QED BY <2>1
<1>4. token \in Item /\ None \in Item /\ token # None
  BY SchedulerAssumption, NoneIsItem DEF Item
<1>5. s.finish_reason \in {"", "cancelled"}
  BY DEF Going
<1>6. n < s.max_new /\ Sentinels(s) <= 1
  BY DEF Going
<1>7. /\ Len(t.output_ids) = n + 1 /\ t.output_ids[n + 1] = token
      /\ \A k \in 1 .. n : t.output_ids[k] = s.output_ids[k]
  <2> DEFINE a == Append(s.output_ids, token)
  <2>1. /\ Len(a) = n + 1 /\ a[n + 1] = token
        /\ \A k \in 1 .. n : a[k] = s.output_ids[k]
    BY <1>3
  <2>2. t.output_ids = a
    BY <1>1
  <2>. HIDE DEF t, a, n
  <2>. QED BY <2>1, <2>2
<1>8. /\ token \in s.eos_token_ids => v = "stop"
      /\ token \notin s.eos_token_ids /\ n + 1 >= s.max_new => v = "length"
      /\ token \notin s.eos_token_ids /\ ~(n + 1 >= s.max_new) => v = s.finish_reason
  BY VerdictCases
<1>9. /\ r # <<>> /\ r[Len(r)] = token
      /\ Retain(r, Data(r)) = Append(Retain(s.queue, Data(s.queue)), token)
      /\ Cardinality(DOMAIN r \ Data(r)) = Sentinels(s)
      /\ Sentinels(s) \in Nat
  <2> DEFINE q == s.queue
  <2>1. q \in Seq(Item)
    BY <1>3
  <2>2. r = Append(q, token) /\ Sentinels(s) = Cardinality(DOMAIN q \ Data(q))
    BY DEF Sentinels
  <2>. HIDE DEF q, r
  <2>. QED BY <1>4, <2>1, <2>2, QueueAppend, ZenonT(30) DEF q
<1>10. r \in Seq(Item)
  BY <1>3, <1>4
<1>11. v = "stop" <=> token \in s.eos_token_ids
  BY <1>5, <1>8
<1>12. /\ v = "length" => n + 1 >= s.max_new
       /\ v = "" => ~(n + 1 >= s.max_new) /\ s.finish_reason = ""
       /\ v # "" => v \in {"cancelled", "stop", "length"}
  BY <1>5, <1>8
<1>. HIDE DEF t, v, r, n
<1>13. Stops(s) = {}
  BY <1>5 DEF Sound, Honest
<1>14. Stops(t) = IF token \in s.eos_token_ids THEN {n + 1} ELSE {}
  <2>1. 1 .. (n + 1) = (1 .. n) \cup {n + 1}
    BY <1>3
  <2>2. \A k \in 1 .. n : t.output_ids[k] \notin s.eos_token_ids
    BY <1>7, <1>13 DEF Stops, n
  <2>3. Stops(t) = {k \in (1 .. n) \cup {n + 1} : t.output_ids[k] \in s.eos_token_ids}
    BY <1>2, <1>7, <2>1 DEF Stops
  <2>. QED BY <1>7, <2>2, <2>3
<1>15. Honest(t)
  <2>0. n < t.max_new /\ t.max_new \in Nat
    BY <1>2, <1>3, <1>6
  <2>1. Len(t.output_ids) <= t.max_new
    BY <1>3, <1>7, <2>0
  <2>2. Stops(t) \subseteq {Len(t.output_ids)}
    BY <1>7, <1>14
  <2>3. v = "stop" <=> Stops(t) # {}
    BY <1>11, <1>14
  <2>4. v = "length" => Len(t.output_ids) = t.max_new
    <3>1. n + 1 >= t.max_new => Len(t.output_ids) = t.max_new
      BY <1>3, <1>7, <2>0
    <3>. QED BY <1>2, <1>12, <3>1
  <2>5. v = "" => Len(t.output_ids) < t.max_new
    <3>1. ~(n + 1 >= t.max_new) => Len(t.output_ids) < t.max_new
      BY <1>3, <1>7, <2>0
    <3>. QED BY <1>2, <1>12, <3>1
  <2>. QED BY <1>1, <2>1, <2>2, <2>3, <2>4, <2>5 DEF Honest, IsFinished
<1>16. Retain(r, Data(r)) = t.output_ids
  BY <1>1, <1>9 DEF Sound, Streamed
<1>17. CASE v = ""
  <2>1. t.queue = r /\ ~IsFinished(t)
    BY <1>1, <1>2, <1>17 DEF IsFinished
  <2>2. Sentinels(s) = 0 /\ ~IsFinished(s)
    BY <1>12, <1>17 DEF Sound, Streamed, IsFinished
  <2>3. Signalled(t)
    BY <1>4, <1>9, <2>1 DEF Signalled
  <2>4. Streamed(t)
    BY <1>9, <1>16, <2>1, <2>2 DEF Streamed, Sentinels
  <2>5. Sentinels(t) <= Sentinels(s) + 1
    <3>1. Sentinels(t) = Sentinels(s)
      BY <1>9, <2>1 DEF Sentinels
    <3>. QED BY <1>9, <3>1
  <2>. QED BY <1>15, <2>2, <2>3, <2>4, <2>5 DEF Sound, t
<1>18. CASE v # ""
  <2>1. t.queue = Append(r, None) /\ IsFinished(t)
    BY <1>1, <1>2, <1>18 DEF IsFinished
  <2>2. /\ t.queue # <<>> /\ t.queue[Len(t.queue)] = None
        /\ Retain(t.queue, Data(t.queue)) = Retain(r, Data(r))
        /\ Cardinality(DOMAIN t.queue \ Data(t.queue)) = Cardinality(DOMAIN r \ Data(r)) + 1
    BY <1>4, <1>10, <2>1, QueueAppend, ZenonT(30)
  <2>3. Signalled(t)
    BY <2>1, <2>2 DEF Signalled
  <2>4. Sentinels(t) = Sentinels(s) + 1
    BY <1>9, <2>1, <2>2 DEF Sentinels
  <2>5. Sentinels(t) <= 2 /\ Sentinels(t) <= Sentinels(s) + 1
    BY <1>6, <1>9, <2>4
  <2>6. Streamed(t)
    BY <1>16, <2>1, <2>2, <2>5 DEF Streamed
  <2>. QED BY <1>1, <1>12, <1>15, <1>18, <2>3, <2>5, <2>6 DEF Sound, t
<1>. QED BY <1>17, <1>18

-----------------------------------------------------------------------------
(* What the methods of the scheduler do to each Sequence *)

\* add: one more id, with a request that waits or one that was answered.
LEMMA AddSequences ==
  ASSUME SchedulerTypeOK, NEW p \in Nat, NEW m \in Nat, NEW eos \in SUBSET Tokens,
         Add(p, m, eos)
  PROVE  /\ Ids' = Ids \cup {Len(seqs) + 1}
         /\ Len(seqs) + 1 \notin Ids
         /\ Len(seqs') = Len(seqs) + 1
         /\ \A id \in Ids : seqs'[id] = seqs[id]
         /\ \/ /\ m <= 0
               /\ seqs'[Len(seqs) + 1]
                    = Emit([NewSequence(p, m, eos) EXCEPT !.finish_reason = "length"], None)
               /\ waiting' = waiting
            \/ /\ m > 0
               /\ seqs'[Len(seqs) + 1] = NewSequence(p, m, eos)
               /\ waiting' = Append(waiting, Len(seqs) + 1)
         /\ running' = running
<1> DEFINE s == NewSequence(p, m, eos)
           e == Emit([s EXCEPT !.finish_reason = "length"], None)
           n == Len(seqs) + 1
<1>1. s \in Sequence /\ e \in Sequence
  BY NewSequenceType
<1>2. seqs \in Seq(Sequence) /\ Len(seqs) \in Nat /\ Ids = 1 .. Len(seqs)
  BY IdsProperties DEF SchedulerTypeOK
<1>3. /\ \/ m <= 0 /\ seqs' = Append(seqs, e) /\ waiting' = waiting
         \/ m > 0 /\ seqs' = Append(seqs, s) /\ waiting' = Append(waiting, n)
      /\ running' = running
  <2>1. m <= 0 \/ m > 0
    OBVIOUS
  <2>. QED BY <2>1 DEF Add
<1>. HIDE DEF s, e
<1>4. ASSUME NEW t \in Sequence, seqs' = Append(seqs, t)
      PROVE  /\ Ids' = Ids \cup {n}
             /\ n \notin Ids
             /\ Len(seqs') = n
             /\ \A id \in Ids : seqs'[id] = seqs[id]
             /\ seqs'[n] = t
  <2>1. /\ Len(seqs') = n /\ DOMAIN seqs' = 1 .. n /\ seqs'[n] = t
        /\ \A id \in 1 .. Len(seqs) : seqs'[id] = seqs[id]
    BY <1>2, <1>4
  <2>. QED BY <1>2, <2>1 DEF Ids
<1>5. CASE m <= 0 /\ seqs' = Append(seqs, e) /\ waiting' = waiting
  BY <1>1, <1>3, <1>4, <1>5 DEF s, e
<1>6. CASE m > 0 /\ seqs' = Append(seqs, s) /\ waiting' = Append(waiting, n)
  BY <1>1, <1>3, <1>4, <1>6 DEF s
<1>. QED BY <1>3, <1>5, <1>6

\* abort: GiveUp for the one, nothing for the others.
LEMMA AbortSequences ==
  ASSUME SchedulerTypeOK, NEW id \in Ids, NEW reason, Abort(id, reason)
  PROVE  /\ Ids' = Ids
         /\ seqs'[id] = GiveUp(seqs[id], reason)
         /\ \A other \in Ids \ {id} : seqs'[other] = seqs[other]
         /\ running' = running
  BY DEF Abort, Ids, SchedulerTypeOK

\* A tick: abort for a row without a token, postprocess for one with, nothing
\* for who is not in the batch.
LEMMA RecordedCases ==
  ASSUME NEW id \in Ids, NEW q, NEW next_ids \in [DOMAIN q -> Tokens \cup {None}]
  PROVE  \/ id \notin Range(q) /\ Recorded(id, q, next_ids) = seqs[id]
         \/ id \in Range(q) /\ Recorded(id, q, next_ids) = GiveUp(seqs[id], "error")
         \/ /\ id \in Range(q)
            /\ \E token \in Tokens : Recorded(id, q, next_ids) = AppendToken(seqs[id], token)
<1>1. CASE id \notin Range(q)
  <2>1. ~ \E row \in DOMAIN q : q[row] = id
    BY <1>1 DEF Range
  <2>. QED BY <1>1, <2>1 DEF Recorded
<1>2. CASE id \in Range(q)
  <2>1. \E row \in DOMAIN q : q[row] = id
    BY <1>2 DEF Range
  <2> DEFINE row == CHOOSE r \in DOMAIN q : q[r] = id
  <2>2. row \in DOMAIN q
    BY <2>1
  <2>3. next_ids[row] \in Tokens \/ next_ids[row] = None
    BY <2>2
  <2>4. Recorded(id, q, next_ids) =
          IF next_ids[row] = None THEN GiveUp(seqs[id], "error")
          ELSE AppendToken(seqs[id], next_ids[row])
    BY <2>1 DEF Recorded
  <2>. HIDE DEF row
  <2>. QED BY <1>2, <2>3, <2>4
<1>. QED BY <1>1, <1>2

\* fail_all: Fail for everybody in flight.
LEMMA FailAllSequences ==
  ASSUME SchedulerTypeOK, FailAll
  PROVE  /\ Ids' = Ids
         /\ \A id \in Ids :
              seqs'[id] = IF id \in InFlight THEN Fail(seqs[id]) ELSE seqs[id]
         /\ running' = <<>> /\ waiting' = <<>>
<1>1. seqs' = [id \in Ids |-> IF id \in InFlight THEN Fail(seqs[id]) ELSE seqs[id]]
  BY DEF FailAll
<1>2. Ids' = Ids
  BY <1>1 DEF Ids
<1>. QED BY <1>1, <1>2 DEF FailAll
-----------------------------------------------------------------------------
(* Counting the requests in flight *)

\* An increasing sequence has as many elements as positions, also at some of its
\* positions only.
LEMMA IncreasingCount ==
  ASSUME NEW q \in Seq(Nat), Increasing(q), NEW K \in SUBSET (DOMAIN q)
  PROVE  /\ IsFiniteSet({q[p] : p \in K})
         /\ Cardinality({q[p] : p \in K}) = Cardinality(K)
<1> DEFINE T == {q[p] : p \in K}
           f == [p \in K |-> q[p]]
<1>1. IsFiniteSet(K)
  <2>1. Len(q) \in Nat /\ K \in SUBSET (1 .. Len(q))
    OBVIOUS
  <2>. QED BY <2>1, RankProperties
<1>2. ASSUME NEW i \in K, NEW j \in K, q[i] = q[j] PROVE i = j
  <2>1. i \in Nat /\ j \in Nat /\ q[i] \in Nat /\ q[j] \in Nat /\ i \in DOMAIN q /\ j \in DOMAIN q
    OBVIOUS
  <2>2. ~(i < j) /\ ~(j < i)
    BY <1>2, <2>1 DEF Increasing
  <2>. QED BY <2>1, <2>2
<1>3. f \in Bijection(K, T)
  <2>1. f \in [K -> T] /\ \A t \in T : \E p \in K : f[p] = t
    OBVIOUS
  <2>2. \A i, j \in K : f[i] = f[j] => i = j
    BY <1>2
  <2>. QED BY <2>1, <2>2 DEF Bijection, Injection, Surjection, IsInjective
<1>. QED BY <1>1, <1>3, FS_Bijection DEF ExistsBijection

\* schedule loses nobody who is not finished.
LEMMA ScheduleKeeps ==
  ASSUME SchedulerTypeOK, Schedule, NEW id \in InFlight, ~IsFinished(seqs[id])
  PROVE  id \in Range(running') \cup Range(waiting')
<1>1. PICK k \in 0 .. Len(waiting), kept \in Seq(Ids) :
        /\ kept = Unfinished(running)
        /\ running' = kept \o SubSeq(waiting, 1, k)
        /\ waiting' = SubSeq(waiting, k + 1, Len(waiting))
  BY ScheduleProperties
<1>2. waiting \in Seq(Ids) /\ running \in Seq(Ids)
  BY DEF SchedulerTypeOK
<1> DEFINE a == SubSeq(waiting, 1, k)
           b == SubSeq(waiting, k + 1, Len(waiting))
<1>3. a \in Seq(Ids) /\ b \in Seq(Ids) /\ waiting = a \o b
  BY <1>2, SplitProperties, SplitConcat
<1>. HIDE DEF a, b
<1>4. Range(waiting) = Range(a) \cup Range(b) /\ Range(running') = Range(kept) \cup Range(a)
  BY <1>1, <1>3, RangeConcatenation, ZenonT(30) DEF a
<1>5. Range(kept) = {running[p] : p \in {p \in DOMAIN running : ~IsFinished(seqs[running[p]])}}
  <2> DEFINE K == {p \in DOMAIN running : ~IsFinished(seqs[running[p]])}
  <2>1. K \in SUBSET (DOMAIN running) /\ kept = Retain(running, K)
    BY <1>1 DEF Unfinished
  <2>. HIDE DEF K
  <2>2. Range(kept) = {running[p] : p \in K}
    BY <1>2, <2>1, RetainProperties
  <2>. QED BY <2>2 DEF K
<1>6. id \in Range(running) => id \in Range(kept)
  BY <1>5 DEF Range
<1>. QED BY <1>1, <1>4, <1>6 DEF InFlight, b

\* What the two gauges count, when nobody unfinished is outside the deques.
LEMMA GaugesAddUp ==
  ASSUME SchedulerTypeOK, FirstComeFirstServed, WaitingUntouched,
         \A id \in Ids : ~IsFinished(seqs[id]) => id \in InFlight
  PROVE  NumRunning + NumWaiting = Cardinality({id \in Ids : ~IsFinished(seqs[id])})
<1> DEFINE P == {p \in DOMAIN running : ~IsFinished(seqs[running[p]])}
           R == {running[p] : p \in P}
           W == {waiting[p] : p \in DOMAIN waiting}
           U == {id \in Ids : ~IsFinished(seqs[id])}
<1>1. /\ running \in Seq(Nat) /\ waiting \in Seq(Nat)
      /\ Increasing(running) /\ Increasing(waiting)
  BY InOrderProperties
<1>2. IsFiniteSet(R) /\ Cardinality(R) = Cardinality(P)
  <2>1. P \in SUBSET (DOMAIN running)
    OBVIOUS
  <2>. HIDE DEF P
  <2>. QED BY <1>1, <2>1, IncreasingCount
<1>3. IsFiniteSet(W) /\ Cardinality(W) = Len(waiting)
  <2>1. Cardinality(DOMAIN waiting) = Len(waiting)
    <3>1. DOMAIN waiting = 1 .. Len(waiting) /\ Len(waiting) \in Nat
      BY <1>1
    <3>2. Cardinality(1 .. Len(waiting)) = IF 1 > Len(waiting) THEN 0 ELSE Len(waiting) - 1 + 1
      BY <3>1, FS_Interval
    <3>. QED BY <3>1, <3>2
  <2>. QED BY <1>1, <2>1, IncreasingCount
<1>4. R \cap W = {} /\ W \subseteq U /\ R \subseteq U /\ U \subseteq R \cup W
  <2>1. W = Range(waiting) /\ R \subseteq Range(running)
    BY DEF Range
  <2>2. R \cap W = {}
    BY <2>1, Disjoint
  <2>3. (\A p \in DOMAIN waiting : waiting[p] \in Ids) /\ (\A p \in DOMAIN running : running[p] \in Ids)
    BY DEF SchedulerTypeOK
  <2>4. W \subseteq U /\ R \subseteq U
    BY <2>1, <2>3 DEF WaitingUntouched
  <2>5. ASSUME NEW id \in U PROVE id \in R \cup W
    BY <2>1 DEF InFlight, Range
  <2>. QED BY <2>2, <2>4, <2>5
<1>5. Cardinality(U) = Cardinality(R) + Cardinality(W)
  <2>1. U = R \cup W
    BY <1>4
  <2>. HIDE DEF R, W, U
  <2>2. Cardinality(R \cup W) = Cardinality(R) + Cardinality(W) - Cardinality(R \cap W)
    BY <1>2, <1>3, FS_Union
  <2>3. Cardinality(R \cap W) = 0
    BY <1>4, FS_EmptySet
  <2>4. Cardinality(R) \in Nat /\ Cardinality(W) \in Nat
    BY <1>2, <1>3, FS_CardinalityType
  <2>. QED BY <2>1, <2>2, <2>3, <2>4
<1>. QED BY <1>2, <1>3, <1>5 DEF NumRunning, NumWaiting
-----------------------------------------------------------------------------
(* How a Sequence grows *)

\* What any method may do to a sequence: more output, the same item in the queue,
\* and sentinels in the queue only.
Grown(s, t) ==
  /\ t \in Sequence
  /\ t.max_new = s.max_new /\ t.eos_token_ids = s.eos_token_ids
  /\ \/ /\ t.output_ids = s.output_ids
        /\ t.queue = s.queue \/ t.queue = Append(s.queue, None)
     \/ \E token \in Tokens :
          /\ t.output_ids = Append(s.output_ids, token)
          /\ \/ t.queue = Append(s.queue, token)
             \/ t.queue = Append(Append(s.queue, token), None)

\* The methods do.
LEMMA MethodsGrow ==
  ASSUME NEW s \in Sequence
  PROVE  /\ Grown(s, s)
         /\ \A reason \in FinishReasons : Grown(s, GiveUp(s, reason))
         /\ Grown(s, Fail(s))
         /\ \A token \in Tokens : Grown(s, AppendToken(s, token))
<1>1. ASSUME NEW reason \in FinishReasons PROVE Grown(s, GiveUp(s, reason))
  <2>1. CASE IsFinished(s)
    BY <2>1 DEF GiveUp, Grown
  <2>2. CASE ~IsFinished(s)
    <3> DEFINE t == GiveUp(s, reason)
    <3>1. t \in Sequence /\ t.output_ids = s.output_ids
      BY GiveUpType
    <3>2. t = [[s EXCEPT !.finish_reason = reason] EXCEPT !.queue = Append(s.queue, None)]
      BY <2>2 DEF GiveUp, Emit, Sequence
    <3>3. /\ t.max_new = s.max_new /\ t.eos_token_ids = s.eos_token_ids
          /\ t.queue = Append(s.queue, None)
      BY <3>2 DEF Sequence
    <3>. QED BY <3>1, <3>3 DEF Grown
  <2>. QED BY <2>1, <2>2
<1>2. Grown(s, Fail(s))
  <2> DEFINE t == Fail(s)
  <2>1. t \in Sequence /\ t.output_ids = s.output_ids
    BY FailType
  <2>2. /\ t.max_new = s.max_new /\ t.eos_token_ids = s.eos_token_ids
        /\ t.queue = Append(s.queue, None)
    BY DEF Fail, Emit, Sequence
  <2>. QED BY <2>1, <2>2 DEF Grown
<1>3. ASSUME NEW token \in Tokens PROVE Grown(s, AppendToken(s, token))
  <2> DEFINE t == AppendToken(s, token)
             v == Verdict(s, token)
  <2>1. t \in Sequence /\ t.output_ids = Append(s.output_ids, token)
    BY AppendTokenType
  <2>2. /\ t.max_new = s.max_new /\ t.eos_token_ids = s.eos_token_ids
        /\ v = "" => t.queue = Append(s.queue, token)
        /\ v # "" => t.queue = Append(Append(s.queue, token), None)
    BY AppendTokenFields
  <2>. HIDE DEF t, v
  <2>3. \/ t.queue = Append(s.queue, token)
        \/ t.queue = Append(Append(s.queue, token), None)
    BY <2>2
  <2>. QED BY <2>1, <2>2, <2>3 DEF Grown, t
<1>4. Grown(s, s)
  BY DEF Grown
<1>. QED BY <1>1, <1>2, <1>3, <1>4

\* The queue never loses an item.
LEMMA GrownQueue ==
  ASSUME NEW s \in Sequence, NEW t, Grown(s, t)
  PROVE  /\ Len(s.queue) \in Nat /\ Len(t.queue) \in Nat
         /\ Len(s.queue) <= Len(t.queue)
<1>1. s.queue \in Seq(Item) /\ t.queue \in Seq(Item)
  BY DEF Grown, Sequence, Item
<1>2. ASSUME NEW q \in Seq(Item), NEW item
      PROVE  Len(Append(q, item)) = Len(q) + 1 /\ Len(q) \in Nat
  OBVIOUS
<1>3. \/ t.queue = s.queue
      \/ \E item \in Item : \/ t.queue = Append(s.queue, item)
                            \/ t.queue = Append(Append(s.queue, item), None)
  BY NoneIsItem DEF Grown, Item
<1>4. CASE t.queue = s.queue
  <2>1. Len(s.queue) \in Nat
    BY <1>1
  <2>. QED BY <1>4, <2>1
<1>5. ASSUME NEW item \in Item, t.queue = Append(s.queue, item)
      PROVE  Len(s.queue) <= Len(t.queue)
  <2>1. Len(t.queue) = Len(s.queue) + 1 /\ Len(s.queue) \in Nat
    BY <1>1, <1>2, <1>5
  <2>. QED BY <2>1
<1>6. ASSUME NEW item \in Item, t.queue = Append(Append(s.queue, item), None)
      PROVE  Len(s.queue) <= Len(t.queue)
  <2>1. Append(s.queue, item) \in Seq(Item)
    BY <1>1
  <2>2. Len(t.queue) = (Len(s.queue) + 1) + 1 /\ Len(s.queue) \in Nat
    BY <1>1, <1>2, <1>6, <2>1
  <2>. QED BY <2>2
<1>. QED BY <1>1, <1>3, <1>4, <1>5, <1>6
-----------------------------------------------------------------------------
(* Sums *)

\* Induction over the subsets of a finite set: a property of every subset whose
\* proper subsets all have it is a property of them all.  G is the subsets that
\* have it; of those that have not, one would be smallest.
LEMMA SubsetInduction ==
  ASSUME NEW S, IsFiniteSet(S), NEW G,
         \A t \in SUBSET S : (\A u \in SUBSET t : u # t => u \in G) => t \in G
  PROVE  \A t \in SUBSET S : t \in G
<1> DEFINE R == StrictSubsetOrdering(S)
           B == {t \in SUBSET S : t \notin G}
<1>1. IsWellFoundedOn(R, FiniteSubsetsOf(S))
  BY FS_StrictSubsetOrderingWellFounded
<1>2. B \subseteq FiniteSubsetsOf(S)
  BY FS_Subset DEF FiniteSubsetsOf
<1>3. ASSUME B # {} PROVE FALSE
  <2>1. PICK t \in B : \A u \in B : ~ (<<u, t>> \in R)
    <3>. HIDE DEF B, R
    <3>. QED BY <1>1, <1>2, <1>3, WFMin
  <2>2. ASSUME NEW u \in SUBSET t, u # t PROVE u \in G
    <3>1. <<u, t>> \in R
      BY <2>2 DEF StrictSubsetOrdering
    <3>2. u \in SUBSET S
      OBVIOUS
    <3>. QED BY <2>1, <3>1, <3>2
  <2>. QED BY <2>2
<1>. QED BY <1>3

\* The element the folds take out of a set first.
First(s) == CHOOSE x \in s : TRUE

\* g is the recursive function that SumFunction evaluates.
Folded(g, w, S) ==
  g = [s \in SUBSET S |-> IF s = {} THEN 0 ELSE w[First(s)] + g[s \ {First(s)}]]

\* g satisfies its equation on each set of D.
Sums(g, w, D) ==
  \A s \in D : g[s] = IF s = {} THEN 0 ELSE w[First(s)] + g[s \ {First(s)}]

\* Taking out the first leaves fewer.
LEMMA FirstTaken ==
  ASSUME NEW s, IsFiniteSet(s), s # {}
  PROVE  /\ First(s) \in s
         /\ IsFiniteSet(s \ {First(s)})
         /\ Cardinality(s \ {First(s)}) = Cardinality(s) - 1
         /\ Cardinality(s) \in Nat
<1>1. First(s) \in s
  BY DEF First
<1>. QED BY <1>1, FS_RemoveElement, FS_CardinalityType

\* There is such a function on all subsets of a finite set, since there is one on
\* the subsets of each size or less.
LEMMA SumsExist ==
  ASSUME NEW S, IsFiniteSet(S), NEW w \in [S -> Nat]
  PROVE  \E g : Folded(g, w, S)
<1> DEFINE Upto(n) == {s \in SUBSET S : Cardinality(s) <= n}
           c == Cardinality(S)
           Good == {t \in SUBSET S : \E g : Sums(g, w, Upto(Cardinality(t)))}
<1>1. /\ c \in Nat
      /\ \A s \in SUBSET S : IsFiniteSet(s) /\ Cardinality(s) \in Nat /\ Cardinality(s) <= c
  BY FS_Subset, FS_CardinalityType
<1>2. ASSUME NEW t \in SUBSET S, \A u \in SUBSET t : u # t => u \in Good
      PROVE  t \in Good
  <2>1. CASE t = {}
    <3> DEFINE g == [s \in SUBSET S |-> 0]
    <3>1. \A s \in Upto(Cardinality(t)) : s = {}
      BY <1>1, <2>1, FS_EmptySet
    <3>2. Sums(g, w, Upto(Cardinality(t)))
      BY <3>1 DEF Sums
    <3>. QED BY <3>2
  <2>2. CASE t # {}
    <3> DEFINE u == t \ {First(t)}
               n == Cardinality(u)
    <3>1. First(t) \in t /\ n = Cardinality(t) - 1 /\ Cardinality(t) \in Nat
      BY <1>1, <2>2, FirstTaken
    <3>2. u \in Good /\ n \in Nat
      BY <1>1, <1>2, <3>1
    <3>3. PICK g : Sums(g, w, Upto(n))
      BY <3>2
    <3> DEFINE h == [s \in SUBSET S |->
                       IF s = {} THEN 0 ELSE w[First(s)] + g[s \ {First(s)}]]
    <3>. HIDE DEF n, u
    <3>4. \A s \in Upto(n) : h[s] = g[s]
      BY <3>3 DEF Sums
    <3>5. ASSUME NEW s \in Upto(Cardinality(t)), s # {}
          PROVE  s \ {First(s)} \in Upto(n)
      <4>1. /\ Cardinality(s \ {First(s)}) = Cardinality(s) - 1
            /\ Cardinality(s) <= Cardinality(t) /\ Cardinality(s) \in Nat
        BY <1>1, <3>5, FirstTaken
      <4>2. Cardinality(s \ {First(s)}) <= n
        BY <3>1, <4>1
      <4>. QED BY <4>2
    <3>6. \A s \in Upto(Cardinality(t)) :
             h[s] = IF s = {} THEN 0 ELSE w[First(s)] + g[s \ {First(s)}]
      OBVIOUS
    <3>7. Sums(h, w, Upto(Cardinality(t)))
      <4>. HIDE DEF h, Upto
      <4>. QED BY <3>4, <3>5, <3>6 DEF Sums
    <3>. QED BY <3>7
  <2>. QED BY <2>1, <2>2
<1>3. S \in Good
  <2>. HIDE DEF Good
  <2>. QED BY <1>2, SubsetInduction
<1>4. PICK g : Sums(g, w, Upto(c))
  BY <1>3
<1>5. \A s \in SUBSET S : s \in Upto(c)
  BY <1>1
<1> DEFINE h == [s \in SUBSET S |-> IF s = {} THEN 0 ELSE w[First(s)] + g[s \ {First(s)}]]
<1>6. \A s \in SUBSET S : h[s] = g[s]
  BY <1>4, <1>5 DEF Sums
<1>7. Folded(h, w, S)
  <2>1. \A s \in SUBSET S : s \ {First(s)} \in SUBSET S
    OBVIOUS
  <2>2. \A s \in SUBSET S : h[s \ {First(s)}] = g[s \ {First(s)}]
    BY <1>6, <2>1
  <2>. QED BY <2>2 DEF Folded
<1>. QED BY <1>7

\* What there is to know of a sum: g has a number for every subset, nothing for
\* the empty one, and, whichever element is taken out, its summand and the rest.
IsSum(g, w, S) ==
  /\ g \in [SUBSET S -> Nat]
  /\ SumFunction(w) = g[S]
  /\ g[{}] = 0
  /\ \A s \in SUBSET S : \A x \in s : g[s] = w[x] + g[s \ {x}]

\* SumFunction computes one.
LEMMA SumProperties ==
  ASSUME NEW S, IsFiniteSet(S), NEW w \in [S -> Nat]
  PROVE  \E g : IsSum(g, w, S)
<1> DEFINE sum == CHOOSE g : Folded(g, w, S)
<1>1. Folded(sum, w, S)
  BY SumsExist
<1>2. SumFunction(w) = sum[S]
  BY DEF SumFunction, SumFunctionOnSet, FoldFunctionOnSet, MapThenFoldSet, First, Folded
<1>3. /\ DOMAIN sum = SUBSET S /\ sum = [s \in SUBSET S |-> sum[s]]
      /\ \A s \in SUBSET S : sum[s] = IF s = {} THEN 0 ELSE w[First(s)] + sum[s \ {First(s)}]
  <2>. HIDE DEF sum
  <2>. QED BY <1>1 DEF Folded
<1>. HIDE DEF sum
<1>4. \A s \in SUBSET S : IsFiniteSet(s)
  BY FS_Subset
<1>5. \A s \in SUBSET S : s # {} => /\ First(s) \in s /\ w[First(s)] \in Nat
                                    /\ sum[s] = w[First(s)] + sum[s \ {First(s)}]
  BY <1>3, <1>4, FirstTaken
<1>6. sum[{}] = 0
  BY <1>3
<1>7. \A s \in SUBSET S : sum[s] \in Nat
  <2> DEFINE Good == {s \in SUBSET S : sum[s] \in Nat}
  <2>1. ASSUME NEW t \in SUBSET S, \A u \in SUBSET t : u # t => u \in Good
        PROVE  t \in Good
    <3>1. CASE t = {}
      BY <1>6, <3>1
    <3>2. CASE t # {}
      <4>1. t \ {First(t)} \in Good
        BY <1>5, <2>1, <3>2
      <4>. QED BY <1>5, <3>2, <4>1
    <3>. QED BY <3>1, <3>2
  <2>2. \A s \in SUBSET S : s \in Good
    <3>. HIDE DEF Good
    <3>. QED BY <2>1, SubsetInduction
  <2>. QED BY <2>2
<1>8. \A s \in SUBSET S : \A x \in s : sum[s] = w[x] + sum[s \ {x}]
  <2> DEFINE Good == {s \in SUBSET S : \A x \in s : sum[s] = w[x] + sum[s \ {x}]}
  <2>1. ASSUME NEW t \in SUBSET S, \A u \in SUBSET t : u # t => u \in Good
        PROVE  t \in Good
    <3>1. ASSUME NEW x \in t PROVE sum[t] = w[x] + sum[t \ {x}]
      <4>1. PICK f : f = First(t)
        OBVIOUS
      <4>2. f \in t /\ w[f] \in Nat /\ sum[t] = w[f] + sum[t \ {f}] /\ w[x] \in Nat
        BY <1>5, <4>1
      <4>3. CASE x = f
        BY <4>2, <4>3
      <4>4. CASE x # f
        <5>1. t \ {f} \in Good /\ x \in t \ {f} /\ t \ {x} \in Good /\ f \in t \ {x}
          BY <2>1, <4>2, <4>4
        <5>2. /\ sum[t \ {f}] = w[x] + sum[(t \ {f}) \ {x}]
              /\ sum[t \ {x}] = w[f] + sum[(t \ {x}) \ {f}]
          BY <5>1
        <5>3. (t \ {f}) \ {x} = (t \ {x}) \ {f} /\ (t \ {f}) \ {x} \in SUBSET S
          OBVIOUS
        <5>4. PICK rest \in Nat : rest = sum[(t \ {f}) \ {x}]
          BY <1>7, <5>3
        <5>5. sum[t \ {f}] = w[x] + rest /\ sum[t \ {x}] = w[f] + rest
          BY <5>2, <5>3, <5>4
        <5>. QED BY <4>2, <5>5
      <4>. QED BY <4>3, <4>4
    <3>. QED BY <3>1
  <2>2. \A s \in SUBSET S : s \in Good
    <3>. HIDE DEF Good
    <3>. QED BY <2>1, SubsetInduction
  <2>. QED BY <2>2
<1>9. sum \in [SUBSET S -> Nat]
  BY <1>3, <1>7
<1>. QED BY <1>2, <1>6, <1>8, <1>9 DEF IsSum

\* A sum whose summands each grow by no more than d grows by no more than d for
\* each of them.
LEMMA SumGrows ==
  ASSUME NEW S, IsFiniteSet(S), NEW v \in [S -> Nat], NEW w \in [S -> Nat], NEW d \in Nat,
         \A x \in S : w[x] <= v[x] + d
  PROVE  /\ SumFunction(v) \in Nat /\ SumFunction(w) \in Nat
         /\ SumFunction(w) <= SumFunction(v) + Cardinality(S) * d
<1>1. PICK g : IsSum(g, v, S)
  BY SumProperties
<1>2. PICK h : IsSum(h, w, S)
  BY SumProperties
<1> DEFINE Good == {s \in SUBSET S : h[s] <= g[s] + Cardinality(s) * d}
<1>3. ASSUME NEW t \in SUBSET S, \A u \in SUBSET t : u # t => u \in Good
      PROVE  t \in Good
  <2>1. CASE t = {}
    BY <1>1, <1>2, <2>1, FS_EmptySet DEF IsSum
  <2>2. CASE t # {}
    <3>1. PICK x : x = First(t)
      OBVIOUS
    <3>2. PICK u : u = t \ {x}
      OBVIOUS
    <3>3. IsFiniteSet(t)
      BY FS_Subset
    <3>4. PICK n \in Nat : n = Cardinality(u)
      BY <2>2, <3>1, <3>2, <3>3, FirstTaken, FS_CardinalityType
    <3>5. x \in t /\ Cardinality(t) = n + 1
      <4>1. First(t) \in t /\ n = Cardinality(t) - 1 /\ Cardinality(t) \in Nat
        BY <2>2, <3>1, <3>2, <3>3, <3>4, FirstTaken
      <4>. QED BY <3>1, <4>1
    <3>6. u \in SUBSET S /\ h[u] <= g[u] + n * d
      BY <1>3, <3>2, <3>4, <3>5
    <3>7. g[t] = v[x] + g[u] /\ h[t] = w[x] + h[u] /\ w[x] <= v[x] + d
      BY <1>1, <1>2, <3>2, <3>5 DEF IsSum
    <3>8. PICK nd \in Nat : nd = n * d /\ (n + 1) * d = nd + d
      OBVIOUS
    <3>9. v[x] \in Nat /\ w[x] \in Nat /\ g[u] \in Nat /\ h[u] \in Nat
      BY <1>1, <1>2, <3>5, <3>6 DEF IsSum
    <3>10. h[t] <= g[t] + (nd + d)
      BY <3>6, <3>7, <3>8, <3>9
    <3>. QED BY <3>5, <3>8, <3>10
  <2>. QED BY <2>1, <2>2
<1>4. \A s \in SUBSET S : s \in Good
  <2>. HIDE DEF Good
  <2>. QED BY <1>3, SubsetInduction
<1>5. S \in Good
  BY <1>4
<1>. QED BY <1>1, <1>2, <1>5 DEF IsSum

\* v has the values of w at some of its positions, each taken once: f says where.
Selects(v, w, f, T, S) ==
  /\ w \in [S -> Nat] /\ v \in [T -> Nat] /\ f \in [T -> S]
  /\ \A x, y \in T : f[x] = f[y] => x = y
  /\ \A x \in T : v[x] = w[f[x]]

\* A sum over some of the positions is no larger than the sum.
LEMMA SumOfSome ==
  ASSUME NEW S, IsFiniteSet(S), NEW T, IsFiniteSet(T), NEW v, NEW w, NEW f,
         Selects(v, w, f, T, S)
  PROVE  /\ SumFunction(v) \in Nat /\ SumFunction(w) \in Nat
         /\ SumFunction(v) <= SumFunction(w)
<1>0. /\ w \in [S -> Nat] /\ v \in [T -> Nat] /\ f \in [T -> S]
      /\ \A x, y \in T : f[x] = f[y] => x = y
      /\ \A x \in T : v[x] = w[f[x]]
  BY DEF Selects
<1>1. PICK g : IsSum(g, w, S)
  BY <1>0, SumProperties
<1>2. PICK h : IsSum(h, v, T)
  BY <1>0, SumProperties
<1> DEFINE Good == {s \in SUBSET T : \A r \in SUBSET S :
                                       (\A y \in s : f[y] \in r) => h[s] <= g[r]}
<1>3. ASSUME NEW t \in SUBSET T, \A u \in SUBSET t : u # t => u \in Good
      PROVE  t \in Good
  <2>. SUFFICES ASSUME NEW r \in SUBSET S, \A y \in t : f[y] \in r
                PROVE  h[t] <= g[r]
    OBVIOUS
  <2>1. CASE t = {}
    BY <1>1, <1>2, <2>1 DEF IsSum
  <2>2. CASE t # {}
    <3>1. PICK x \in t : TRUE
      BY <2>2
    <3>2. PICK u : u = t \ {x}
      OBVIOUS
    <3>3. PICK q : q = r \ {f[x]}
      OBVIOUS
    <3>4. u \in Good /\ u \in SUBSET T /\ q \in SUBSET S /\ f[x] \in r
      BY <1>0, <1>3, <3>2, <3>3
    <3>5. \A y \in u : f[y] \in q
      BY <1>0, <3>2, <3>3
    <3>6. h[u] <= g[q]
      BY <3>4, <3>5
    <3>7. h[t] = v[x] + h[u] /\ g[r] = w[f[x]] + g[q] /\ v[x] = w[f[x]]
      BY <1>0, <1>1, <1>2, <3>2, <3>3, <3>4 DEF IsSum
    <3>8. v[x] \in Nat /\ h[u] \in Nat /\ g[q] \in Nat
      BY <1>0, <1>1, <1>2, <3>4 DEF IsSum
    <3>. QED BY <3>6, <3>7, <3>8
  <2>. QED BY <2>1, <2>2
<1>4. \A s \in SUBSET T : s \in Good
  <2>. HIDE DEF Good
  <2>. QED BY <1>3, SubsetInduction
<1>5. \A y \in T : f[y] \in S
  BY <1>0
<1>. QED BY <1>1, <1>2, <1>4, <1>5 DEF IsSum

\* An output has a length.
LEMMA OutputLength ==
  ASSUME NEW s \in Sequence
  PROVE  Len(s.output_ids) \in Nat
<1>1. s.output_ids \in Seq(Tokens)
  BY DEF Sequence
<1>. QED BY <1>1

\* The lengths that TotalTokens sums up, one for each position.
LEMMA LengthsOf ==
  ASSUME SchedulerTypeOK, NEW q \in Seq(Ids)
  PROVE  /\ [p \in DOMAIN q |-> SeqLen(seqs[q[p]])] \in [DOMAIN q -> Nat]
         /\ IsFiniteSet(DOMAIN q) /\ Cardinality(DOMAIN q) = Len(q)
<1>1. \A p \in DOMAIN q : SeqLen(seqs[q[p]]) \in Nat
  BY IdsProperties, SeqLenType
<1>2. Len(q) \in Nat /\ DOMAIN q = 1 .. Len(q)
  OBVIOUS
<1>3. IsFiniteSet(1 .. Len(q)) /\ Cardinality(1 .. Len(q)) = Len(q)
  BY <1>2, FS_Interval
<1>. QED BY <1>1, <1>2, <1>3
=============================================================================
