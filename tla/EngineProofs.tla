---------------------------- MODULE EngineProofs -----------------------------
(***************************************************************************)
(* Proofs about Engine, for every value of its constants: what a client is *)
(* told is true and stays true, a client that stays is never told          *)
(* "cancelled", nobody who left is worked for, and the engine implements   *)
(* CompletionService, in which no other client exists.                     *)
(*                                                                         *)
(* All but the last is proved for handlers that decode with either runner  *)
(* at any of their steps, since Gateway replaces it under them.            *)
(***************************************************************************)
EXTENDS Engine, RunLoopProofs

-----------------------------------------------------------------------------
(* What is true of every request and its handler *)

\* What may have been sent for a character that was not complete.
StandIn(char) == char = ReplacementChar /\ PartialIds # {}

\* The text that a runner has for the output of a sequence so far.
TextBy(by, s) == DecodeBy(by, s.output_ids)

\* A text has this character at this place, or one that it stood in for.
Shows(text, k, char) == k <= Len(text) /\ (char = text[k] \/ StandIn(char))

\* Each character that a stream has sent is one of a runner that decoded for it.
Covered(s, c) ==
  \A k \in 1 .. Len(c.text) : \E by \in c.decoders : Shows(TextBy(by, s), k, c.text[k])

\* As many characters were sent as the runner has.
Reaches(by, s, c) == Len(c.text) >= Len(TextBy(by, s))

\* The text of the one runner that decoded was sent, or that of one of two.
Complete(s, c) ==
  /\ \A by \in Runners : c.decoders \subseteq {by} => Reaches(by, s, c)
  /\ \E by \in Runners : Reaches(by, s, c)

Whole(s, c) == Covered(s, c) /\ Complete(s, c)

\* A stream with no token left to read has sent everything.
CaughtUp(s, c) ==
  (\A p \in DOMAIN s.queue : p > c.read => s.queue[p] = None) => Complete(s, c)

\* The one text of a one-shot request.
Answered(by, s, c) == c.decoders = {by} /\ c.text = TextBy(by, s)

\* What a handler has told its client, and what there is still to tell.
Told(s, c) ==
  /\ c.outcome = s.finish_reason
  /\ IF c.stream THEN Whole(s, c) ELSE \E by \in Runners : Answered(by, s, c)

Untold(s, c) ==
  /\ Sentinels(s) <= 1
  /\ IF c.stream THEN Covered(s, c) /\ CaughtUp(s, c) ELSE c.text = <<>>

\* A request and its handler.
Served(s, c) ==
  /\ c.read <= Len(s.queue)
  /\ c.at = "await" <=> c.outcome = "pending"
  /\ c.at = "done" => IsFinished(s)
  /\ s.finish_reason = "cancelled" => c.outcome = "left"
  /\ c.outcome = "pending" => Untold(s, c)
  /\ c.outcome \notin {"pending", "left"} => Told(s, c)

AllServed == \A id \in Ids : Served(seqs[id], calls[id])

-----------------------------------------------------------------------------
(* What runner.decode returns *)

\* A sequence without its elements in A.
Dropping(q, A) == Retain(q, {k \in DOMAIN q : q[k] \notin A})

\* What is left is no longer, and shorter if the last element was dropped.
LEMMA DroppingProperties ==
  ASSUME NEW S, NEW q \in Seq(S), NEW A
  PROVE  /\ Dropping(q, A) \in Seq(S)
         /\ Len(Dropping(q, A)) <= Len(q)
         /\ q # <<>> /\ q[Len(q)] \in A => Len(Dropping(q, A)) + 1 <= Len(q)
<1> DEFINE K == {k \in DOMAIN q : q[k] \notin A}
<1>1. K \in SUBSET (DOMAIN q) /\ Dropping(q, A) = Retain(q, K)
  BY DEF Dropping
<1>2. /\ Retain(q, K) \in Seq(S) /\ Len(Retain(q, K)) = Cardinality(K)
      /\ Cardinality(K) \in 0 .. Len(q)
  <2>. HIDE DEF K
  <2>. QED BY <1>1, RetainProperties
<1>3. ASSUME q # <<>>, q[Len(q)] \in A PROVE Cardinality(K) + 1 <= Len(q)
  <2>1. Len(q) - 1 \in Nat
    BY <1>3
  <2>2. K \in SUBSET (1 .. (Len(q) - 1))
    <3>1. ASSUME NEW k \in K PROVE k \in 1 .. (Len(q) - 1)
      <4>1. k \in 1 .. Len(q) /\ k # Len(q)
        BY <1>3
      <4>. QED BY <4>1
    <3>. QED BY <3>1
  <2>3. Cardinality(K) \in 0 .. (Len(q) - 1)
    <3>. HIDE DEF K
    <3>. QED BY <2>1, <2>2, RankProperties
  <2>. HIDE DEF K
  <2>. QED BY <2>1, <2>3
<1>4. Len(q) \in Nat
  OBVIOUS
<1>. HIDE DEF K
<1>. QED BY <1>1, <1>2, <1>3, <1>4

\* One more element at the end is kept or dropped there.
LEMMA DroppingAppend ==
  ASSUME NEW S, NEW q \in Seq(S), NEW x \in S, NEW A
  PROVE  Dropping(Append(q, x), A)
           = IF x \in A THEN Dropping(q, A) ELSE Append(Dropping(q, A), x)
<1> DEFINE K == {k \in DOMAIN q : q[k] \notin A}
           r == Append(q, x)
           L == {k \in DOMAIN r : r[k] \notin A}
<1>1. /\ Len(q) + 1 \notin DOMAIN q /\ DOMAIN r = DOMAIN q \cup {Len(q) + 1}
      /\ r[Len(q) + 1] = x /\ \A k \in DOMAIN q : r[k] = q[k]
  <2>1. /\ DOMAIN q = 1 .. Len(q) /\ Len(q) \in Nat /\ DOMAIN r = 1 .. (Len(q) + 1)
        /\ r[Len(q) + 1] = x /\ \A k \in 1 .. Len(q) : r[k] = q[k]
    OBVIOUS
  <2>2. 1 .. (Len(q) + 1) = (1 .. Len(q)) \cup {Len(q) + 1}
    BY <2>1
  <2>3. Len(q) + 1 \notin 1 .. Len(q)
    BY <2>1
  <2>. QED BY <2>1, <2>2, <2>3
<1>2. L = IF x \in A THEN K ELSE K \cup {Len(q) + 1}
  BY <1>1
<1>3. K \in SUBSET (DOMAIN q)
  OBVIOUS
<1>4. Dropping(q, A) = Retain(q, K) /\ Dropping(r, A) = Retain(r, L)
  BY DEF Dropping
<1>. HIDE DEF K, L
<1>5. /\ Retain(r, K) = Retain(q, K)
      /\ Retain(r, K \cup {Len(q) + 1}) = Append(Retain(q, K), x)
  BY <1>3, RetainAppend
<1>. QED BY <1>2, <1>4, <1>5

\* decode in terms of what is dropped; ASSUME-free, for any output.
LEMMA DecodeParts ==
  ASSUME NEW out, NEW bytes, NEW chars,
         bytes = Dropping(out, EosIds), chars = Dropping(bytes, PartialIds)
  PROVE  Decode(out) = IF bytes # <<>> /\ bytes[Len(bytes)] \in PartialIds
                       THEN Append(chars, ReplacementChar) ELSE chars
  BY DEF Decode, Dropping

\* The text is made of characters, has at most one per token, and none for a stop
\* token at the end.
LEMMA DecodeType ==
  ASSUME NEW out \in Seq(Tokens)
  PROVE  /\ Decode(out) \in Seq(Chars)
         /\ Len(Decode(out)) \in Nat
         /\ Len(Decode(out)) <= Len(out)
         /\ out # <<>> /\ out[Len(out)] \in EosIds => Len(Decode(out)) < Len(out)
<1> DEFINE bytes == Dropping(out, EosIds)
           chars == Dropping(bytes, PartialIds)
<1>1. /\ bytes \in Seq(Tokens) /\ Len(bytes) <= Len(out)
      /\ out # <<>> /\ out[Len(out)] \in EosIds => Len(bytes) + 1 <= Len(out)
  BY DroppingProperties
<1>2. /\ chars \in Seq(Tokens) /\ Len(chars) <= Len(bytes)
      /\ bytes # <<>> /\ bytes[Len(bytes)] \in PartialIds => Len(chars) + 1 <= Len(bytes)
  <2>. HIDE DEF bytes
  <2>. QED BY <1>1, DroppingProperties
<1>3. Decode(out) = IF bytes # <<>> /\ bytes[Len(bytes)] \in PartialIds
                    THEN Append(chars, ReplacementChar) ELSE chars
  BY DecodeParts
<1>. HIDE DEF bytes, chars
<1>4. chars \in Seq(Chars) /\ ReplacementChar \in Chars
  <2>1. Tokens \subseteq Chars /\ ReplacementChar \in Chars
    BY DEF Chars
  <2>. QED BY <1>2, <2>1, SeqMonotonic
<1>5. /\ Append(chars, ReplacementChar) \in Seq(Chars)
      /\ Len(Append(chars, ReplacementChar)) = Len(chars) + 1
  BY <1>4
<1>6. Len(chars) \in Nat /\ Len(bytes) \in Nat /\ Len(out) \in Nat
  BY <1>1, <1>2
<1>7. Decode(out) \in Seq(Chars) /\ Len(Decode(out)) <= Len(bytes) /\ Len(Decode(out)) \in Nat
  BY <1>2, <1>3, <1>4, <1>5, <1>6
<1>. QED BY <1>1, <1>6, <1>7

\* One more token changes nothing in the text but a character that was not
\* complete, and makes it no shorter.
LEMMA DecodeAppend ==
  ASSUME NEW out \in Seq(Tokens), NEW token \in Tokens
  PROVE  /\ Len(Decode(out)) <= Len(Decode(Append(out, token)))
         /\ \A k \in 1 .. Len(Decode(out)) :
              \/ Decode(Append(out, token))[k] = Decode(out)[k]
              \/ StandIn(Decode(out)[k])
<1> DEFINE bytes == Dropping(out, EosIds)
           chars == Dropping(bytes, PartialIds)
           bytes2 == Dropping(Append(out, token), EosIds)
           chars2 == Dropping(bytes2, PartialIds)
<1>1. bytes \in Seq(Tokens)
  BY DroppingProperties
<1>2. chars \in Seq(Tokens)
  <2>. HIDE DEF bytes
  <2>. QED BY <1>1, DroppingProperties
<1>3. bytes2 = IF token \in EosIds THEN bytes ELSE Append(bytes, token)
  BY DroppingAppend
<1>4. /\ Decode(out) = IF bytes # <<>> /\ bytes[Len(bytes)] \in PartialIds
                       THEN Append(chars, ReplacementChar) ELSE chars
      /\ Decode(Append(out, token))
           = IF bytes2 # <<>> /\ bytes2[Len(bytes2)] \in PartialIds
             THEN Append(chars2, ReplacementChar) ELSE chars2
  BY DecodeParts
<1>5. CASE token \in EosIds
  <2>1. Decode(Append(out, token)) = Decode(out)
    BY <1>3, <1>4, <1>5
  <2>2. Len(Decode(out)) \in Nat
    BY DecodeType
  <2>. QED BY <2>1, <2>2
<1>6. CASE token \notin EosIds
  <2>1. chars2 = IF token \in PartialIds THEN chars ELSE Append(chars, token)
    <3>1. bytes2 = Append(bytes, token)
      BY <1>3, <1>6
    <3>. HIDE DEF bytes
    <3>. QED BY <1>1, <3>1, DroppingAppend
  <2>2. bytes2 # <<>> /\ bytes2[Len(bytes2)] = token
    <3>1. bytes2 = Append(bytes, token)
      BY <1>3, <1>6
    <3>. HIDE DEF bytes, bytes2
    <3>2. Append(bytes, token) # <<>> /\ Append(bytes, token)[Len(Append(bytes, token))] = token
      BY <1>1
    <3>. QED BY <3>1, <3>2
  <2> DEFINE new == IF token \in PartialIds THEN ReplacementChar ELSE token
             D == Decode(out)
             E == Decode(Append(out, token))
  <2>3. E = Append(chars, new)
    BY <1>4, <2>1, <2>2
  <2>4. D = chars \/ (D = Append(chars, ReplacementChar) /\ PartialIds # {})
    BY <1>4
  <2>5. /\ Len(E) = Len(chars) + 1 /\ Len(chars) \in Nat
        /\ \A k \in 1 .. Len(chars) : E[k] = chars[k]
    <3>. HIDE DEF chars, E, new
    <3>. QED BY <1>2, <2>3
  <2>6. CASE D = chars
    <3>. HIDE DEF chars, E, D
    <3>1. Len(D) <= Len(E) /\ \A k \in 1 .. Len(D) : E[k] = D[k]
      BY <2>5, <2>6
    <3>. QED BY <3>1 DEF D, E
  <2>7. CASE D = Append(chars, ReplacementChar) /\ PartialIds # {}
    <3>. HIDE DEF chars, E, D
    <3>1. /\ Len(D) = Len(chars) + 1 /\ D[Len(chars) + 1] = ReplacementChar
          /\ \A k \in 1 .. Len(chars) : D[k] = chars[k]
      BY <1>2, <2>7
    <3>2. \A k \in 1 .. (Len(chars) + 1) : k \in 1 .. Len(chars) \/ k = Len(chars) + 1
      BY <2>5
    <3>3. Len(D) <= Len(E)
      BY <2>5, <3>1
    <3>4. \A k \in 1 .. Len(D) : E[k] = D[k] \/ StandIn(D[k])
      BY <2>5, <2>7, <3>1, <3>2 DEF StandIn
    <3>. QED BY <3>3, <3>4 DEF D, E
  <2>. QED BY <2>4, <2>6, <2>7
<1>. QED BY <1>5, <1>6

\* Nothing generated is no text.
LEMMA DecodeEmpty == Len(Decode(<<>>)) = 0
<1>1. <<>> \in Seq(Tokens) /\ Len(<<>>) = 0
  BY EmptySeq
<1>2. Len(Decode(<<>>)) \in Nat /\ Len(Decode(<<>>)) <= Len(<<>>)
  BY <1>1, DecodeType
<1>. QED BY <1>1, <1>2

\* A remainder.
LEMMA RemainderProperties ==
  ASSUME NEW x \in Nat, NEW w \in Nat, w > 0
  PROVE  x % w \in 0 .. (w - 1)
  OBVIOUS

\* The mock's word has a first character, and all of them are characters.
LEMMA MockWordProperties ==
  /\ MockWord \in Seq(Chars) /\ Len(MockWord) \in Nat /\ Len(MockWord) > 0
  /\ \A k \in 1 .. Len(MockWord) : MockWord[k] \in Chars
<1>1. MockWord \in Seq(Range(MockWord)) /\ MockWord # <<>>
  BY EngineAssumption
<1>2. Range(MockWord) \subseteq Chars
  BY DEF Chars
<1>3. MockWord \in Seq(Chars)
  BY <1>1, <1>2, SeqMonotonic
<1>. QED BY <1>1, <1>3

\* The first m characters of the word over and over.
MockText(m) == [k \in 1 .. m |-> MockWord[((k - 1) % Len(MockWord)) + 1]]

\* They are characters, as many as that.
LEMMA MockTextType ==
  ASSUME NEW m \in Nat
  PROVE  /\ MockText(m) \in Seq(Chars) /\ Len(MockText(m)) = m
         /\ \A k \in 1 .. m : MockText(m)[k] = MockWord[((k - 1) % Len(MockWord)) + 1]
<1>1. ASSUME NEW k \in 1 .. m PROVE MockWord[((k - 1) % Len(MockWord)) + 1] \in Chars
  <2>1. PICK w \in Nat : w = Len(MockWord) /\ w > 0
    BY MockWordProperties
  <2>2. k - 1 \in Nat
    OBVIOUS
  <2>3. (k - 1) % w \in 0 .. (w - 1)
    BY <2>1, <2>2, RemainderProperties
  <2>4. PICK r \in 0 .. (w - 1) : r = (k - 1) % w
    BY <2>3
  <2>5. r + 1 \in 1 .. w
    BY <2>1
  <2>. QED BY <2>1, <2>4, <2>5, MockWordProperties
<1>2. MockText(m) \in [1 .. m -> Chars]
  BY <1>1 DEF MockText
<1>. QED BY <1>2 DEF MockText

\* How long the mock's text of an output is.
LEMMA MockDecode ==
  ASSUME NEW S, NEW out \in Seq(S)
  PROVE  /\ DecodeBy("mock", out) = MockText(Len(out) * Len(MockWord))
         /\ Len(out) * Len(MockWord) \in Nat
<1>1. Len(out) \in Nat /\ Len(MockWord) \in Nat
  BY MockWordProperties
<1>. QED BY <1>1 DEF DecodeBy, MockText

\* The text of either runner is made of characters, and nothing generated is none.
LEMMA DecodeByType ==
  ASSUME NEW by \in Runners, NEW out \in Seq(Tokens)
  PROVE  /\ DecodeBy(by, out) \in Seq(Chars) /\ Len(DecodeBy(by, out)) \in Nat
         /\ out = <<>> => Len(DecodeBy(by, out)) = 0
<1>1. CASE by = "mock"
  <2>1. PICK m \in Nat : DecodeBy(by, out) = MockText(m) /\ m = Len(out) * Len(MockWord)
    BY <1>1, MockDecode
  <2>2. DecodeBy(by, out) \in Seq(Chars) /\ Len(DecodeBy(by, out)) = m
    BY <2>1, MockTextType
  <2>3. ASSUME out = <<>> PROVE m = 0
    <3>1. Len(out) = 0
      BY <2>3
    <3>. QED BY <2>1, <3>1, MockWordProperties
  <2>. QED BY <2>2, <2>3
<1>2. CASE by = "real"
  <2>1. DecodeBy(by, out) = Decode(out)
    BY <1>2 DEF DecodeBy
  <2>. QED BY <2>1, DecodeType, DecodeEmpty
<1>. QED BY <1>1, <1>2 DEF Runners

\* What a runner's text shows, it shows when there is one more token.
LEMMA DecodeByAppend ==
  ASSUME NEW by \in Runners, NEW out \in Seq(Tokens), NEW token \in Tokens,
         NEW k \in Nat, k > 0, NEW char, Shows(DecodeBy(by, out), k, char)
  PROVE  Shows(DecodeBy(by, Append(out, token)), k, char)
<1>1. Append(out, token) \in Seq(Tokens) /\ Len(Append(out, token)) = Len(out) + 1
      /\ Len(out) \in Nat
  OBVIOUS
<1>2. CASE by = "mock"
  <2>1. PICK w \in Nat : w = Len(MockWord)
    BY MockWordProperties
  <2>2. PICK n \in Nat : n = Len(out)
    BY <1>1
  <2>3. PICK m \in Nat : m = n * w /\ DecodeBy(by, out) = MockText(m)
    BY <1>2, <2>1, <2>2, MockDecode
  <2>4. PICK l \in Nat : l = (n + 1) * w /\ DecodeBy(by, Append(out, token)) = MockText(l)
    BY <1>1, <1>2, <2>1, <2>2, MockDecode
  <2>5. m <= l
    <3>1. (n + 1) * w = n * w + w
      OBVIOUS
    <3>. QED BY <2>3, <2>4, <3>1
  <2>6. k <= m
    BY <2>3, MockTextType DEF Shows
  <2>7. k \in 1 .. m /\ k \in 1 .. l
    BY <2>5, <2>6
  <2>8. MockText(l)[k] = MockText(m)[k] /\ Len(MockText(l)) = l
    BY <2>7, MockTextType
  <2>. QED BY <2>3, <2>4, <2>7, <2>8 DEF Shows
<1>3. CASE by = "real"
  <2> DEFINE D == Decode(out)
             E == Decode(Append(out, token))
  <2>1. DecodeBy(by, out) = D /\ DecodeBy(by, Append(out, token)) = E
    BY <1>3 DEF DecodeBy
  <2>2. /\ Len(D) \in Nat /\ Len(E) \in Nat /\ Len(D) <= Len(E)
        /\ \A i \in 1 .. Len(D) : E[i] = D[i] \/ StandIn(D[i])
    BY <1>1, DecodeType, DecodeAppend
  <2>. HIDE DEF D, E
  <2>3. k <= Len(D) /\ (char = D[k] \/ StandIn(char))
    BY <2>1 DEF Shows
  <2>4. k \in 1 .. Len(D) /\ k <= Len(E)
    BY <2>2, <2>3
  <2>. QED BY <2>1, <2>2, <2>3, <2>4 DEF Shows
<1>. QED BY <1>2, <1>3 DEF Runners
-----------------------------------------------------------------------------
(* How the text keeps up with the output *)

\* The runner's text of a sequence.
LEMMA TextByType ==
  ASSUME NEW by \in Runners, NEW s \in Sequence
  PROVE  TextBy(by, s) \in Seq(Chars) /\ Len(TextBy(by, s)) \in Nat
<1>1. s.output_ids \in Seq(Tokens)
  BY DEF Sequence
<1>. QED BY <1>1, DecodeByType DEF TextBy

\* An item in the queue that is None means that there is a verdict, and when only
\* one None was ever put there, that nothing follows it.
LEMMA SentinelRead ==
  ASSUME NEW s \in Sequence, Sound(s), NEW p \in DOMAIN s.queue, s.queue[p] = None
  PROVE  /\ IsFinished(s)
         /\ Sentinels(s) <= 1 => p = Len(s.queue)
<1> DEFINE K == DOMAIN s.queue \ Data(s.queue)
           n == Len(s.queue)
<1>1. s.queue \in Seq(Item)
  BY DEF Sequence, Item
<1>2. n \in Nat /\ DOMAIN s.queue = 1 .. n /\ K \in SUBSET (1 .. n)
  BY <1>1
<1>3. p \in K
  BY DEF Data
<1>4. IsFiniteSet(K) /\ Cardinality(K) \in Nat
  <2>. HIDE DEF K, n
  <2>. QED BY <1>2, RankProperties
<1>5. Sentinels(s) = Cardinality(K)
  BY DEF Sentinels
<1>6. Cardinality(K) # 0
  <2>. HIDE DEF K
  <2>. QED BY <1>3, <1>4, FS_EmptySet
<1>7. IsFinished(s)
  BY <1>5, <1>6 DEF Sound, Streamed
<1>8. ASSUME Sentinels(s) <= 1 PROVE p = n
  <2>1. s.queue # <<>> /\ s.queue[n] = None
    BY <1>7 DEF Sound, Signalled
  <2>2. n \in DOMAIN s.queue
    BY <1>2
  <2>3. n \in K
    BY <2>1, <2>2 DEF Data
  <2>. HIDE DEF K, n
  <2>4. Cardinality(K) <= 1
    BY <1>5, <1>8
  <2>5. CASE p # n
    <3>1. {p, n} \in SUBSET K
      BY <1>3, <2>3
    <3>2. Cardinality({p, n}) <= Cardinality(K)
      BY <1>4, <3>1, FS_Subset
    <3>3. Cardinality({p}) = 1 /\ IsFiniteSet({p}) /\ n \notin {p}
      BY <2>5, FS_Singleton
    <3>4. Cardinality({p} \cup {n}) = Cardinality({p}) + 1
      BY <3>3, FS_AddElement
    <3>5. {p} \cup {n} = {p, n}
      OBVIOUS
    <3>6. Cardinality({p, n}) = 2
      BY <3>3, <3>4, <3>5
    <3>. QED BY <1>4, <2>4, <3>2, <3>6
  <2>. QED BY <2>5
<1>. QED BY <1>7, <1>8

\* A sequence that grows keeps what a stream has sent covered.
LEMMA GrownCovered ==
  ASSUME NEW s \in Sequence, NEW t, Grown(s, t), NEW c \in Call, Covered(s, c)
  PROVE  Covered(t, c)
<1>1. s.output_ids \in Seq(Tokens)
  BY DEF Sequence
<1>2. CASE t.output_ids = s.output_ids
  BY <1>2 DEF Covered, TextBy
<1>3. ASSUME NEW token \in Tokens, t.output_ids = Append(s.output_ids, token)
      PROVE  Covered(t, c)
  <2>. SUFFICES ASSUME NEW k \in 1 .. Len(c.text)
                PROVE  \E by \in c.decoders : Shows(TextBy(by, t), k, c.text[k])
    BY DEF Covered
  <2>1. PICK by \in c.decoders : Shows(TextBy(by, s), k, c.text[k])
    BY DEF Covered
  <2>2. by \in Runners
    BY DEF Call
  <2>3. k \in Nat /\ k > 0
    OBVIOUS
  <2>4. Shows(DecodeBy(by, Append(s.output_ids, token)), k, c.text[k])
    BY <1>1, <2>1, <2>2, <2>3, DecodeByAppend DEF TextBy
  <2>. QED BY <1>3, <2>4 DEF TextBy
<1>. QED BY <1>2, <1>3 DEF Grown

\* A token that arrives is one to read; a sentinel is not.
LEMMA GrownCaughtUp ==
  ASSUME NEW s \in Sequence, NEW t, Grown(s, t), NEW c \in Call, c.read <= Len(s.queue),
         CaughtUp(s, c)
  PROVE  CaughtUp(t, c)
<1> DEFINE q == s.queue
           n == Len(q)
<1>0. q \in Seq(Item) /\ c.read \in Nat
  BY DEF Sequence, Item, Call
<1>1. q \in Seq(Item) /\ n \in Nat /\ c.read \in Nat /\ DOMAIN q = 1 .. n
  <2>. HIDE DEF q
  <2>. QED BY <1>0
<1>2. ASSUME NEW item \in Item, NEW r, r = Append(q, item)
      PROVE  /\ r \in Seq(Item) /\ Len(r) = n + 1
             /\ DOMAIN r = 1 .. (n + 1) /\ r[n + 1] = item
             /\ \A p \in DOMAIN q : p \in DOMAIN r /\ r[p] = q[p]
  <2>. HIDE DEF q
  <2>. QED BY <1>1, <1>2
<1>3. ASSUME NEW token \in Tokens,
             t.queue = Append(q, token) \/ t.queue = Append(Append(q, token), None)
      PROVE  \E p \in DOMAIN t.queue : p > c.read /\ t.queue[p] # None
  <2>1. PICK r : r = Append(q, token)
    OBVIOUS
  <2>2. token \in Item /\ token # None
    BY SchedulerAssumption DEF Item
  <2>3. /\ r \in Seq(Item) /\ DOMAIN r = 1 .. (n + 1) /\ r[n + 1] = token
    BY <1>2, <2>1, <2>2
  <2>4. n + 1 \in DOMAIN t.queue /\ t.queue[n + 1] = token
    <3>1. CASE t.queue = r
      <4>1. n + 1 \in 1 .. (n + 1)
        BY <1>1
      <4>. QED BY <2>3, <3>1, <4>1
    <3>2. CASE t.queue = Append(r, None)
      <4>1. n + 1 \in DOMAIN r /\ n + 1 \in DOMAIN Append(r, None)
            /\ Append(r, None)[n + 1] = r[n + 1]
        <5>. HIDE DEF n
        <5>1. Len(r) = n + 1
          BY <1>1, <2>3
        <5>. QED BY <1>1, <2>3, <5>1
      <4>. QED BY <2>3, <3>2, <4>1
    <3>. QED BY <1>3, <2>1, <3>1, <3>2
  <2>5. n + 1 > c.read
    BY <1>1
  <2>. QED BY <2>2, <2>4, <2>5
<1>4. ASSUME t.output_ids = s.output_ids, t.queue = q \/ t.queue = Append(q, None)
      PROVE  CaughtUp(t, c)
  <2>1. \A p \in DOMAIN q : p \in DOMAIN t.queue /\ t.queue[p] = q[p]
    BY <1>2, <1>4, NoneIsItem
  <2>2. Complete(s, c) => Complete(t, c)
    BY <1>4 DEF Complete, Reaches, TextBy
  <2>. QED BY <1>4, <2>1, <2>2 DEF CaughtUp
<1>5. ASSUME \E p \in DOMAIN t.queue : p > c.read /\ t.queue[p] # None
      PROVE  CaughtUp(t, c)
  BY <1>5 DEF CaughtUp
<1>. QED BY <1>3, <1>4, <1>5 DEF Grown

\* A concatenation, item by item.
LEMMA JoinProperties ==
  ASSUME NEW S, NEW a \in Seq(S), NEW b \in Seq(S)
  PROVE  /\ a \o b \in Seq(S) /\ Len(a \o b) = Len(a) + Len(b)
         /\ \A k \in 1 .. Len(a) + Len(b) :
              (a \o b)[k] = IF k <= Len(a) THEN a[k] ELSE b[k - Len(a)]
  OBVIOUS

\* The part of a text that was not sent yet.
Unsent(text, sent) == SubSeq(text, Len(sent) + 1, Len(text))

\* A text that reaches what one of its decoders has is complete.
LEMMA ReachingIsComplete ==
  ASSUME NEW by \in Runners, NEW s, NEW d, by \in d.decoders, Reaches(by, s, d)
  PROVE  Complete(s, d)
  BY DEF Complete

\* A text of one decoder that is whole is as long as the decoder's.
LEMMA WholeLength ==
  ASSUME NEW by \in Runners, NEW s \in Sequence, NEW c \in Call, Whole(s, c),
         c.decoders \subseteq {by}
  PROVE  Len(c.text) = Len(TextBy(by, s))
<1>1. Len(c.text) \in Nat /\ Len(TextBy(by, s)) \in Nat
  <2>1. c.text \in Seq(Chars)
    BY DEF Call
  <2>. QED BY <2>1, TextByType
<1>2. Len(c.text) >= Len(TextBy(by, s))
  BY DEF Whole, Complete, Reaches
<1>3. ASSUME Len(c.text) # 0 PROVE Len(c.text) <= Len(TextBy(by, s))
  <2>1. PICK n \in Nat : n = Len(c.text)
    BY <1>1
  <2>2. n \in 1 .. n
    BY <1>3, <2>1
  <2>3. \E x \in c.decoders : Shows(TextBy(x, s), n, c.text[n])
    BY <2>1, <2>2 DEF Whole, Covered
  <2>. QED BY <2>1, <2>3 DEF Shows
<1>. QED BY <1>1, <1>2, <1>3

\* What GetToken sends is what is new to its runner, and then everything was sent.
LEMMA PieceSent ==
  ASSUME NEW s \in Sequence, NEW c \in Call, Covered(s, c), NEW by \in Runners,
         NEW text, text = TextBy(by, s), Len(text) > Len(c.text),
         NEW d, d.text = c.text \o Unsent(text, c.text), d.decoders = c.decoders \cup {by}
  PROVE  d.text \in Seq(Chars) /\ Whole(s, d)
<1> DEFINE old == c.text
           n == Len(old)
           piece == Unsent(text, old)
<1>1. old \in Seq(Chars) /\ n \in Nat
  <2>1. old \in Seq(Chars)
    BY DEF Call
  <2>. QED BY <2>1
<1>2. text \in Seq(Chars) /\ Len(text) \in Nat
  BY TextByType
<1>4. d.text = old \o piece
  OBVIOUS
<1>5. Len(text) > n
  OBVIOUS
<1>6. n \in 0 .. Len(text)
  BY <1>1, <1>2, <1>5
<1>7. /\ piece \in Seq(Chars) /\ Len(piece) = Len(text) - n
      /\ \A i \in 1 .. Len(text) - n : piece[i] = text[n + i]
  <2>. HIDE DEF old
  <2>. QED BY <1>2, <1>6, SplitProperties DEF Unsent, n
<1>. HIDE DEF old, n, piece
<1>8. /\ old \o piece \in Seq(Chars) /\ Len(old \o piece) = Len(old) + Len(piece)
      /\ \A k \in 1 .. Len(old) + Len(piece) :
           (old \o piece)[k] = IF k <= Len(old) THEN old[k] ELSE piece[k - Len(old)]
  <2>1. old \in Seq(Chars) /\ piece \in Seq(Chars)
    BY <1>1, <1>7
  <2>. QED BY ONLY <2>1, JoinProperties
<1>9. Len(old) + Len(piece) = Len(text) /\ Len(old \o piece) = Len(text)
  <2>1. n + (Len(text) - n) = Len(text)
    BY <1>1, <1>2
  <2>. QED BY <1>7, <1>8, <2>1 DEF n
<1>10. ASSUME NEW k \in 1 .. Len(text)
       PROVE  \E x \in d.decoders : Shows(TextBy(x, s), k, d.text[k])
  <2>0. k \in 1 .. Len(old) + Len(piece)
    BY <1>9
  <2>1. CASE k <= n
    <3>1. k \in 1 .. n
      BY <1>1, <1>2, <2>1
    <3>2. (old \o piece)[k] = old[k]
      BY <1>8, <2>0, <2>1 DEF n
    <3>3. PICK x \in c.decoders : Shows(TextBy(x, s), k, old[k])
      BY <3>1 DEF Covered, n, old
    <3>. QED BY <1>4, <3>2, <3>3
  <2>2. CASE ~(k <= n)
    <3>1. k - n \in 1 .. Len(text) - n /\ n + (k - n) = k /\ k <= Len(text)
      BY <1>1, <1>2, <2>2
    <3>2. (old \o piece)[k] = piece[k - n]
      BY <1>8, <2>0, <2>2 DEF n
    <3>3. (old \o piece)[k] = text[k]
      BY <1>7, <3>1, <3>2
    <3>4. Shows(TextBy(by, s), k, d.text[k])
      BY <1>4, <3>1, <3>3 DEF Shows
    <3>. QED BY <3>4
  <2>. QED BY <2>1, <2>2
<1>11. Covered(s, d)
  BY <1>4, <1>9, <1>10 DEF Covered
<1>12. Reaches(by, s, d)
  BY <1>2, <1>4, <1>9 DEF Reaches
<1>. QED BY <1>4, <1>8, <1>11, <1>12, ReachingIsComplete DEF Whole

\* Sending nothing adds nothing.
LEMMA EmptyIsNeutral == ASSUME NEW S, NEW u \in Seq(S) PROVE u \o <<>> = u
  OBVIOUS

\* Nor does sending after nothing.
LEMMA EmptyIsNeutralToo == ASSUME NEW S, NEW u \in Seq(S) PROVE <<>> \o u = u
  OBVIOUS

\* If nothing is new to its runner, everything was sent before.
LEMMA NothingNew ==
  ASSUME NEW s \in Sequence, NEW c \in Call, Covered(s, c), NEW by \in Runners,
         NEW text, text = TextBy(by, s), ~(Len(text) > Len(c.text)),
         NEW d, d.text = c.text, d.decoders = c.decoders \cup {by}
  PROVE  d.text \in Seq(Chars) /\ Whole(s, d)
<1>1. c.text \in Seq(Chars)
  BY DEF Call
<1>2. Len(c.text) \in Nat /\ Len(text) \in Nat
  BY <1>1, TextByType
<1>3. Reaches(by, s, d)
  BY <1>2 DEF Reaches
<1>4. Covered(s, d)
  BY DEF Covered
<1>. QED BY <1>1, <1>3, <1>4, ReachingIsComplete DEF Whole
-----------------------------------------------------------------------------
(* Each handler serves its client *)

\* An outcome that was told is a verdict.
LEMMA OutcomeIsVerdict ==
  ASSUME NEW s, NEW c \in Call, Served(s, c), c.outcome # "pending", c.outcome # "left"
  PROVE  /\ c.outcome = s.finish_reason /\ c.outcome \in FinishReasons /\ IsFinished(s)
         /\ s.finish_reason # "cancelled"
<1>1. c.outcome = s.finish_reason
  BY DEF Served, Told
<1>2. c.outcome \in FinishReasons
  BY DEF Call
<1>3. c.outcome # ""
  BY <1>2 DEF FinishReasons
<1>4. s.finish_reason # "cancelled"
  BY DEF Served
<1>. QED BY <1>1, <1>2, <1>3, <1>4 DEF IsFinished

\* A request just submitted: nothing read, nothing sent, nothing told.
LEMMA NewServed ==
  ASSUME NEW p \in Nat, NEW m \in Nat, NEW eos \in SUBSET Tokens,
         NEW s, \/ m > 0 /\ s = NewSequence(p, m, eos)
                \/ m <= 0 /\ s = Emit([NewSequence(p, m, eos) EXCEPT !.finish_reason = "length"], None),
         NEW stream \in BOOLEAN,
         NEW c, c = [stream |-> stream, at |-> "await", read |-> 0, text |-> <<>>,
                     decoders |-> {}, outcome |-> "pending"]
  PROVE  c \in Call /\ Served(s, c)
<1>1. s \in Sequence /\ Sound(s)
  BY NewSequenceType, NewSound
<1>2. /\ s.output_ids = <<>>
      /\ s.queue = <<>> \/ s.queue = Append(<<>>, None)
      /\ s.finish_reason = "" \/ s.finish_reason = "length"
  <2> DEFINE new == NewSequence(p, m, eos)
             end == Emit([new EXCEPT !.finish_reason = "length"], None)
  <2>1. new.output_ids = <<>> /\ new.queue = <<>> /\ new.finish_reason = ""
    BY DEF NewSequence
  <2>2. end.output_ids = <<>> /\ end.queue = Append(<<>>, None) /\ end.finish_reason = "length"
    BY DEF NewSequence, Emit
  <2>3. s = new \/ s = end
    OBVIOUS
  <2>. HIDE DEF new, end
  <2>. QED BY <2>1, <2>2, <2>3
<1>3. /\ c.stream = stream /\ c.at = "await" /\ c.read = 0 /\ c.text = <<>>
      /\ c.decoders = {} /\ c.outcome = "pending"
  OBVIOUS
<1>4. c \in Call
  <2>1. <<>> \in Seq(Chars) /\ 0 \in Nat
    BY EmptySeq
  <2>. QED BY <2>1 DEF Call
<1>5. c.read <= Len(s.queue)
  <2>1. s.queue \in Seq(Item)
    BY <1>1 DEF Sequence, Item
  <2>2. Len(s.queue) \in Nat
    BY <2>1
  <2>. QED BY <1>3, <2>2
<1>6. Sentinels(s) <= 1
  <2> DEFINE q == s.queue
             K == DOMAIN q \ Data(q)
  <2>1. \E n \in {0, 1} : DOMAIN q = 1 .. n
    <3>1. DOMAIN <<>> = 1 .. 0 /\ DOMAIN Append(<<>>, None) = 1 .. 1
      OBVIOUS
    <3>. QED BY <1>2, <3>1
  <2>2. PICK n \in {0, 1} : K \in SUBSET (1 .. n)
    BY <2>1
  <2>. HIDE DEF K
  <2>3. n \in Nat
    OBVIOUS
  <2>4. Cardinality(K) \in 0 .. n
    BY <2>2, <2>3, RankProperties
  <2>5. Cardinality(K) <= 1
    BY <2>4
  <2>. QED BY <2>5 DEF Sentinels, K
<1>7. Len(c.text) = 0 /\ \A by \in Runners : Len(TextBy(by, s)) = 0
  <2>1. Len(<<>>) = 0 /\ <<>> \in Seq(Tokens)
    BY EmptySeq
  <2>. QED BY <1>2, <1>3, <2>1, DecodeByType DEF TextBy
<1>8. Covered(s, c) /\ CaughtUp(s, c)
  <2>1. \A k \in 1 .. Len(c.text) : FALSE
    BY <1>7
  <2>2. \A by \in Runners : Reaches(by, s, c)
    BY <1>7 DEF Reaches
  <2>. QED BY <2>1, <2>2 DEF Covered, CaughtUp, Complete, Runners
<1>9. Untold(s, c)
  BY <1>3, <1>6, <1>8 DEF Untold
<1>10. c.at # "done" /\ s.finish_reason # "cancelled"
  BY <1>2, <1>3
<1>. QED BY <1>3, <1>4, <1>5, <1>9, <1>10 DEF Served

\* The loop gets on with a request that has no verdict.
LEMMA GrownServed ==
  ASSUME NEW s \in Sequence, ~IsFinished(s), NEW c \in Call, Served(s, c),
         NEW t, Grown(s, t), t.finish_reason # "cancelled", Sentinels(t) <= 1
  PROVE  Served(t, c)
<1>1. c.read <= Len(t.queue)
  <2>1. Len(s.queue) \in Nat /\ Len(t.queue) \in Nat /\ Len(s.queue) <= Len(t.queue)
    BY GrownQueue
  <2>2. c.read \in Nat /\ c.read <= Len(s.queue)
    BY DEF Served, Call
  <2>. QED BY <2>1, <2>2
<1>2. c.outcome \in {"pending", "left"}
  BY OutcomeIsVerdict
<1>3. ASSUME c.outcome = "pending" PROVE Untold(t, c)
  <2>1. Untold(s, c) /\ c.read <= Len(s.queue)
    BY <1>3 DEF Served
  <2>2. CASE c.stream
    BY <2>1, <2>2, GrownCovered, GrownCaughtUp DEF Untold
  <2>3. CASE ~c.stream
    BY <2>1, <2>3 DEF Untold
  <2>. QED BY <2>2, <2>3
<1>4. (c.at = "await" <=> c.outcome = "pending") /\ c.at # "done"
  BY DEF Served
<1>. QED BY <1>1, <1>2, <1>3, <1>4 DEF Served

\* It serves every client it touches: those that were told already, those that
\* left, and those that wait.
LEMMA LoopServed ==
  ASSUME LoopInv, NEW id \in Ids, LoopTouched(id), NEW c \in Call, Served(seqs[id], c)
  PROVE  Served(seqs'[id], c)
<1>1. seqs[id] \in Sequence
  BY IdsProperties DEF LoopInv, TypeOK
<1>2. Grown(seqs[id], seqs'[id])
  BY TouchedGrown DEF LoopInv, Touched
<1>3. CASE ~IsFinished(seqs[id])
  <2>1. seqs'[id].finish_reason # "cancelled" /\ Sentinels(seqs'[id]) <= 1
    BY <1>3, LoopOnUnfinished DEF LoopInv
  <2>. QED BY <1>1, <1>2, <1>3, <2>1, GrownServed
<1>4. CASE IsFinished(seqs[id]) /\ seqs[id].finish_reason # "cancelled"
  <2>1. seqs'[id] = seqs[id]
    BY <1>4, LoopLeaves DEF LoopInv
  <2>. QED BY <2>1
<1>5. CASE IsFinished(seqs[id]) /\ seqs[id].finish_reason = "cancelled"
  <2>1. c.outcome = "left" /\ c.at # "await"
    BY <1>5 DEF Served
  <2>2. IsFinished(seqs'[id])
    BY <1>5, TouchedUnfinished DEF LoopInv, Touched
  <2>3. c.read <= Len(seqs'[id].queue)
    <3>1. /\ Len(seqs[id].queue) \in Nat /\ Len(seqs'[id].queue) \in Nat
          /\ Len(seqs[id].queue) <= Len(seqs'[id].queue)
      BY <1>1, <1>2, GrownQueue
    <3>2. c.read \in Nat /\ c.read <= Len(seqs[id].queue)
      BY DEF Served, Call
    <3>. QED BY <3>1, <3>2
  <2>. QED BY <2>1, <2>2, <2>3 DEF Served
<1>. QED BY <1>3, <1>4, <1>5

\* The item a handler takes from its queue.
ItemAt(s, c) == s.queue[c.read + 1]

\* There is one to take.
LEMMA ItemProperties ==
  ASSUME NEW s \in Sequence, NEW c \in Call, c.read < Len(s.queue)
  PROVE  c.read + 1 \in Nat /\ c.read + 1 \in DOMAIN s.queue /\ c.read + 1 <= Len(s.queue)
<1>1. s.queue \in Seq(Item)
  BY DEF Sequence, Item
<1>2. Len(s.queue) \in Nat /\ DOMAIN s.queue = 1 .. Len(s.queue)
  BY <1>1
<1>3. c.read \in Nat
  BY DEF Call
<1>. QED BY <1>2, <1>3

\* GetToken: a stream has sent everything after it, generate sends nothing.
LEMMA TokenServed ==
  ASSUME NEW s \in Sequence, NEW c \in Call, Served(s, c), c.at = "await",
         c.read < Len(s.queue),
         NEW sent \in Seq(Chars), NEW decoders \in SUBSET Runners,
         NEW d, d = [c EXCEPT !.read = c.read + 1, !.text = sent, !.decoders = decoders],
         c.stream => Whole(s, d),
         ~c.stream => sent = c.text
  PROVE  d \in Call /\ Served(s, d)
<1>1. c.read + 1 \in Nat /\ c.read + 1 <= Len(s.queue)
  BY ItemProperties
<1>2. c.outcome = "pending" /\ Untold(s, c)
  BY DEF Served
<1>3. /\ d.read = c.read + 1 /\ d.text = sent /\ d.stream = c.stream
      /\ d.at = c.at /\ d.outcome = c.outcome
  BY DEF Call
<1>4. d \in Call
  BY <1>1, <1>3 DEF Call
<1>5. CASE c.stream
  <2>1. Covered(s, d) /\ CaughtUp(s, d)
    BY <1>5 DEF Whole, CaughtUp
  <2>. QED BY <1>1, <1>2, <1>3, <1>4, <1>5, <2>1 DEF Served, Untold
<1>6. CASE ~c.stream
  BY <1>1, <1>2, <1>3, <1>4, <1>6 DEF Served, Untold
<1>. QED BY <1>5, <1>6

\* A handler that reads the sentinel finds a verdict, and not "cancelled"; if it
\* is a stream's, everything was sent.
LEMMA EndServed ==
  ASSUME NEW s \in Sequence, Sound(s), NEW c \in Call, Served(s, c), c.at = "await",
         c.read < Len(s.queue), ItemAt(s, c) = None
  PROVE  /\ IsFinished(s) /\ s.finish_reason \in FinishReasons \ {"cancelled"}
         /\ c.stream => Whole(s, c)
<1>1. c.read + 1 \in DOMAIN s.queue
  BY ItemProperties
<1>2. c.outcome = "pending" /\ Untold(s, c) /\ s.finish_reason # "cancelled"
  BY DEF Served
<1>3. IsFinished(s) /\ c.read + 1 = Len(s.queue)
  BY <1>1, <1>2, SentinelRead DEF ItemAt, Untold
<1>4. s.finish_reason \in FinishReasons \ {"cancelled"}
  BY <1>2, <1>3 DEF IsFinished, Sequence
<1>5. ASSUME NEW p \in DOMAIN s.queue, p > c.read PROVE s.queue[p] = None
  <2>1. s.queue \in Seq(Item) /\ c.read \in Nat
    BY DEF Sequence, Item, Call
  <2>2. p \in Nat /\ p <= Len(s.queue) /\ Len(s.queue) \in Nat
    BY <2>1
  <2>3. p = c.read + 1
    BY <1>3, <1>5, <2>1, <2>2
  <2>. QED BY <2>3 DEF ItemAt
<1>. QED BY <1>2, <1>3, <1>4, <1>5 DEF Untold, CaughtUp, Whole

\* ReturnCompletion, whose cancel finds a verdict and does nothing.
LEMMA CompletionServed ==
  ASSUME NEW s \in Sequence, Sound(s), NEW c \in Call, Served(s, c), c.at = "await",
         c.read < Len(s.queue), ItemAt(s, c) = None, ~c.stream, NEW by \in Runners,
         NEW d, d = [c EXCEPT !.read = c.read + 1, !.at = "done", !.text = TextBy(by, s),
                              !.decoders = {by}, !.outcome = s.finish_reason]
  PROVE  d \in Call /\ Served(s, d)
<1>1. c.read + 1 \in Nat /\ c.read + 1 <= Len(s.queue)
  BY ItemProperties
<1>2. IsFinished(s) /\ s.finish_reason \in FinishReasons \ {"cancelled"}
  BY EndServed
<1>3. /\ d.read = c.read + 1 /\ d.text = TextBy(by, s) /\ d.stream = c.stream
      /\ d.decoders = {by} /\ d.at = "done" /\ d.outcome = s.finish_reason
  BY DEF Call
<1>4. TextBy(by, s) \in Seq(Chars) /\ {by} \in SUBSET Runners
  BY TextByType
<1>5. d \in Call
  BY <1>1, <1>2, <1>4 DEF Call
<1>6. d.outcome # "pending" /\ d.outcome # "left"
  BY <1>2, <1>3 DEF FinishReasons
<1>. QED BY <1>1, <1>2, <1>3, <1>5, <1>6 DEF Served, Told, Answered

\* YieldTerminal.
LEMMA TerminalServed ==
  ASSUME NEW s \in Sequence, Sound(s), NEW c \in Call, Served(s, c), c.at = "await",
         c.read < Len(s.queue), ItemAt(s, c) = None, c.stream,
         NEW d, d = [c EXCEPT !.read = c.read + 1, !.at = "closing",
                              !.outcome = s.finish_reason]
  PROVE  d \in Call /\ Served(s, d)
<1>1. c.read + 1 \in Nat /\ c.read + 1 <= Len(s.queue)
  BY ItemProperties
<1>2. /\ IsFinished(s) /\ s.finish_reason \in FinishReasons \ {"cancelled"}
      /\ Whole(s, c)
  BY EndServed
<1>3. /\ d.read = c.read + 1 /\ d.text = c.text /\ d.stream = c.stream
      /\ d.decoders = c.decoders /\ d.at = "closing" /\ d.outcome = s.finish_reason
  BY DEF Call
<1>5. d \in Call
  BY <1>1, <1>2 DEF Call
<1>6. d.outcome # "pending" /\ d.outcome # "left"
  BY <1>2, <1>3 DEF FinishReasons
<1>7. Whole(s, d)
  BY <1>2, <1>3 DEF Whole, Covered, Complete, Reaches
<1>. QED BY <1>1, <1>2, <1>3, <1>5, <1>6, <1>7 DEF Served, Told

\* HangUp.
LEMMA HangUpServed ==
  ASSUME NEW s, NEW c \in Call, Served(s, c),
         NEW d, d = [c EXCEPT !.at = "closing", !.outcome = "left"]
  PROVE  d \in Call /\ Served(s, d)
<1>1. d \in Call /\ d.at = "closing" /\ d.outcome = "left" /\ d.read = c.read
  BY DEF Call
<1>. QED BY <1>1 DEF Served

\* Finally: it cancels the request of a client that left, and finds the verdict
\* of one that stayed.
LEMMA FinallyServed ==
  ASSUME NEW s \in Sequence, Sound(s), NEW c \in Call, Served(s, c), c.at = "closing",
         NEW t, t = GiveUp(s, "cancelled"),
         NEW d, d = [c EXCEPT !.at = "done"]
  PROVE  d \in Call /\ Served(t, d)
<1>1. /\ d \in Call /\ d.at = "done" /\ d.outcome = c.outcome /\ d.read = c.read
      /\ d.text = c.text /\ d.stream = c.stream /\ d.decoders = c.decoders
  BY DEF Call
<1>2. c.outcome # "pending"
  BY DEF Served
<1>3. CASE IsFinished(s)
  <2>1. t = s
    BY <1>3 DEF GiveUp
  <2>2. Told(s, c) => Told(s, d)
    BY <1>1 DEF Told, Whole, Covered, Complete, Reaches, Answered
  <2>. QED BY <1>1, <1>2, <1>3, <2>1, <2>2 DEF Served
<1>4. CASE ~IsFinished(s)
  <2>1. c.outcome = "left"
    BY <1>2, <1>4, OutcomeIsVerdict
  <2>2. "cancelled" \in FinishReasons
    BY DEF FinishReasons
  <2>3. IsFinished(t) /\ Grown(s, t)
    BY <2>2, GiveUpType, MethodsGrow
  <2>4. c.read <= Len(t.queue)
    <3>1. Len(s.queue) \in Nat /\ Len(t.queue) \in Nat /\ Len(s.queue) <= Len(t.queue)
      BY <2>3, GrownQueue
    <3>2. c.read \in Nat /\ c.read <= Len(s.queue)
      BY DEF Served, Call
    <3>. QED BY <3>1, <3>2
  <2>. QED BY <1>1, <2>1, <2>3, <2>4 DEF Served
<1>. QED BY <1>3, <1>4
-----------------------------------------------------------------------------
(* Every step serves every client *)

\* Every step that any module of the project lets this module's variables take:
\* those of EngineNext, requests with other stop tokens, handlers that decode with
\* the other runner, and what AnyLoopStep adds to the loop's own steps.
AnyEngineStep ==
  \/ \E stream \in BOOLEAN, eos \in SUBSET Tokens : Start(stream, eos)
  \/ \E id \in Ids, by \in Runners : HandlerStep(id, by) \/ HangUp(id)
  \/ AnyLoopStep /\ UNCHANGED calls

\* The steps of EngineNext are among them.
LEMMA EngineNextIsAnyStep == [EngineNext]_engineVars => [AnyEngineStep]_engineVars
  BY RunLoopAssumption DEF EngineNext, AnyEngineStep, AnyLoopStep, Runners

\* The invariant: what the loop guarantees, and a handler for every request that
\* serves its client.
EngineInv ==
  /\ LoopInv
  /\ calls \in Seq(Call)
  /\ Len(calls) = Len(seqs)
  /\ AllServed

\* What it says of one request.
LEMMA EngineInvAt ==
  ASSUME EngineInv, NEW id \in Ids
  PROVE  /\ seqs[id] \in Sequence /\ Sound(seqs[id])
         /\ calls[id] \in Call /\ Served(seqs[id], calls[id])
<1>1. seqs[id] \in Sequence /\ Sound(seqs[id])
  BY IdsProperties DEF EngineInv, LoopInv, TypeOK, AllSound
<1>2. id \in DOMAIN calls
  BY DEF EngineInv, Ids, LoopInv, TypeOK, SchedulerTypeOK
<1>. QED BY <1>1, <1>2 DEF EngineInv, AllServed

\* To the loop, a handler is one of the clients of RunLoop.
LEMMA EngineStepIsLoopStep ==
  ASSUME [AnyEngineStep]_engineVars
  PROVE  [AnyStep]_vars
<1>1. ASSUME NEW id \in Ids, NEW by \in Runners, HandlerStep(id, by) \/ HangUp(id)
      PROVE  [AnyStep]_vars
  <2>1. CASE ReturnCompletion(id, by)
    BY <2>1 DEF ReturnCompletion, Awaiting, AnyStep, Cancel
  <2>2. CASE Finally(id)
    BY <2>2 DEF Finally, AnyStep
  <2>3. CASE GetToken(id, by) \/ YieldTerminal(id) \/ HangUp(id)
    BY <2>3 DEF GetToken, YieldTerminal, HangUp
  <2>. QED BY <1>1, <2>1, <2>2, <2>3 DEF HandlerStep
<1>2. ASSUME NEW stream \in BOOLEAN, NEW eos \in SUBSET Tokens, Start(stream, eos)
      PROVE  AnyStep
  BY <1>2 DEF Start, AnyStep
<1>. QED BY <1>1, <1>2 DEF AnyEngineStep, AnyStep, engineVars

\* The call that a handler leaves behind.
HandlerServes(id) ==
  \E d \in Call : calls' = [calls EXCEPT ![id] = d] /\ Served(seqs'[id], d)

\* GetToken leaves its client served.
LEMMA GetTokenServes ==
  ASSUME EngineInv, NEW id \in Ids, NEW by \in Runners, GetToken(id, by)
  PROVE  HandlerServes(id)
<1> DEFINE s == seqs[id]
           c == calls[id]
           text == TextBy(by, s)
           piece == IF c.stream /\ Len(text) > Len(c.text)
                    THEN SubSeq(text, Len(c.text) + 1, Len(text)) ELSE <<>>
           sent == c.text \o piece
           decoders == Decoders(id, by)
           d == [c EXCEPT !.read = c.read + 1, !.text = sent, !.decoders = decoders]
<1>1. s \in Sequence /\ c \in Call /\ Served(s, c)
  BY EngineInvAt
<1>2. c.at = "await" /\ c.read < Len(s.queue) /\ seqs'[id] = s
  BY DEF GetToken, Awaiting, vars, schedVars
<1>3. calls' = [calls EXCEPT ![id].read = c.read + 1, ![id].text = sent,
                             ![id].decoders = decoders]
  BY DEF GetToken, TextBy
<1>4. calls' = [calls EXCEPT ![id] = d]
  BY <1>3
<1>5. c.stream => Covered(s, c)
  BY <1>1, <1>2 DEF Served, Untold
<1>6. d.text = sent /\ d.decoders = decoders
  BY <1>1 DEF Call
<1>7. decoders \in SUBSET Runners /\ (c.stream => decoders = c.decoders \cup {by})
  BY <1>1 DEF Decoders, Call
<1>8. c.text \in Seq(Chars)
  BY <1>1 DEF Call
<1>9. CASE c.stream /\ Len(text) > Len(c.text)
  <2>1. d.text = c.text \o Unsent(text, c.text) /\ d.decoders = c.decoders \cup {by}
    BY <1>6, <1>7, <1>9 DEF Unsent
  <2>. HIDE DEF sent, d, s, c, decoders, text
  <2>2. d.text \in Seq(Chars) /\ Whole(s, d)
    BY <1>1, <1>5, <1>9, <2>1, PieceSent DEF text
  <2>3. d \in Call /\ Served(s, d)
    BY <1>1, <1>2, <1>6, <1>7, <1>9, <2>2, TokenServed DEF d
  <2>. QED BY <1>2, <1>4, <2>3 DEF HandlerServes
<1>10. CASE ~(c.stream /\ Len(text) > Len(c.text))
  <2>1. sent = c.text
    <3>1. piece = <<>>
      BY <1>10
    <3>. HIDE DEF c, piece
    <3>. QED BY <1>8, <3>1, EmptyIsNeutral
  <2>. HIDE DEF sent, d, s, c, decoders, text
  <2>2. c.stream => Whole(s, d)
    BY <1>1, <1>5, <1>6, <1>7, <1>10, <2>1, NothingNew DEF text
  <2>3. d \in Call /\ Served(s, d)
    BY <1>1, <1>2, <1>7, <1>8, <2>1, <2>2, TokenServed DEF d
  <2>. QED BY <1>2, <1>4, <2>3 DEF HandlerServes
<1>. QED BY <1>9, <1>10

\* ReturnCompletion tells its client the verdict; the cancel before it is late.
LEMMA ReturnCompletionServes ==
  ASSUME EngineInv, NEW id \in Ids, NEW by \in Runners, ReturnCompletion(id, by)
  PROVE  HandlerServes(id) /\ seqs'[id] = seqs[id]
<1> DEFINE s == seqs[id]
           c == calls[id]
           d == [c EXCEPT !.read = c.read + 1, !.at = "done", !.text = TextBy(by, s),
                          !.decoders = {by}, !.outcome = s.finish_reason]
<1>1. s \in Sequence /\ Sound(s) /\ c \in Call /\ Served(s, c)
  BY EngineInvAt
<1>2. c.at = "await" /\ c.read < Len(s.queue) /\ ItemAt(s, c) = None /\ ~c.stream
  BY DEF ReturnCompletion, Awaiting, ItemAt
<1>3. seqs'[id] = s
  <2>1. seqs'[id] = GiveUp(s, "cancelled")
    BY AbortSequences DEF ReturnCompletion, EngineInv, LoopInv, TypeOK
  <2>2. IsFinished(s)
    BY <1>1, <1>2, EndServed
  <2>. QED BY <2>1, <2>2 DEF GiveUp
<1>4. calls' = [calls EXCEPT ![id] = d]
  BY <1>3 DEF ReturnCompletion, TextBy
<1>. HIDE DEF s, c
<1>5. d \in Call /\ Served(s, d)
  BY <1>1, <1>2, CompletionServed
<1>. QED BY <1>3, <1>4, <1>5 DEF HandlerServes, s

\* YieldTerminal tells its client the verdict.
LEMMA YieldTerminalServes ==
  ASSUME EngineInv, NEW id \in Ids, YieldTerminal(id)
  PROVE  HandlerServes(id)
<1> DEFINE s == seqs[id]
           c == calls[id]
           d == [c EXCEPT !.read = c.read + 1, !.at = "closing", !.outcome = s.finish_reason]
<1>1. s \in Sequence /\ Sound(s) /\ c \in Call /\ Served(s, c)
  BY EngineInvAt
<1>2. c.at = "await" /\ c.read < Len(s.queue) /\ ItemAt(s, c) = None /\ c.stream
  BY DEF YieldTerminal, Awaiting, ItemAt
<1>3. seqs'[id] = s
  BY DEF YieldTerminal, vars, schedVars
<1>4. calls' = [calls EXCEPT ![id] = d]
  BY DEF YieldTerminal
<1>. HIDE DEF s, c
<1>5. d \in Call /\ Served(s, d)
  BY <1>1, <1>2, TerminalServed
<1>. QED BY <1>3, <1>4, <1>5 DEF HandlerServes

\* A client that hangs up, and then its handler's finally.
LEMMA LeavingServes ==
  ASSUME EngineInv, NEW id \in Ids, HangUp(id) \/ Finally(id)
  PROVE  HandlerServes(id)
<1> DEFINE s == seqs[id]
           c == calls[id]
<1>1. s \in Sequence /\ Sound(s) /\ c \in Call /\ Served(s, c)
  BY EngineInvAt
<1>2. CASE HangUp(id)
  <2> DEFINE d == [c EXCEPT !.at = "closing", !.outcome = "left"]
  <2>1. calls' = [calls EXCEPT ![id] = d] /\ seqs'[id] = s
    BY <1>2 DEF HangUp, vars, schedVars
  <2>. HIDE DEF s, c
  <2>2. d \in Call /\ Served(s, d)
    BY <1>1, HangUpServed
  <2>. QED BY <2>1, <2>2 DEF HandlerServes
<1>3. CASE Finally(id)
  <2> DEFINE d == [c EXCEPT !.at = "done"]
             t == GiveUp(s, "cancelled")
  <2>1. calls' = [calls EXCEPT ![id] = d] /\ c.at = "closing"
    BY <1>3 DEF Finally
  <2>2. seqs'[id] = t
    BY <1>3, AbortSequences DEF Finally, Cancel, EngineInv, LoopInv, TypeOK
  <2>. HIDE DEF s, c
  <2>3. d \in Call /\ Served(t, d)
    BY <1>1, <2>1, FinallyServed
  <2>. QED BY <2>1, <2>2, <2>3 DEF HandlerServes
<1>. QED BY <1>2, <1>3

\* Each step of a handler or its client leaves one call behind, and changes no
\* other request.
LEMMA HandlerSteps ==
  ASSUME EngineInv, NEW id \in Ids, NEW by \in Runners, HandlerStep(id, by) \/ HangUp(id)
  PROVE  /\ HandlerServes(id)
         /\ Ids' = Ids /\ Len(seqs') = Len(seqs)
         /\ \A other \in Ids \ {id} : seqs'[other] = seqs[other]
<1>1. HandlerServes(id)
  BY GetTokenServes, ReturnCompletionServes, YieldTerminalServes, LeavingServes DEF HandlerStep
<1>2. CASE UNCHANGED vars
  BY <1>1, <1>2 DEF vars, schedVars, Ids
<1>3. CASE Abort(id, "cancelled")
  <2>1. Ids' = Ids /\ \A other \in Ids \ {id} : seqs'[other] = seqs[other]
    BY <1>3, AbortSequences DEF EngineInv, LoopInv, TypeOK
  <2>2. Len(seqs') = Len(seqs)
    BY <1>3 DEF Abort, EngineInv, LoopInv, TypeOK, SchedulerTypeOK
  <2>. QED BY <1>1, <2>1, <2>2
<1>. QED BY <1>2, <1>3
         DEF HandlerStep, GetToken, ReturnCompletion, YieldTerminal, Finally, Cancel, HangUp

\* The calls after one of them was replaced.
LEMMA OneCall ==
  ASSUME calls \in Seq(Call), NEW id \in DOMAIN calls, NEW d \in Call,
         calls' = [calls EXCEPT ![id] = d]
  PROVE  /\ calls' \in Seq(Call) /\ Len(calls') = Len(calls)
         /\ calls'[id] = d
         /\ \A other \in DOMAIN calls \ {id} : calls'[other] = calls[other]
  OBVIOUS

\* The engine starts with no requests.
LEMMA EngineInvInit == EngineInit => EngineInv
<1>. SUFFICES ASSUME EngineInit PROVE EngineInv
  OBVIOUS
<1>1. LoopInv
  BY LoopInvInit DEF EngineInit
<1>2. seqs = <<>> /\ calls = <<>>
  BY DEF EngineInit, Init, InitScheduler
<1>3. Ids = {}
  BY <1>2 DEF Ids
<1>. QED BY <1>1, <1>2, <1>3 DEF EngineInv, AllServed

\* A request that starts gets a handler of its own.
LEMMA StartServes ==
  ASSUME EngineInv, NEW stream \in BOOLEAN, NEW eos \in SUBSET Tokens, Start(stream, eos)
  PROVE  calls' \in Seq(Call) /\ Len(calls') = Len(seqs') /\ AllServed'
<1>. USE SchedulerAssumption
<1>1. PICK p \in PromptLens, m \in MaxNews : Add(p, m, eos)
  BY DEF Start, Submit
<1>2. p \in Nat /\ m \in Nat
  OBVIOUS
<1> DEFINE new == Len(seqs) + 1
           c == [stream |-> stream, at |-> "await", read |-> 0,
                 text |-> <<>>, decoders |-> {}, outcome |-> "pending"]
<1>3. /\ Ids' = Ids \cup {new} /\ new \notin Ids
      /\ Len(seqs') = new
      /\ \A id \in Ids : seqs'[id] = seqs[id]
      /\ \/ /\ m <= 0
            /\ seqs'[new] = Emit([NewSequence(p, m, eos) EXCEPT !.finish_reason = "length"], None)
         \/ m > 0 /\ seqs'[new] = NewSequence(p, m, eos)
  BY <1>1, <1>2, AddSequences DEF EngineInv, LoopInv, TypeOK
<1>4. c \in Call /\ Served(seqs'[new], c)
  BY <1>2, <1>3, NewServed
<1>5. calls' = Append(calls, c)
  BY DEF Start
<1>6. calls \in Seq(Call) /\ Len(calls) = Len(seqs) /\ Ids = DOMAIN calls
  BY DEF EngineInv, Ids, LoopInv, TypeOK, SchedulerTypeOK
<1>. HIDE DEF c
<1>7. /\ calls' \in Seq(Call) /\ Len(calls') = new
      /\ calls'[new] = c
      /\ \A id \in Ids : calls'[id] = calls[id]
  BY <1>4, <1>5, <1>6
<1>. HIDE DEF new
<1>8. ASSUME NEW id \in Ids' PROVE Served(seqs'[id], calls'[id])
  <2>1. CASE id \in Ids
    BY <1>3, <1>7, <2>1 DEF EngineInv, AllServed
  <2>2. CASE id = new
    BY <1>4, <1>7, <2>2
  <2>. QED BY <1>3, <2>1, <2>2
<1>. QED BY <1>3, <1>7, <1>8 DEF AllServed

\* No step breaks it: each serves the client it touches, and the others.
LEMMA EngineInvNext == EngineInv /\ [AnyEngineStep]_engineVars => EngineInv'
<1>. SUFFICES ASSUME EngineInv, [AnyEngineStep]_engineVars PROVE EngineInv'
  OBVIOUS
<1>1. LoopInv'
  BY EngineStepIsLoopStep, LoopInvNext DEF EngineInv
<1>2. calls \in Seq(Call) /\ Len(calls) = Len(seqs) /\ Ids = DOMAIN calls
  BY DEF EngineInv, Ids, LoopInv, TypeOK, SchedulerTypeOK
<1>3. ASSUME NEW stream \in BOOLEAN, NEW eos \in SUBSET Tokens, Start(stream, eos)
      PROVE  calls' \in Seq(Call) /\ Len(calls') = Len(seqs') /\ AllServed'
  BY <1>3, StartServes
<1>4. ASSUME NEW id \in Ids, NEW by \in Runners, HandlerStep(id, by) \/ HangUp(id)
      PROVE  calls' \in Seq(Call) /\ Len(calls') = Len(seqs') /\ AllServed'
  <2>1. /\ HandlerServes(id) /\ Ids' = Ids /\ Len(seqs') = Len(seqs)
        /\ \A other \in Ids \ {id} : seqs'[other] = seqs[other]
    BY <1>4, HandlerSteps
  <2>2. PICK d \in Call : calls' = [calls EXCEPT ![id] = d] /\ Served(seqs'[id], d)
    BY <2>1 DEF HandlerServes
  <2>3. /\ calls' \in Seq(Call) /\ Len(calls') = Len(calls) /\ calls'[id] = d
        /\ \A other \in Ids \ {id} : calls'[other] = calls[other]
    BY <1>2, <2>2, OneCall
  <2>4. ASSUME NEW x \in Ids PROVE Served(seqs'[x], calls'[x])
    BY <2>1, <2>2, <2>3 DEF EngineInv, AllServed
  <2>. QED BY <1>2, <2>1, <2>3, <2>4 DEF AllServed
<1>5. CASE AnyLoopStep /\ UNCHANGED calls
  <2>1. Ids' = Ids /\ \A id \in Ids : LoopTouched(id)
    BY <1>5, LoopTouches DEF EngineInv, LoopInv
  <2>2. ASSUME NEW id \in Ids PROVE Served(seqs'[id], calls'[id])
    BY <1>5, <2>1, EngineInvAt, LoopServed DEF EngineInv
  <2>3. Len(seqs') = Len(seqs)
    <3>1. /\ seqs' \in Seq(Sequence) /\ seqs \in Seq(Sequence)
          /\ 1 .. Len(seqs') = 1 .. Len(seqs)
      BY <1>1, <2>1 DEF EngineInv, LoopInv, TypeOK, SchedulerTypeOK, Ids
    <3>. QED BY <3>1
  <2>. QED BY <1>1, <1>2, <1>5, <2>1, <2>2, <2>3 DEF AllServed, EngineInv
<1>6. CASE UNCHANGED engineVars
  BY <1>1, <1>2, <1>6 DEF engineVars, vars, schedVars, EngineInv, AllServed, Ids
<1>. QED BY <1>1, <1>3, <1>4, <1>5, <1>6 DEF AnyEngineStep, EngineInv

\* In every state of the engine, every client is served.
THEOREM ClientsAreServed == EngineSpec => []EngineInv
<1>1. EngineInv /\ [EngineNext]_engineVars => EngineInv'
  BY EngineNextIsAnyStep, EngineInvNext
<1>. QED BY <1>1, EngineInvInit, PTL DEF EngineSpec

\* The types of the engine's state: a handler never reads past its queue, and has
\* an outcome for its client exactly when it has left its await.
THEOREM EngineTypeCorrect == EngineSpec => []EngineTypeOK
<1>1. EngineInv => EngineTypeOK
  BY DEF EngineInv, LoopInv, AllServed, Served, EngineTypeOK
<1>. QED BY <1>1, ClientsAreServed, PTL

\* A client that stayed is never told "cancelled" (main.py:45): abort hits only
\* the request whose own client left, whoever else shares the batch.
THEOREM OnlyWhoLeftIsCancelled == EngineSpec => []CancelledMeansGone
<1>1. EngineInv => CancelledMeansGone
  BY DEF EngineInv, AllServed, Served, CancelledMeansGone
<1>. QED BY <1>1, ClientsAreServed, PTL

\* What was told of the text, in the words of Engine.
LEMMA ToldIsSent ==
  ASSUME EngineInv, NEW id \in Ids, Told(seqs[id], calls[id])
  PROVE  SentTheOutput(id)
<1> DEFINE s == seqs[id]
           c == calls[id]
           sent == c.text
<1>1. s \in Sequence /\ c \in Call
  BY EngineInvAt
<1>2. sent \in Seq(Chars) /\ DOMAIN sent = 1 .. Len(sent) /\ c.decoders \subseteq Runners
  <2>1. sent \in Seq(Chars) /\ c.decoders \subseteq Runners
    BY <1>1 DEF Call
  <2>. HIDE DEF sent
  <2>. QED BY <2>1
<1>3. \A by \in Runners :
        /\ TextBy(by, s) \in Seq(Chars) /\ Len(TextBy(by, s)) \in Nat
        /\ DOMAIN TextBy(by, s) = 1 .. Len(TextBy(by, s))
  <2>1. ASSUME NEW by \in Runners, NEW text, text = TextBy(by, s)
        PROVE  text \in Seq(Chars) /\ Len(text) \in Nat /\ DOMAIN text = 1 .. Len(text)
    BY <1>1, <2>1, TextByType
  <2>. QED BY <2>1
<1>4. CASE c.stream
  <2>1. Whole(s, c)
    BY <1>4 DEF Told
  <2>2. ASSUME NEW k \in DOMAIN sent
        PROVE  \E by \in c.decoders :
                 /\ k \in DOMAIN TextBy(by, s)
                 /\ sent[k] = TextBy(by, s)[k] \/ sent[k] = ReplacementChar
    <3>1. k \in 1 .. Len(sent) /\ k \in Nat /\ k > 0
      BY <1>2
    <3>2. PICK by \in c.decoders : Shows(TextBy(by, s), k, sent[k])
      BY <2>1, <3>1 DEF Whole, Covered
    <3>3. PICK n \in Nat : n = Len(TextBy(by, s)) /\ DOMAIN TextBy(by, s) = 1 .. n
      BY <1>2, <1>3
    <3>4. k \in 1 .. n
      BY <3>1, <3>2, <3>3 DEF Shows
    <3>. QED BY <3>2, <3>3, <3>4 DEF Shows, StandIn
  <2>3. ASSUME NEW by \in Runners, c.decoders \subseteq {by}
        PROVE  Len(sent) = Len(TextBy(by, s))
    <3>. HIDE DEF s, c
    <3>. QED BY <1>1, <2>1, <2>3, WholeLength DEF sent
  <2>4. \E by \in Runners : Len(sent) >= Len(TextBy(by, s))
    BY <2>1 DEF Whole, Complete, Reaches
  <2>. QED BY <1>4, <2>2, <2>3, <2>4 DEF SentTheOutput, TextBy
<1>5. CASE ~c.stream
  <2>1. PICK by \in Runners : c.decoders = {by} /\ sent = TextBy(by, s)
    BY <1>5 DEF Told, Answered
  <2>2. Len(sent) >= Len(TextBy(by, s))
    BY <1>3, <2>1
  <2>3. \A x \in Runners : c.decoders \subseteq {x} => x = by
    BY <2>1
  <2>. QED BY <2>1, <2>2, <2>3 DEF SentTheOutput, TextBy
<1>. QED BY <1>4, <1>5

\* What a client was told is the verdict and the output, then and ever after
\* (engines.py:107, :126).
THEOREM AnswersAreOutputs == EngineSpec => []AnswerIsTheOutput
<1>1. ASSUME EngineInv, NEW id \in Ids, calls[id].outcome \notin {"pending", "left"}
      PROVE  calls[id].outcome = seqs[id].finish_reason /\ SentTheOutput(id)
  <2>1. Told(seqs[id], calls[id])
    BY <1>1 DEF EngineInv, AllServed, Served
  <2>. QED BY <1>1, <2>1, ToldIsSent DEF Told
<1>2. EngineInv => AnswerIsTheOutput
  BY <1>1 DEF AnswerIsTheOutput
<1>. QED BY <1>2, ClientsAreServed, PTL

\* A handler that is over, however it ended, leaves no request without a verdict
\* behind (engines.py:99).
THEOREM NobodyGeneratesForNobody == EngineSpec => []NoOrphans
<1>1. EngineInv => NoOrphans
  BY DEF EngineInv, AllServed, Served, NoOrphans
<1>. QED BY <1>1, ClientsAreServed, PTL
-----------------------------------------------------------------------------
(* The engine implements CompletionService *)

\* What CompletionService sees of a request and its handler.
RequestOf(s, c) == [budget |-> s.max_new, text |-> c.text, outcome |-> c.outcome]

Requests == [id \in Ids |-> RequestOf(seqs[id], calls[id])]

\* Requests ask for what clients may ask for, stop where the runner stops, and are
\* decoded by the one there is.
Asked ==
  \A id \in Ids :
    /\ seqs[id].max_new \in MaxNews
    /\ seqs[id].eos_token_ids = EosIds
    /\ calls[id].decoders \subseteq {"real"}

\* It holds from the start.
LEMMA AskedInit == EngineInit => Asked
  BY DEF EngineInit, Init, InitScheduler, Ids, Asked

\* A handler's step adds its runner to those that decoded for it, at most.
LEMMA DecodersGrow ==
  ASSUME EngineInv, NEW by \in Runners, NEW id \in Ids, HandlerStep(id, by) \/ HangUp(id)
  PROVE  /\ calls'[id].decoders \subseteq calls[id].decoders \cup {by}
         /\ \A other \in Ids \ {id} : calls'[other] = calls[other]
<1> DEFINE c == calls[id]
<1>1. calls \in Seq(Call) /\ c \in Call /\ Ids = DOMAIN calls
  BY EngineInvAt DEF EngineInv, LoopInv, TypeOK, SchedulerTypeOK, Ids
<1>2. ASSUME NEW d, calls' = [calls EXCEPT ![id] = d]
      PROVE  calls'[id] = d /\ \A other \in Ids \ {id} : calls'[other] = calls[other]
  BY <1>1, <1>2
<1>3. CASE GetToken(id, by)
  <2>1. PICK text : calls' = [calls EXCEPT ![id] = [c EXCEPT !.read = c.read + 1, !.text = text,
                                                             !.decoders = Decoders(id, by)]]
    BY <1>3 DEF GetToken
  <2>2. calls'[id].decoders = Decoders(id, by)
    BY <1>1, <1>2, <2>1 DEF Call
  <2>. QED BY <1>2, <2>1, <2>2 DEF Decoders
<1>4. CASE ReturnCompletion(id, by)
  <2>1. PICK text, outcome :
          calls' = [calls EXCEPT ![id] = [c EXCEPT !.read = c.read + 1, !.at = "done",
                                                   !.text = text, !.decoders = {by},
                                                   !.outcome = outcome]]
    BY <1>4 DEF ReturnCompletion
  <2>2. calls'[id].decoders = {by}
    BY <1>1, <1>2, <2>1 DEF Call
  <2>. QED BY <1>2, <2>1, <2>2
<1>5. CASE YieldTerminal(id)
  <2>1. calls' = [calls EXCEPT ![id] = [c EXCEPT !.read = c.read + 1, !.at = "closing",
                                                 !.outcome = seqs[id].finish_reason]]
    BY <1>5 DEF YieldTerminal
  <2>2. calls'[id].decoders = c.decoders
    BY <1>1, <1>2, <2>1 DEF Call
  <2>. QED BY <1>2, <2>1, <2>2
<1>6. CASE Finally(id)
  <2>1. calls' = [calls EXCEPT ![id] = [c EXCEPT !.at = "done"]]
    BY <1>6 DEF Finally
  <2>2. calls'[id].decoders = c.decoders
    BY <1>1, <1>2, <2>1 DEF Call
  <2>. QED BY <1>2, <2>1, <2>2
<1>7. CASE HangUp(id)
  <2>1. calls' = [calls EXCEPT ![id] = [c EXCEPT !.at = "closing", !.outcome = "left"]]
    BY <1>7 DEF HangUp
  <2>2. calls'[id].decoders = c.decoders
    BY <1>1, <1>2, <2>1 DEF Call
  <2>. QED BY <1>2, <2>1, <2>2
<1>. QED BY <1>3, <1>4, <1>5, <1>6, <1>7 DEF HandlerStep

\* Nothing changes what a request asked for.
LEMMA AskedNext ==
  ASSUME EngineInv, Asked, [EngineNext]_engineVars
  PROVE  Asked' /\ \A id \in Ids : id \in Ids' /\ Grown(seqs[id], seqs'[id])
<1>. USE SchedulerAssumption, RunLoopAssumption
<1>t. TypeOK
  BY DEF EngineInv, LoopInv
<1>0. ASSUME NEW id \in Ids PROVE id \in Ids' /\ Grown(seqs[id], seqs'[id])
  BY <1>t, EngineNextIsAnyStep, EngineStepIsLoopStep, StepTouches, TouchedGrown
<1>1. \A id \in Ids : seqs'[id].max_new \in MaxNews /\ seqs'[id].eos_token_ids = EosIds
  BY <1>0 DEF Grown, Asked
<1>c. calls \in Seq(Call) /\ Len(calls) = Len(seqs) /\ Ids = 1 .. Len(seqs)
  BY DEF EngineInv, Ids
<1>2. ASSUME NEW stream \in BOOLEAN, Start(stream, EosIds) PROVE Asked'
  <2>1. PICK p \in PromptLens, m \in MaxNews : Add(p, m, EosIds)
    BY <1>2 DEF Start, Submit
  <2>2. p \in Nat /\ m \in Nat
    OBVIOUS
  <2> DEFINE new == NewSequence(p, m, EosIds)
  <2>3. /\ Ids' = Ids \cup {Len(seqs) + 1}
        /\ \/ seqs'[Len(seqs) + 1] = Emit([new EXCEPT !.finish_reason = "length"], None)
           \/ seqs'[Len(seqs) + 1] = new
    BY <1>t, <2>1, <2>2, AddSequences DEF TypeOK
  <2>4. /\ new.max_new = m /\ new.eos_token_ids = EosIds
        /\ Emit([new EXCEPT !.finish_reason = "length"], None).max_new = m
        /\ Emit([new EXCEPT !.finish_reason = "length"], None).eos_token_ids = EosIds
    BY DEF NewSequence, Emit
  <2>5. calls'[Len(seqs) + 1].decoders = {} /\ \A id \in Ids : calls'[id] = calls[id]
    BY <1>2, <1>c DEF Start
  <2>. HIDE DEF new
  <2>. QED BY <1>1, <2>3, <2>4, <2>5 DEF Asked
<1>3. ASSUME Ids' = Ids, \A id \in Ids : calls'[id].decoders \subseteq {"real"} PROVE Asked'
  BY <1>1, <1>3 DEF Asked
<1>4. ASSUME NEW id \in Ids, HandlerStep(id, "real") \/ HangUp(id) PROVE Asked'
  <2>1. "real" \in Runners
    BY DEF Runners
  <2>2. Ids' = Ids
    BY <1>4, <2>1, HandlerSteps
  <2>3. /\ calls'[id].decoders \subseteq calls[id].decoders \cup {"real"}
        /\ \A other \in Ids \ {id} : calls'[other] = calls[other]
    BY <1>4, <2>1, DecodersGrow
  <2>. QED BY <1>3, <2>2, <2>3 DEF Asked
<1>5. ASSUME LoopStep, UNCHANGED calls PROVE Asked'
  <2>1. Ids' = Ids
    BY <1>t, <1>5, LoopTouches DEF AnyLoopStep
  <2>. QED BY <1>3, <1>5, <2>1 DEF Asked
<1>6. ASSUME UNCHANGED engineVars PROVE Asked'
  <2>1. Ids' = Ids /\ UNCHANGED calls
    BY <1>6 DEF engineVars, vars, schedVars, Ids
  <2>. QED BY <1>3, <2>1 DEF Asked
<1>. QED BY <1>0, <1>2, <1>3, <1>4, <1>5, <1>6 DEF EngineNext

\* A text of at most n characters.
LEMMA ShortText ==
  ASSUME NEW a \in Seq(Chars), NEW n \in Nat, Len(a) <= n
  PROVE  a \in Service!TextsUpTo(n)
<1>1. Len(a) \in 0 .. n /\ a \in [1 .. Len(a) -> Chars]
  OBVIOUS
<1>. QED BY <1>1 DEF Service!TextsUpTo

\* The first request of all is an empty sequence.
LEMMA ImplementsInit == EngineInit => Service!Init
<1>1. ASSUME EngineInit PROVE Ids = {}
  BY <1>1 DEF EngineInit, Init, InitScheduler, Ids
<1>2. ASSUME EngineInit PROVE Requests = <<>>
  BY <1>1, <1>2 DEF Requests
<1>3. Requests = <<>> => Service!Init
  BY DEF Requests, RequestOf, Service!Init
<1>. QED BY <1>2, <1>3

\* What the handlers and clients see of the requests.
LEMMA RequestsType ==
  ASSUME EngineInv
  PROVE  /\ Ids = 1 .. Len(seqs) /\ Len(seqs) \in Nat
         /\ DOMAIN Requests = Ids
         /\ \A id \in Ids :
              /\ Requests[id].budget = seqs[id].max_new
              /\ Requests[id].text = calls[id].text
              /\ Requests[id].outcome = calls[id].outcome
<1>1. seqs \in Seq(Sequence)
  BY DEF EngineInv, LoopInv, TypeOK, SchedulerTypeOK
<1>. QED BY <1>1 DEF Requests, RequestOf, Ids

\* What Append does, as a function.
LEMMA AppendIsFunction ==
  ASSUME NEW n \in Nat, NEW R, R = [i \in 1 .. n |-> R[i]], NEW r
  PROVE  /\ Len(R) = n
         /\ Append(R, r) = [i \in 1 .. (n + 1) |-> IF i = n + 1 THEN r ELSE R[i]]
<1> DEFINE S == {R[i] : i \in 1 .. n} \cup {r}
<1>1. R \in [1 .. n -> S] /\ r \in S
  OBVIOUS
<1>2. R \in Seq(S) /\ Len(R) = n
  BY <1>1
<1>. HIDE DEF S
<1>3. /\ DOMAIN Append(R, r) = 1 .. (n + 1)
      /\ \A i \in 1 .. (n + 1) : Append(R, r)[i] = IF i = n + 1 THEN r ELSE R[i]
  BY <1>1, <1>2
<1>4. Append(R, r) = [i \in 1 .. (n + 1) |-> Append(R, r)[i]]
  <2>1. Append(R, r) \in Seq(S) /\ Len(Append(R, r)) = n + 1
    BY <1>1, <1>2
  <2>. QED BY <2>1
<1>. QED BY <1>2, <1>3, <1>4

\* A request that starts is asked.
LEMMA StartAsks ==
  ASSUME EngineInv, NEW stream \in BOOLEAN, Start(stream, EosIds)
  PROVE  Service!Ask
<1>. USE SchedulerAssumption, RunLoopAssumption
<1>1. PICK p \in PromptLens, m \in MaxNews : Add(p, m, EosIds)
  BY DEF Start, Submit
<1>2. p \in Nat /\ m \in Nat
  OBVIOUS
<1> DEFINE new == Len(seqs) + 1
           r == [budget |-> m, text |-> <<>>, outcome |-> "pending"]
<1>3. Ids = 1 .. Len(seqs) /\ Len(seqs) \in Nat /\ DOMAIN Requests = Ids
  BY RequestsType
<1>4. /\ Ids' = Ids \cup {new} /\ new \notin Ids
      /\ \A id \in Ids : seqs'[id] = seqs[id]
      /\ \/ seqs'[new] = Emit([NewSequence(p, m, EosIds) EXCEPT !.finish_reason = "length"], None)
         \/ seqs'[new] = NewSequence(p, m, EosIds)
  BY <1>1, <1>2, AddSequences DEF EngineInv, LoopInv, TypeOK
<1>5. seqs'[new].max_new = m
  <2> DEFINE s == NewSequence(p, m, EosIds)
             t == Emit([s EXCEPT !.finish_reason = "length"], None)
  <2>1. s.max_new = m /\ t.max_new = m
    BY DEF NewSequence, Emit
  <2>2. seqs'[new] = s \/ seqs'[new] = t
    BY <1>4
  <2>. HIDE DEF s, t, new
  <2>. QED BY <2>1, <2>2
<1>6. calls \in Seq(Call) /\ Len(calls) = Len(seqs)
  BY DEF EngineInv
<1>7. /\ \A id \in Ids : calls'[id] = calls[id]
      /\ calls'[new].text = <<>> /\ calls'[new].outcome = "pending"
  BY <1>3, <1>6 DEF Start
<1>8. RequestOf(seqs'[new], calls'[new]) = r
  BY <1>5, <1>7 DEF RequestOf
<1>. HIDE DEF r
<1>9. Requests' = [id \in Ids \cup {new} |-> IF id = new THEN r ELSE Requests[id]]
  <2>1. ASSUME NEW id \in Ids PROVE RequestOf(seqs'[id], calls'[id]) = Requests[id] /\ id # new
    BY <1>4, <1>7 DEF Requests
  <2>. QED BY <1>4, <1>8, <2>1 DEF Requests
<1>10. Requests' = Append(Requests, r) /\ Len(Requests) = Len(seqs)
  <2> DEFINE R == Requests
  <2>1. DOMAIN R = 1 .. Len(seqs) /\ R = [id \in 1 .. Len(seqs) |-> R[id]]
    BY <1>3 DEF Requests
  <2>2. 1 .. (Len(seqs) + 1) = (1 .. Len(seqs)) \cup {new}
    BY <1>3
  <2>. HIDE DEF R
  <2>3. /\ Len(R) = Len(seqs)
        /\ Append(R, r) = [id \in 1 .. (Len(seqs) + 1) |-> IF id = Len(seqs) + 1 THEN r ELSE R[id]]
    BY <1>3, <2>1, AppendIsFunction
  <2>. QED BY <1>3, <1>9, <2>2, <2>3 DEF R
<1>11. Len(seqs) < MaxRequests
  BY DEF Start, Submit
<1>. QED BY <1>10, <1>11 DEF Service!Ask, Requests, RequestOf, r

\* The actions of CompletionService, over Requests.
LEMMA ServiceActions ==
  ASSUME NEW id
  PROVE  /\ /\ Requests[id].outcome = "pending"
            /\ \E more \in Service!TextsUpTo(Requests[id].budget - Len(Requests[id].text)) :
                 /\ more # <<>>
                 /\ Requests' = [Requests EXCEPT ![id].text = Requests[id].text \o more]
            => Service!Deliver(id)
         /\ \A outcome :
              /\ Requests[id].outcome = "pending"
              /\ \E more \in Service!TextsUpTo(Requests[id].budget - Len(Requests[id].text)) :
                   /\ outcome = "stop"
                        => Len(Requests[id].text \o more) < Requests[id].budget
                   /\ Requests' = [Requests EXCEPT ![id].text = Requests[id].text \o more,
                                                   ![id].outcome = outcome]
              => Service!Conclude(id, outcome)
         /\ /\ Requests[id].outcome = "pending"
            /\ Requests' = [Requests EXCEPT ![id].outcome = "left"]
            => Service!Leave(id)
  BY DEF Service!Deliver, Service!Conclude, Service!Leave, Service!Pending, Requests, RequestOf

\* A handler's step changes the text and the outcome of one request.
LEMMA OneRequest ==
  ASSUME EngineInv, NEW id \in Ids, NEW text, NEW outcome,
         calls'[id].text = text, calls'[id].outcome = outcome,
         \A other \in Ids \ {id} : calls'[other] = calls[other],
         Ids' = Ids, \A x \in Ids : seqs'[x].max_new = seqs[x].max_new
  PROVE  Requests' = [Requests EXCEPT ![id].text = text, ![id].outcome = outcome]
<1>1. ASSUME NEW x \in Ids
      PROVE  RequestOf(seqs'[x], calls'[x])
               = [Requests EXCEPT ![id].text = text, ![id].outcome = outcome][x]
  BY <1>1 DEF Requests, RequestOf
<1>. QED BY <1>1 DEF Requests

\* A handler's step that only sends more text.
LEMMA OneText ==
  ASSUME EngineInv, NEW id \in Ids, NEW text,
         calls'[id].text = text, calls'[id].outcome = "pending",
         Requests[id].outcome = "pending",
         \A other \in Ids \ {id} : calls'[other] = calls[other],
         Ids' = Ids, \A x \in Ids : seqs'[x].max_new = seqs[x].max_new
  PROVE  Requests' = [Requests EXCEPT ![id].text = text]
<1>1. ASSUME NEW x \in Ids
      PROVE  RequestOf(seqs'[x], calls'[x]) = [Requests EXCEPT ![id].text = text][x]
  BY <1>1 DEF Requests, RequestOf
<1>. QED BY <1>1 DEF Requests

\* A text that is as it was.
LEMMA SameText ==
  ASSUME NEW id \in Ids, NEW text, Requests[id].text = text
  PROVE  [Requests EXCEPT ![id].text = text] = Requests
  BY DEF Requests, RequestOf

\* A handler's step that only changes the outcome.
LEMMA OneOutcome ==
  ASSUME EngineInv, NEW id \in Ids, NEW outcome,
         calls'[id].text = Requests[id].text, calls'[id].outcome = outcome,
         \A other \in Ids \ {id} : calls'[other] = calls[other],
         Ids' = Ids, \A x \in Ids : seqs'[x].max_new = seqs[x].max_new
  PROVE  Requests' = [Requests EXCEPT ![id].outcome = outcome]
<1>1. ASSUME NEW x \in Ids
      PROVE  RequestOf(seqs'[x], calls'[x]) = [Requests EXCEPT ![id].outcome = outcome][x]
  BY <1>1 DEF Requests, RequestOf
<1>. QED BY <1>1 DEF Requests

\* Nobody is sent more than was asked for, and a stop token is not sent.
LEMMA WithinBudget ==
  ASSUME EngineInv, Asked, NEW id \in Ids
  PROVE  LET n == seqs[id].max_new
             text == Decode(seqs[id].output_ids)
         IN  /\ n \in Nat /\ text \in Seq(Chars) /\ Len(text) \in Nat
             /\ Len(text) <= n
             /\ seqs[id].finish_reason = "stop" => Len(text) < n
             /\ calls[id].text \in Seq(Chars) /\ Len(calls[id].text) \in Nat
<1>1. PICK s \in Sequence : s = seqs[id] /\ Honest(s) /\ s.eos_token_ids = EosIds
  BY EngineInvAt DEF Sound, Asked
<1>2. s.output_ids \in Seq(Tokens) /\ s.max_new \in Nat
  BY DEF Sequence
<1>3. PICK out \in Seq(Tokens) : out = s.output_ids
  BY <1>2
<1>4. PICK n \in Nat : n = s.max_new
  BY <1>2
<1>5. Len(out) <= n /\ Len(out) \in Nat
  BY <1>1, <1>3, <1>4 DEF Honest
<1>6. /\ Decode(out) \in Seq(Chars) /\ Len(Decode(out)) \in Nat
      /\ Len(Decode(out)) <= Len(out)
      /\ out # <<>> /\ out[Len(out)] \in EosIds => Len(Decode(out)) < Len(out)
  BY DecodeType
<1>7. s.finish_reason = "stop" => out # <<>> /\ out[Len(out)] \in EosIds
  <2>. SUFFICES ASSUME s.finish_reason = "stop" PROVE out # <<>> /\ out[Len(out)] \in EosIds
    OBVIOUS
  <2>1. Stops(s) # {} /\ Stops(s) \subseteq {Len(out)}
    BY <1>1, <1>3 DEF Honest
  <2>2. Len(out) \in Stops(s)
    BY <2>1
  <2>3. Len(out) \in 1 .. Len(out) /\ out[Len(out)] \in EosIds
    BY <1>1, <1>3, <2>2 DEF Stops
  <2>4. Len(out) # 0
    BY <1>5, <2>3
  <2>5. out # <<>>
    BY <2>4
  <2>. QED BY <2>3, <2>5
<1>8. Len(Decode(out)) <= n
  <2>1. Len(Decode(out)) \in Nat /\ Len(Decode(out)) <= Len(out)
    BY <1>6
  <2>. QED BY <1>5, <2>1
<1>9. s.finish_reason = "stop" => Len(Decode(out)) < n
  <2>1. s.finish_reason = "stop" => Len(Decode(out)) < Len(out)
    BY <1>6, <1>7
  <2>2. Len(Decode(out)) \in Nat
    BY <1>6
  <2>3. Len(Decode(out)) < Len(out) => Len(Decode(out)) < n
    BY <1>5, <2>2
  <2>. QED BY <2>1, <2>3
<1>10. calls[id].text \in Seq(Chars) /\ Len(calls[id].text) \in Nat
  <2>1. calls[id].text \in Seq(Chars)
    BY EngineInvAt DEF Call
  <2>. QED BY <2>1
<1>11. Decode(out) \in Seq(Chars) /\ Len(Decode(out)) \in Nat
  BY <1>6
<1>. QED BY <1>1, <1>3, <1>4, <1>8, <1>9, <1>10, <1>11

\* GetToken delivers what is new; if nothing is, the client sees nothing.
LEMMA GetTokenDelivers ==
  ASSUME EngineInv, Asked, NEW id \in Ids, GetToken(id, "real")
  PROVE  Service!Deliver(id) \/ Requests' = Requests
<1> DEFINE c == calls[id]
           old == c.text
           text == Decode(seqs[id].output_ids)
           n == seqs[id].max_new
           piece == IF c.stream /\ Len(text) > Len(old)
                    THEN Unsent(text, old) ELSE <<>>
<1>1. /\ n \in Nat /\ text \in Seq(Chars) /\ Len(text) \in Nat /\ Len(text) <= n
      /\ old \in Seq(Chars) /\ Len(old) \in Nat
  BY WithinBudget
<1>2. c \in Call /\ Served(seqs[id], c) /\ c.at = "await" /\ id \in DOMAIN calls
  BY EngineInvAt DEF GetToken, Awaiting, EngineInv, LoopInv, TypeOK, SchedulerTypeOK, Ids
<1>3. c.outcome = "pending"
  BY <1>2 DEF Served
<1>4. /\ calls' = [calls EXCEPT ![id].read = c.read + 1, ![id].text = old \o piece,
                                ![id].decoders = Decoders(id, "real")]
      /\ UNCHANGED vars
  BY DEF GetToken, Unsent, DecodeBy
<1>5. /\ calls'[id].text = old \o piece /\ calls'[id].outcome = "pending"
      /\ \A other \in Ids \ {id} : calls'[other] = calls[other]
      /\ Ids' = Ids /\ \A x \in Ids : seqs'[x].max_new = seqs[x].max_new
  <2>1. calls'[id].text = old \o piece /\ calls'[id].outcome = c.outcome
    BY <1>2, <1>4 DEF Call, EngineInv
  <2>2. \A other \in Ids \ {id} : calls'[other] = calls[other]
    BY <1>4 DEF EngineInv, LoopInv, TypeOK, SchedulerTypeOK, Ids
  <2>. QED BY <1>3, <1>4, <2>1, <2>2 DEF vars, schedVars, Ids
<1>6. Requests[id].text = old /\ Requests[id].outcome = "pending" /\ Requests[id].budget = n
  BY <1>3, RequestsType
<1>7. ASSUME NEW sent, sent = old \o piece
      PROVE  Requests' = [Requests EXCEPT ![id].text = sent]
  <2>1. calls'[id].text = sent
    BY <1>5, <1>7
  <2>. HIDE DEF old, piece
  <2>. QED BY <1>5, <1>6, <2>1, OneText
<1>8. CASE c.stream /\ Len(text) > Len(old)
  <2>1. piece = Unsent(text, old)
    BY <1>8
  <2>2. Len(old) \in 0 .. Len(text)
    BY <1>1, <1>8
  <2>3. piece \in Seq(Chars) /\ Len(piece) = Len(text) - Len(old)
    <3>. HIDE DEF text, old, piece
    <3>. QED BY <1>1, <2>1, <2>2, SplitProperties DEF Unsent
  <2>4. Len(piece) <= n - Len(old) /\ n - Len(old) \in Nat /\ Len(piece) # 0
    <3>1. Len(text) > Len(old)
      BY <1>8
    <3>. HIDE DEF text, old, n, piece
    <3>. QED BY <1>1, <2>3, <3>1
  <2>5. piece \in Service!TextsUpTo(n - Len(old)) /\ piece # <<>>
    <3>1. piece # <<>>
      BY <2>4
    <3>2. piece \in Service!TextsUpTo(n - Len(old))
      <4>. HIDE DEF piece, n, old
      <4>. QED BY <2>3, <2>4, ShortText
    <3>. QED BY <3>1, <3>2
  <2>6. Requests' = [Requests EXCEPT ![id].text = Requests[id].text \o piece]
    BY <1>6, <1>7
  <2>. HIDE DEF piece
  <2>7. Service!Deliver(id)
    BY <1>6, <2>5, <2>6, ServiceActions
  <2>. QED BY <2>7
<1>9. CASE ~(c.stream /\ Len(text) > Len(old))
  <2>1. piece = <<>>
    BY <1>9
  <2>. HIDE DEF piece, old
  <2>2. old \o piece = old
    BY <1>1, <2>1, EmptyIsNeutral
  <2>3. Requests' = [Requests EXCEPT ![id].text = old]
    BY <1>7, <2>2
  <2>. QED BY <1>6, <2>3, SameText
<1>. QED BY <1>8, <1>9

\* What a handler that concludes has to have written down.
LEMMA Concludes ==
  ASSUME EngineInv, NEW id \in Ids, NEW more \in Seq(Chars),
         calls[id].outcome = "pending",
         NEW sent, sent = calls[id].text \o more,
         NEW outcome \in {"stop", "length", "error"},
         Requests' = [Requests EXCEPT ![id].text = sent, ![id].outcome = outcome],
         Len(sent) <= seqs[id].max_new,
         outcome = "stop" => Len(sent) < seqs[id].max_new
  PROVE  \E reason \in {"stop", "length", "error"} : Service!Conclude(id, reason)
<1> DEFINE old == calls[id].text
           n == seqs[id].max_new
<1>1. old \in Seq(Chars) /\ n \in Nat
  BY EngineInvAt DEF Call, Sequence
<1>2. Requests[id].text = old /\ Requests[id].outcome = "pending" /\ Requests[id].budget = n
  BY RequestsType
<1>4. more \in Service!TextsUpTo(n - Len(old))
  <2>1. Len(sent) <= n /\ sent = old \o more
    OBVIOUS
  <2>. HIDE DEF n, old
  <2>2. Len(sent) = Len(old) + Len(more) /\ Len(old) \in Nat /\ Len(more) \in Nat
    BY <1>1, <2>1, JoinProperties
  <2>3. n - Len(old) \in Nat /\ Len(more) <= n - Len(old)
    BY <1>1, <2>1, <2>2
  <2>. QED BY <2>3, ShortText
<1>. HIDE DEF n, old
<1>5. outcome = "stop" => Len(Requests[id].text \o more) < Requests[id].budget
  BY <1>2 DEF n, old
<1>6. Service!Conclude(id, outcome)
  <2>1. Requests' = [Requests EXCEPT ![id].text = Requests[id].text \o more,
                                     ![id].outcome = outcome]
    BY <1>2 DEF old
  <2>. QED BY <1>2, <1>4, <1>5, <2>1, ServiceActions
<1>. QED BY <1>6

\* ReturnCompletion delivers all of the output at once.
LEMMA ReturnCompletionConcludes ==
  ASSUME EngineInv, Asked, NEW id \in Ids, ReturnCompletion(id, "real")
  PROVE  \E reason \in {"stop", "length", "error"} : Service!Conclude(id, reason)
<1> DEFINE s == seqs[id]
           c == calls[id]
           text == Decode(s.output_ids)
<1>1. s \in Sequence /\ Sound(s) /\ c \in Call /\ Served(s, c) /\ id \in DOMAIN calls
  BY EngineInvAt DEF EngineInv, LoopInv, TypeOK, SchedulerTypeOK, Ids
<1>2. c.at = "await" /\ c.read < Len(s.queue) /\ ItemAt(s, c) = None /\ ~c.stream
  BY DEF ReturnCompletion, Awaiting, ItemAt
<1>3. s.finish_reason \in {"stop", "length", "error"}
  <2>. HIDE DEF s, c
  <2>. QED BY <1>1, <1>2, EndServed DEF FinishReasons
<1>4. c.outcome = "pending" /\ c.text = <<>>
  BY <1>1, <1>2 DEF Served, Untold
<1>5. seqs'[id] = s /\ Ids' = Ids /\ \A x \in Ids : seqs'[x].max_new = seqs[x].max_new
  BY ReturnCompletionServes, HandlerSteps DEF HandlerStep, Runners
<1>6. /\ calls'[id].text = text /\ calls'[id].outcome = s.finish_reason
      /\ \A other \in Ids \ {id} : calls'[other] = calls[other]
  <2>1. calls' = [calls EXCEPT ![id].read = c.read + 1, ![id].at = "done",
                               ![id].text = text, ![id].decoders = {"real"},
                               ![id].outcome = s.finish_reason]
    BY <1>5 DEF ReturnCompletion, DecodeBy
  <2>. HIDE DEF text
  <2>2. calls'[id].text = text /\ calls'[id].outcome = s.finish_reason
    BY <1>1, <2>1 DEF Call, EngineInv
  <2>3. \A other \in Ids \ {id} : calls'[other] = calls[other]
    BY <2>1 DEF EngineInv, LoopInv, TypeOK, SchedulerTypeOK, Ids
  <2>. QED BY <2>2, <2>3
<1>7. /\ text \in Seq(Chars) /\ Len(text) <= s.max_new
      /\ s.finish_reason = "stop" => Len(text) < s.max_new
  BY WithinBudget
<1>. HIDE DEF text
<1>8. Requests' = [Requests EXCEPT ![id].text = text, ![id].outcome = s.finish_reason]
  BY <1>5, <1>6, OneRequest
<1>9. text = c.text \o text
  <2>. HIDE DEF c
  <2>1. ASSUME NEW u \in Seq(Chars) PROVE <<>> \o u = u
    BY EmptyIsNeutralToo
  <2>. QED BY <1>4, <1>7, <2>1
<1>10. PICK reason \in {"stop", "length", "error"} : reason = s.finish_reason
  BY <1>3
<1>. QED BY <1>4, <1>7, <1>8, <1>9, <1>10, Concludes

\* YieldTerminal delivers nothing more, for everything was sent before.
LEMMA YieldTerminalConcludes ==
  ASSUME EngineInv, Asked, NEW id \in Ids, YieldTerminal(id)
  PROVE  \E reason \in {"stop", "length", "error"} : Service!Conclude(id, reason)
<1> DEFINE s == seqs[id]
           c == calls[id]
<1>1. s \in Sequence /\ Sound(s) /\ c \in Call /\ Served(s, c) /\ id \in DOMAIN calls
  BY EngineInvAt DEF EngineInv, LoopInv, TypeOK, SchedulerTypeOK, Ids
<1>2. c.at = "await" /\ c.read < Len(s.queue) /\ ItemAt(s, c) = None /\ c.stream
  BY DEF YieldTerminal, Awaiting, ItemAt
<1>3. /\ s.finish_reason \in {"stop", "length", "error"}
      /\ Len(c.text) = Len(Decode(s.output_ids))
  <2>1. c.decoders \subseteq {"real"}
    BY DEF Asked
  <2>2. "real" \in Runners /\ TextBy("real", s) = Decode(s.output_ids)
    BY DEF Runners, TextBy, DecodeBy
  <2>. HIDE DEF s, c
  <2>3. s.finish_reason \in {"stop", "length", "error"} /\ Whole(s, c)
    BY <1>1, <1>2, EndServed DEF FinishReasons
  <2>4. Len(c.text) = Len(TextBy("real", s))
    BY <1>1, <2>1, <2>2, <2>3, WholeLength
  <2>. QED BY <2>2, <2>3, <2>4
<1>4. c.outcome = "pending"
  BY <1>1, <1>2 DEF Served
<1>5. Ids' = Ids /\ \A x \in Ids : seqs'[x].max_new = seqs[x].max_new
  BY DEF YieldTerminal, vars, schedVars, Ids
<1>6. /\ calls'[id].text = c.text /\ calls'[id].outcome = s.finish_reason
      /\ \A other \in Ids \ {id} : calls'[other] = calls[other]
  <2>1. calls' = [calls EXCEPT ![id].read = c.read + 1, ![id].at = "closing",
                               ![id].outcome = s.finish_reason]
    BY DEF YieldTerminal
  <2>2. calls'[id].text = c.text /\ calls'[id].outcome = s.finish_reason
    BY <1>1, <2>1 DEF Call, EngineInv
  <2>3. \A other \in Ids \ {id} : calls'[other] = calls[other]
    BY <2>1 DEF EngineInv, LoopInv, TypeOK, SchedulerTypeOK, Ids
  <2>. QED BY <2>2, <2>3
<1>7. /\ c.text \in Seq(Chars) /\ Len(c.text) <= s.max_new
      /\ s.finish_reason = "stop" => Len(c.text) < s.max_new
  BY <1>3, WithinBudget
<1> DEFINE more == <<>>
<1>8. more \in Seq(Chars) /\ c.text = c.text \o more
  BY <1>7, EmptyIsNeutral
<1>. HIDE DEF more
<1>9. PICK reason \in {"stop", "length", "error"} : reason = s.finish_reason
  BY <1>3
<1>10. PICK sent : sent = c.text
  OBVIOUS
<1>11. Requests' = [Requests EXCEPT ![id].text = sent, ![id].outcome = s.finish_reason]
  BY <1>5, <1>6, <1>10, OneRequest
<1>. QED BY <1>4, <1>7, <1>8, <1>9, <1>10, <1>11, Concludes

\* Every step of the engine is a step of CompletionService, or none.
LEMMA ImplementsNext ==
  ASSUME EngineInv, Asked, [EngineNext]_engineVars
  PROVE  Service!Next \/ Requests' = Requests
<1>1. ASSUME NEW id \in Ids, Service!Deliver(id) \/ Service!Leave(id)
             \/ \E reason \in {"stop", "length", "error"} : Service!Conclude(id, reason)
      PROVE  Service!Next
  <2>1. id \in DOMAIN Requests
    BY RequestsType
  <2>. QED BY <1>1, <2>1 DEF Service!Next, Requests, RequestOf
<1>2. ASSUME NEW stream \in BOOLEAN, Start(stream, EosIds) PROVE Service!Next
  BY <1>2, StartAsks DEF Service!Next
<1>3. ASSUME NEW id \in Ids,
             GetToken(id, "real") \/ ReturnCompletion(id, "real") \/ YieldTerminal(id)
      PROVE  Service!Next \/ Requests' = Requests
  <2>1. CASE GetToken(id, "real")
    BY <1>1, <2>1, GetTokenDelivers
  <2>2. CASE ReturnCompletion(id, "real")
    BY <1>1, <2>2, ReturnCompletionConcludes
  <2>3. CASE YieldTerminal(id)
    BY <1>1, <2>3, YieldTerminalConcludes
  <2>. QED BY <1>3, <2>1, <2>2, <2>3
<1>4. ASSUME NEW id \in Ids, HangUp(id) PROVE Service!Next
  <2> DEFINE c == calls[id]
  <2>1. c \in Call /\ Served(seqs[id], c) /\ c.at = "await" /\ id \in DOMAIN calls
    BY <1>4, EngineInvAt DEF HangUp, EngineInv, LoopInv, TypeOK, SchedulerTypeOK, Ids
  <2>2. c.outcome = "pending"
    BY <2>1 DEF Served
  <2>3. calls' = [calls EXCEPT ![id].at = "closing", ![id].outcome = "left"] /\ UNCHANGED vars
    BY <1>4 DEF HangUp
  <2>4. calls'[id].text = c.text /\ calls'[id].outcome = "left"
    BY <2>1, <2>3 DEF Call, EngineInv
  <2>5. \A other \in Ids \ {id} : calls'[other] = calls[other]
    BY <2>3 DEF EngineInv, LoopInv, TypeOK, SchedulerTypeOK, Ids
  <2>6. Ids' = Ids /\ \A x \in Ids : seqs'[x].max_new = seqs[x].max_new
    BY <2>3 DEF vars, schedVars, Ids
  <2>7. Requests[id].text = c.text /\ Requests[id].outcome = "pending"
    BY <2>2, RequestsType
  <2>. HIDE DEF c
  <2>8. Requests' = [Requests EXCEPT ![id].outcome = "left"]
    BY <2>4, <2>5, <2>6, <2>7, OneOutcome
  <2>. QED BY <1>1, <2>7, <2>8, ServiceActions
<1>5. ASSUME NEW id \in Ids, Finally(id) PROVE Requests' = Requests
  <2>1. Ids' = Ids
    BY <1>5, HandlerSteps DEF HandlerStep, Runners
  <2>2. \A x \in Ids : seqs'[x].max_new = seqs[x].max_new
    BY AskedNext DEF Grown
  <2>3. calls' = [calls EXCEPT ![id].at = "done"] /\ calls \in Seq(Call) /\ id \in DOMAIN calls
    BY <1>5 DEF Finally, EngineInv, LoopInv, TypeOK, SchedulerTypeOK, Ids
  <2>4. ASSUME NEW x \in Ids
        PROVE  calls'[x].text = calls[x].text /\ calls'[x].outcome = calls[x].outcome
    BY <2>3, EngineInvAt DEF Call
  <2>. QED BY <2>1, <2>2, <2>4 DEF Requests, RequestOf
<1>6. ASSUME LoopStep, UNCHANGED calls PROVE Requests' = Requests
  <2>1. Ids' = Ids
    BY <1>6, LoopTouches DEF AnyLoopStep, EngineInv, LoopInv
  <2>2. \A x \in Ids : seqs'[x].max_new = seqs[x].max_new
    BY AskedNext DEF Grown
  <2>. QED BY <1>6, <2>1, <2>2 DEF Requests, RequestOf
<1>7. ASSUME UNCHANGED engineVars PROVE Requests' = Requests
  BY <1>7 DEF engineVars, vars, schedVars, Ids, Requests
<1>. QED BY <1>2, <1>3, <1>4, <1>5, <1>6, <1>7 DEF EngineNext, HandlerStep

\* Every client gets what CompletionService promises, in which no batch, no queue
\* and no other client exists: text that is only ever extended and never goes
\* past its budget, then one outcome, then silence.
THEOREM EngineImplementsService == EngineSpec => ImplementsService
<1>1. Asked /\ EngineInv /\ [EngineNext]_engineVars => Asked'
  BY AskedNext
<1>2. EngineSpec => []Asked
  BY <1>1, AskedInit, ClientsAreServed, PTL DEF EngineSpec
<1>3. EngineInv /\ Asked /\ [EngineNext]_engineVars => [Service!Next]_Requests
  BY ImplementsNext
<1>. QED BY <1>2, <1>3, ImplementsInit, ClientsAreServed, PTL
         DEF EngineSpec, ImplementsService, Service!Spec, Requests, RequestOf
=============================================================================
