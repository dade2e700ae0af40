---------------------------- MODULE SamplingProofs ----------------------------
(***************************************************************************)
(* Proofs about Sampling, for every vocabulary, every range of             *)
(* temperatures and every finite logits: what is picked for a row is what  *)
(* its client asked for, and no client's parameters can make a row fail.   *)
(*                                                                         *)
(* The core is the top-k cut: the k-th largest value exists, counting      *)
(* equal ones, and fewer than k tokens lie above it.                       *)
(***************************************************************************)
EXTENDS Sampling, FiniteSetTheorems, TLAPS

-----------------------------------------------------------------------------
(* The k-th largest value *)

\* Of a nonempty finite set of numbers, one is the largest and one the smallest:
\* the one with the fewest elements above it, and the one with the fewest below.
LEMMA Extremes ==
  ASSUME NEW S \in SUBSET Int, IsFiniteSet(S), S # {}
  PROVE  /\ \E x \in S : \A y \in S : y <= x
         /\ \E x \in S : \A y \in S : x <= y
<1> DEFINE R == StrictSubsetOrdering(S)
           Above(x) == {y \in S : y > x}
           Below(x) == {y \in S : y < x}
<1>1. IsWellFoundedOn(R, FiniteSubsetsOf(S))
  BY FS_StrictSubsetOrderingWellFounded
<1>2. \A T \in SUBSET S : T \in FiniteSubsetsOf(S)
  BY FS_Subset DEF FiniteSubsetsOf
<1>3. \A T, U \in SUBSET S : T \subseteq U /\ T # U => <<T, U>> \in R
  BY DEF StrictSubsetOrdering
<1>4. \E x \in S : \A y \in S : y <= x
  <2> DEFINE F == {Above(x) : x \in S}
  <2>1. F \subseteq FiniteSubsetsOf(S) /\ F # {}
    <3>1. \A x \in S : Above(x) \in SUBSET S
      OBVIOUS
    <3>. QED BY <1>2, <3>1
  <2>2. PICK T \in F : \A U \in F : ~ (<<U, T>> \in R)
    <3>. HIDE DEF F, R
    <3>. QED BY <1>1, <2>1, WFMin
  <2>3. PICK x \in S : T = Above(x)
    BY <2>2
  <2>4. ASSUME NEW y \in S, y > x PROVE FALSE
    <3>1. Above(y) \in F /\ Above(y) \in SUBSET S /\ Above(x) \in SUBSET S
      OBVIOUS
    <3>2. \A z \in S : z > y => z > x
      BY <2>4
    <3>3. ~(y > y) /\ y \in Above(x)
      BY <2>4
    <3>4. Above(y) \subseteq Above(x) /\ Above(y) # Above(x)
      BY <3>2, <3>3
    <3>. QED BY <1>3, <2>2, <2>3, <3>1, <3>4
  <2>5. \A y \in S : y <= x
    BY <2>4
  <2>. QED BY <2>5
<1>5. \E x \in S : \A y \in S : x <= y
  <2> DEFINE F == {Below(x) : x \in S}
  <2>1. F \subseteq FiniteSubsetsOf(S) /\ F # {}
    <3>1. \A x \in S : Below(x) \in SUBSET S
      OBVIOUS
    <3>. QED BY <1>2, <3>1
  <2>2. PICK T \in F : \A U \in F : ~ (<<U, T>> \in R)
    <3>. HIDE DEF F, R
    <3>. QED BY <1>1, <2>1, WFMin
  <2>3. PICK x \in S : T = Below(x)
    BY <2>2
  <2>4. ASSUME NEW y \in S, y < x PROVE FALSE
    <3>1. Below(y) \in F /\ Below(y) \in SUBSET S /\ Below(x) \in SUBSET S
      OBVIOUS
    <3>2. \A z \in S : z < y => z < x
      BY <2>4
    <3>3. ~(y < y) /\ y \in Below(x)
      BY <2>4
    <3>4. Below(y) \subseteq Below(x) /\ Below(y) # Below(x)
      BY <3>2, <3>3
    <3>. QED BY <1>3, <2>2, <2>3, <3>1, <3>4
  <2>5. \A y \in S : x <= y
    BY <2>4
  <2>. QED BY <2>5
<1>. QED BY <1>4, <1>5

\* A row of logits that is not NaN.
FiniteRow == [Vocabulary -> Scores]

\* The tokens at least as good as v, and the better ones.
AtLeast(row, v) == {t \in Vocabulary : row[t] >= v}
Better(row, v) == {t \in Vocabulary : row[t] > v}

\* kept[-1] of torch.topk: some token has the k-th largest value, fewer than k
\* have a larger one, and k at least have no smaller one.
LEMMA KthLargestProperties ==
  ASSUME NEW row \in FiniteRow, NEW k \in 1 .. Cardinality(Vocabulary)
  PROVE  /\ KthLargest(row, k) \in Range(row)
         /\ Cardinality(Better(row, KthLargest(row, k))) < k
<1>1. /\ Range(row) \in SUBSET Int /\ IsFiniteSet(Range(row)) /\ Range(row) # {}
      /\ \A t \in Vocabulary : row[t] \in Int /\ row[t] \in Range(row)
      /\ \A v \in Range(row) : \E t \in Vocabulary : row[t] = v
  <2>1. /\ DOMAIN row = Vocabulary /\ \A t \in Vocabulary : row[t] \in Scores
        /\ IsFiniteSet(Vocabulary) /\ Vocabulary # {}
    BY SamplingAssumption DEF FiniteRow
  <2>2. Scores \subseteq Int
    BY SamplingAssumption DEF Inf, NegInf
  <2>3. row \in Surjection(Vocabulary, Range(row))
    BY <2>1 DEF Surjection, Range, FiniteRow
  <2>4. IsFiniteSet(Range(row))
    BY <2>1, <2>3, FS_Surjection
  <2>. QED BY <2>1, <2>2, <2>4 DEF Range
<1>2. k \in Nat /\ Cardinality(Vocabulary) \in Nat /\ k <= Cardinality(Vocabulary) /\ 0 < k
  BY SamplingAssumption, FS_CardinalityType
<1>3. ASSUME NEW T \in SUBSET Vocabulary PROVE IsFiniteSet(T) /\ Cardinality(T) \in Nat
  BY SamplingAssumption, FS_Subset, FS_CardinalityType
<1> DEFINE S == {v \in Range(row) : Cardinality(AtLeast(row, v)) >= k}
<1>4. S # {}
  <2>1. PICK v \in Range(row) : \A u \in Range(row) : v <= u
    BY <1>1, Extremes
  <2>2. \A t \in Vocabulary : row[t] >= v
    BY <1>1, <2>1
  <2>3. AtLeast(row, v) = Vocabulary
    BY <2>2 DEF AtLeast
  <2>. QED BY <1>2, <2>3
<1>5. PICK v \in S : \A u \in S : u <= v
  <2>1. S \in SUBSET Int /\ IsFiniteSet(S)
    BY <1>1, FS_Subset
  <2>. HIDE DEF S
  <2>. QED BY <1>4, <2>1, Extremes
<1>6. Cardinality(Better(row, v)) < k
  <2> DEFINE V == {u \in Range(row) : u > v}
  <2>1. CASE V = {}
    <3>1. Better(row, v) = {}
      BY <1>1, <2>1 DEF Better
    <3>2. Cardinality({}) = 0
      BY FS_EmptySet
    <3>. QED BY <1>2, <3>1, <3>2
  <2>2. CASE V # {}
    <3>1. V \in SUBSET Int /\ IsFiniteSet(V)
      BY <1>1, FS_Subset
    <3>2. PICK u \in V : \A x \in V : u <= x
      <4>. HIDE DEF V
      <4>. QED BY <2>2, <3>1, Extremes
    <3>3. u \in Range(row) /\ u \in Int /\ v \in Int /\ u > v
      BY <1>1
    <3>4. ASSUME NEW t \in Vocabulary PROVE row[t] > v <=> row[t] >= u
      <4>1. row[t] \in Range(row) /\ row[t] \in Int
        BY <1>1
      <4>2. row[t] > v => u <= row[t]
        BY <3>2, <4>1
      <4>. QED BY <3>3, <4>1, <4>2
    <3>5. Better(row, v) = AtLeast(row, u)
      BY <3>4 DEF Better, AtLeast
    <3>6. u \notin S
      BY <1>5, <3>3
    <3>7. ~(Cardinality(AtLeast(row, u)) >= k)
      BY <3>3, <3>6
    <3>8. Cardinality(AtLeast(row, u)) \in Nat
      BY <1>3 DEF AtLeast
    <3>. QED BY <1>2, <3>5, <3>7, <3>8
  <2>. QED BY <2>1, <2>2
<1>7. \E x \in Range(row) : /\ Cardinality({t \in Vocabulary : row[t] > x}) < k
                            /\ Cardinality({t \in Vocabulary : row[t] >= x}) >= k
  BY <1>5, <1>6 DEF Better, AtLeast
<1>. QED BY <1>7 DEF KthLargest, Better

-----------------------------------------------------------------------------
(* One row *)

\* What admission lets through to the runner.
Admitted(body) == body \in Bodies /\ Valid(body)

\* What the runner is told: no temperature between 0 and SAMPLING_EPS, and of
\* the spellings of "no top_k" only None.
LEMMA NormalizeProperties ==
  ASSUME NEW body, Admitted(body)
  PROVE  /\ body.temperature \in Int
         /\ Normalize(body).temperature \in Int
         /\ body.temperature < SamplingEps => Normalize(body).temperature <= 0
         /\ ~(Normalize(body).temperature <= 0) => Normalize(body).temperature >= SamplingEps
         /\ body.top_k # None => body.top_k \in Int
         /\ body.top_k # None /\ body.top_k > 0 => Normalize(body).top_k = body.top_k
         /\ Normalize(body).top_k # None =>
              Normalize(body).top_k \in Int /\ Normalize(body).top_k > 0
<1>1. body \in Bodies /\ SamplingEps \in Nat \ {0}
  BY SamplingAssumption DEF Admitted
<1>2. body.temperature \in Int
  BY <1>1, SamplingAssumption DEF Bodies
<1>3. body.top_k # None => body.top_k \in Int
  BY <1>1, SamplingAssumption DEF Bodies
<1>4. Normalize(body).temperature
        = IF body.temperature < SamplingEps THEN 0 ELSE body.temperature
  BY <1>1 DEF Bodies, Normalize
<1>5. Normalize(body).top_k
        = IF body.top_k # None /\ body.top_k <= 0 THEN None ELSE body.top_k
  BY <1>1 DEF Bodies, Normalize
<1>6. /\ Normalize(body).temperature \in Int
      /\ body.temperature < SamplingEps => Normalize(body).temperature <= 0
      /\ ~(Normalize(body).temperature <= 0) => Normalize(body).temperature >= SamplingEps
  BY <1>1, <1>2, <1>4
<1>7. /\ body.top_k # None /\ body.top_k > 0 => Normalize(body).top_k = body.top_k
      /\ Normalize(body).top_k # None =>
           Normalize(body).top_k \in Int /\ Normalize(body).top_k > 0
  BY <1>3, <1>5
<1>. QED BY <1>2, <1>3, <1>6, <1>7

\* The model's dtype is one in which 1e-5 divides any logit: no row overflows.
LEMMA NothingOverflows ==
  ASSUME device \in {"cuda", "cpu"}, NEW row, NEW temperature \in Int,
         temperature >= SamplingEps
  PROVE  Scaled(row, temperature) = row
<1>1. LeastDivisor[PickDtype] = SamplingEps
  <2>1. PickDtype \in {"bfloat16", "float32"}
    BY DEF PickDtype
  <2>2. LeastDivisor["bfloat16"] = SamplingEps /\ LeastDivisor["float32"] = SamplingEps
    BY DEF LeastDivisor
  <2>. QED BY <2>1, <2>2
<1>. QED BY <1>1 DEF Scaled

\* A logit is finite, so none is one of the infinities.
LEMMA ScoresAreFinite ==
  /\ Scores \subseteq Int /\ Inf \in Int /\ NegInf \in Int
  /\ \A x \in Scores : x # Inf /\ x # NegInf
<1>1. \A x \in Scores : x \in -1000 + 1 .. 1000 - 1
  BY SamplingAssumption DEF Inf, NegInf
<1>2. Inf = 1000 /\ NegInf = -1000
  BY DEF Inf, NegInf
<1>3. ASSUME NEW x \in Scores PROVE x \in Int /\ x # Inf /\ x # NegInf
  <2>1. x \in -1000 + 1 .. 1000 - 1
    BY <1>1
  <2>. QED BY <1>2, <2>1
<1>4. Scores \subseteq Int
  BY <1>3
<1>. QED BY <1>2, <1>3, <1>4

\* The mask of a top_k keeps the tokens with the k-th largest value or more, of
\* which there is at least one, and fewer than k are better than any of them.
LEMMA MaskProperties ==
  ASSUME NEW row \in FiniteRow, NEW top_k,
         top_k # None => top_k \in Int /\ top_k > 0
  PROVE  /\ Range(Mask(row, top_k)) \subseteq Scores \cup {NegInf}
         /\ \E t \in Vocabulary : Mask(row, top_k)[t] # NegInf
         /\ DOMAIN Mask(row, top_k) = Vocabulary
         /\ top_k # None =>
              \A t \in Vocabulary :
                Mask(row, top_k)[t] # NegInf => Cardinality(Better(row, row[t])) < top_k
<1>1. /\ DOMAIN row = Vocabulary /\ \A t \in Vocabulary : row[t] \in Scores
      /\ Vocabulary # {} /\ IsFiniteSet(Vocabulary)
  BY SamplingAssumption DEF FiniteRow
<1>2. CASE top_k = None
  <2>1. Mask(row, top_k) = row
    BY <1>2 DEF Mask
  <2>2. Range(row) \subseteq Scores
    BY <1>1 DEF Range
  <2>3. \E t \in Vocabulary : row[t] # NegInf
    BY <1>1, ScoresAreFinite
  <2>4. /\ DOMAIN Mask(row, top_k) = Vocabulary
        /\ Range(Mask(row, top_k)) \subseteq Scores \cup {NegInf}
    BY <1>1, <2>1, <2>2
  <2>5. \E t \in Vocabulary : Mask(row, top_k)[t] # NegInf
    BY <2>1, <2>3
  <2>. QED BY <1>2, <2>4, <2>5
<1>3. CASE top_k # None
  <2> DEFINE c == Cardinality(Vocabulary)
             k == IF top_k < c THEN top_k ELSE c
             v == KthLargest(row, k)
  <2>1. c \in Nat /\ c # 0
    BY <1>1, FS_CardinalityType, FS_EmptySet
  <2>2. top_k \in Int /\ top_k > 0
    BY <1>3
  <2>3. k \in 1 .. c /\ k <= top_k
    <3>. HIDE DEF c
    <3>. QED BY <2>1, <2>2
  <2>4. Mask(row, top_k) = [t \in Vocabulary |-> IF row[t] < v THEN NegInf ELSE row[t]]
    <3>1. ~(top_k <= 0)
      BY <2>2
    <3>. QED BY <1>3, <3>1 DEF Mask
  <2>. HIDE DEF k
  <2>5. v \in Range(row) /\ Cardinality(Better(row, v)) < k
    BY <2>3, KthLargestProperties
  <2>. HIDE DEF v
  <2>6. PICK best \in Vocabulary : row[best] = v
    BY <1>1, <2>5 DEF Range
  <2>7. v \in Scores /\ v \in Int
    BY <1>1, <2>6, ScoresAreFinite
  <2>8. Mask(row, top_k)[best] # NegInf
    <3>1. ~(row[best] < v) /\ row[best] # NegInf
      BY <2>6, <2>7, ScoresAreFinite
    <3>. QED BY <2>4, <3>1
  <2>9. ASSUME NEW t \in Vocabulary, Mask(row, top_k)[t] # NegInf
        PROVE  Cardinality(Better(row, row[t])) < top_k
    <3>1. ~(row[t] < v)
      BY <2>4, <2>9
    <3>2. row[t] \in Int /\ row[t] >= v
      <4>1. row[t] \in Int
        BY <1>1, ScoresAreFinite
      <4>. QED BY <2>7, <3>1, <4>1
    <3>3. Better(row, row[t]) \in SUBSET Better(row, v)
      <4>1. ASSUME NEW u \in Vocabulary, row[u] > row[t] PROVE row[u] > v
        <5>1. row[u] \in Int
          BY <1>1, ScoresAreFinite
        <5>. QED BY <2>7, <3>2, <4>1, <5>1
      <4>. QED BY <4>1 DEF Better
    <3>4. Better(row, v) \in SUBSET Vocabulary
      BY DEF Better
    <3>5. IsFiniteSet(Better(row, v))
      BY <1>1, <3>4, FS_Subset
    <3>6. Cardinality(Better(row, row[t])) <= Cardinality(Better(row, v))
      BY <3>3, <3>5, FS_Subset
    <3>7. IsFiniteSet(Better(row, row[t]))
      BY <3>3, <3>5, FS_Subset
    <3>8. Cardinality(Better(row, row[t])) \in Nat /\ Cardinality(Better(row, v)) \in Nat
      BY <3>5, <3>7, FS_CardinalityType
    <3>. QED BY <2>1, <2>2, <2>3, <2>5, <3>6, <3>8
  <2>10. /\ DOMAIN Mask(row, top_k) = Vocabulary
         /\ Range(Mask(row, top_k)) \subseteq Scores \cup {NegInf}
    <3>1. PICK m : m = Mask(row, top_k)
      OBVIOUS
    <3>2. DOMAIN m = Vocabulary
      BY <2>4, <3>1
    <3>3. \A t \in Vocabulary : m[t] = NegInf \/ m[t] = row[t]
      BY <2>4, <3>1
    <3>4. \A t \in Vocabulary : m[t] \in Scores \cup {NegInf}
      BY <1>1, <3>3
    <3>5. Range(m) \subseteq Scores \cup {NegInf}
      BY <3>2, <3>4 DEF Range
    <3>. QED BY <3>1, <3>2, <3>5
  <2>. QED BY <2>8, <2>9, <2>10
<1>. QED BY <1>2, <1>3

\* What _sample_row yields for a request that was let in, on logits that are no
\* NaN: a token, a best one if no temperature counts, and within its top_k.
LEMMA SampleRowProperties ==
  ASSUME device \in {"cuda", "cpu"}, NEW body, Admitted(body), NEW row \in FiniteRow,
         row # NaN, NEW token \in SampleRow(row, Normalize(body))
  PROVE  /\ token \in Vocabulary
         /\ body.temperature < SamplingEps => Better(row, row[token]) = {}
         /\ body.top_k # None /\ body.top_k > 0
              => Cardinality(Better(row, row[token])) < body.top_k
<1> DEFINE told == Normalize(body)
<1>1. \A t \in Vocabulary : row[t] \in Int
  BY ScoresAreFinite DEF FiniteRow
<1>2. /\ body.temperature < SamplingEps => told.temperature <= 0
      /\ ~(told.temperature <= 0) => told.temperature \in Int /\ told.temperature >= SamplingEps
  BY NormalizeProperties
<1>3. /\ told.top_k # None => told.top_k \in Int /\ told.top_k > 0
      /\ body.top_k # None /\ body.top_k > 0 => told.top_k = body.top_k
  BY NormalizeProperties
<1>4. token \in SampleRow(row, told)
  OBVIOUS
<1>. HIDE DEF told
<1>5. CASE told.temperature <= 0
  <2>1. token \in {t \in Vocabulary : \A u \in Vocabulary : row[u] <= row[t]}
    BY <1>4, <1>5 DEF SampleRow, Argmax
  <2>2. \A u \in Vocabulary : ~(row[u] > row[token])
    BY <1>1, <2>1
  <2>3. token \in Vocabulary /\ Better(row, row[token]) = {}
    BY <2>1, <2>2 DEF Better
  <2>4. body.top_k # None /\ body.top_k > 0
          => Cardinality(Better(row, row[token])) < body.top_k
    <3>1. Cardinality({}) = 0
      BY FS_EmptySet
    <3>2. body.top_k # None => body.top_k \in Int
      BY NormalizeProperties
    <3>. QED BY <2>3, <3>1, <3>2
  <2>. QED BY <2>3, <2>4
<1>6. CASE ~(told.temperature <= 0)
  <2>1. Scaled(row, told.temperature) = row
    BY <1>2, <1>6, NothingOverflows
  <2>2. token \in Multinomial(Mask(row, told.top_k))
    BY <1>4, <1>6, <2>1 DEF SampleRow
  <2>3. PICK m : m = Mask(row, told.top_k)
    OBVIOUS
  <2>4. /\ Range(m) \subseteq Scores \cup {NegInf}
        /\ \E t \in Vocabulary : m[t] # NegInf
        /\ DOMAIN m = Vocabulary
        /\ told.top_k # None =>
             \A t \in Vocabulary :
               m[t] # NegInf => Cardinality(Better(row, row[t])) < told.top_k
    BY <1>3, <2>3, MaskProperties
  <2>5. Inf \notin Range(m)
    <3>1. Inf # NegInf
      BY DEF Inf, NegInf
    <3>. QED BY <2>4, <3>1, ScoresAreFinite
  <2>6. Range(m) # {NegInf}
    BY <2>4 DEF Range
  <2>7. token \in Vocabulary /\ m[token] # NegInf
    BY <2>2, <2>3, <2>5, <2>6 DEF Multinomial
  <2>8. body.temperature < SamplingEps => FALSE
    BY <1>2, <1>6
  <2>. QED BY <1>3, <2>4, <2>7, <2>8
<1>. QED BY <1>5, <1>6

-----------------------------------------------------------------------------
(* The tick *)

\* Every row of the batch was let in and normalised, and the tick gives it what
\* _sample_row yields for it.
SamplingInv ==
  /\ device \in {"cuda", "cpu"}
  /\ rows \in Seq([asked : Bodies, told : {Normalize(body) : body \in Bodies}])
  /\ \A r \in DOMAIN rows : Admitted(rows[r].asked) /\ rows[r].told = Normalize(rows[r].asked)
  /\ outcome \in {"", "tokens", "raised"}
  /\ outcome = "tokens" =>
       \A r \in DOMAIN rows :
         logits[r] \in Logits /\ picked[r] \in SampleRow(logits[r], rows[r].told)

\* Nothing is admitted at first.
LEMMA SamplingInvInit == SamplingInit => SamplingInv
<1> SUFFICES ASSUME SamplingInit PROVE SamplingInv
  OBVIOUS
<1>1. /\ device \in {"cuda", "cpu"} /\ outcome = "" /\ rows = <<>>
  BY DEF SamplingInit
<1>2. \A S : <<>> \in Seq(S)
  OBVIOUS
<1>3. DOMAIN rows = {}
  <2>1. DOMAIN <<>> = {}
    OBVIOUS
  <2>. QED BY <1>1, <2>1, Zenon
<1>4. outcome \in {"", "tokens", "raised"} /\ outcome # "tokens"
  BY <1>1
<1>. QED BY <1>1, <1>2, <1>3, <1>4, Zenon DEF SamplingInv

\* A new row is normalised by admission, and no row changes after it.
LEMMA AdmitPreserves ==
  ASSUME SamplingInv, Admit
  PROVE  SamplingInv'
<1> DEFINE Row == [asked : Bodies, told : {Normalize(b) : b \in Bodies}]
<1>1. PICK body \in Bodies :
        Valid(body) /\ rows' = Append(rows, [asked |-> body, told |-> Normalize(body)])
  BY DEF Admit
<1>2. PICK new : new = [asked |-> body, told |-> Normalize(body)]
  OBVIOUS
<1>3. new \in Row /\ Admitted(new.asked) /\ new.told = Normalize(new.asked)
  BY <1>1, <1>2 DEF Admitted
<1>4. /\ outcome = "" /\ outcome' = "" /\ device' = device
      /\ rows \in Seq(Row) /\ rows' = Append(rows, new)
      /\ \A r \in DOMAIN rows :
           Admitted(rows[r].asked) /\ rows[r].told = Normalize(rows[r].asked)
  BY <1>1, <1>2 DEF Admit, Receive, SamplingInv
<1>. HIDE DEF Row
<1>5. /\ rows' \in Seq(Row)
      /\ \A r \in DOMAIN rows' : rows'[r] = new \/ (r \in DOMAIN rows /\ rows'[r] = rows[r])
  <2>1. PICK q : q = rows
    OBVIOUS
  <2>2. PICK x \in Row : x = new
    BY <1>3
  <2>3. q \in Seq(Row)
    BY <1>4, <2>1
  <2>4. /\ Append(q, x) \in Seq(Row)
        /\ \A r \in DOMAIN Append(q, x) :
             Append(q, x)[r] = x \/ (r \in DOMAIN q /\ Append(q, x)[r] = q[r])
    BY <2>3
  <2>. QED BY <1>4, <2>1, <2>2, <2>4
<1>6. \A r \in DOMAIN rows' :
        Admitted(rows'[r].asked) /\ rows'[r].told = Normalize(rows'[r].asked)
  BY <1>3, <1>4, <1>5
<1>. QED BY <1>4, <1>5, <1>6 DEF SamplingInv, Row

\* Every step keeps it.
LEMMA SamplingInvNext == SamplingInv /\ [SamplingNext]_samplingVars => SamplingInv'
<1> SUFFICES ASSUME SamplingInv, [SamplingNext]_samplingVars PROVE SamplingInv'
  OBVIOUS
<1>1. CASE Refuse
  BY <1>1 DEF Refuse, Receive, SamplingInv
<1>2. CASE Admit
  BY <1>2, AdmitPreserves
<1>3. CASE Sample
  <2>1. PICK l \in [DOMAIN rows -> Logits], p \in [DOMAIN rows -> Vocabulary \cup {None}] :
          /\ \A r \in DOMAIN rows : p[r] \in SampleRow(l[r], rows[r].told)
          /\ logits' = l /\ picked' = p
    BY <1>3 DEF Sample
  <2>2. outcome' = "tokens" /\ device' = device /\ rows' = rows
    BY <1>3 DEF Sample
  <2>3. ASSUME NEW r \in DOMAIN rows'
        PROVE  /\ logits'[r] \in Logits
               /\ picked'[r] \in SampleRow(logits[r], rows[r].told)'
    <3>1. r \in DOMAIN rows /\ rows'[r].told = rows[r].told
      BY <2>2
    <3>2. PICK row, told : row = l[r] /\ told = rows[r].told
      OBVIOUS
    <3>3. row \in Logits /\ p[r] \in SampleRow(row, told)
      BY <2>1, <3>1, <3>2
    <3>4. row = logits'[r] /\ told = rows'[r].told
      BY <2>1, <3>1, <3>2
    <3>5. SampleRow(logits[r], rows[r].told)' = SampleRow(row, told)
      <4>1. PickDtype' = PickDtype
        BY <2>2 DEF PickDtype
      <4>2. \A x : Scaled(row, x)' = Scaled(row, x)
        BY <4>1 DEF Scaled, LeastDivisor
      <4>3. SampleRow(row, told)' = SampleRow(row, told)
        BY <4>1, <4>2 DEF SampleRow
      <4>4. SampleRow(logits[r], rows[r].told)' = SampleRow(row, told)'
        BY <3>4 DEF SampleRow, Scaled
      <4>. QED BY <4>3, <4>4
    <3>. QED BY <2>1, <3>3, <3>4, <3>5
  <2>. QED BY <2>2, <2>3 DEF SamplingInv
<1>4. CASE OutOfMemory
  BY <1>4 DEF OutOfMemory, SamplingInv
<1>5. CASE UNCHANGED samplingVars
  BY <1>5, ZenonT(30) DEF samplingVars, SamplingInv, SampleRow, Argmax, Multinomial, Scaled, PickDtype,
              LeastDivisor
<1>. QED BY <1>1, <1>2, <1>3, <1>4, <1>5 DEF SamplingNext

\* Whatever is refused and admitted.
LEMMA SamplingIsSound == SamplingSpec => []SamplingInv
  BY SamplingInvInit, SamplingInvNext, PTL DEF SamplingSpec

\* What the tick gives a row with good logits.
LEMMA RowOutcome ==
  ASSUME SamplingInv, outcome = "tokens", NEW r \in DOMAIN rows, logits[r] # NaN
  PROVE  /\ device \in {"cuda", "cpu"} /\ Admitted(rows[r].asked)
         /\ logits[r] \in FiniteRow
         /\ picked[r] \in SampleRow(logits[r], Normalize(rows[r].asked))
  BY DEF SamplingInv, Logits, FiniteRow

-----------------------------------------------------------------------------
(* What it says of a request *)

\* A client gets what it asked for, whoever shares its tick: a best token when
\* its temperature means none, and a token that fewer than top_k others beat, for
\* any vocabulary, any ties and any top_k (_normalize, _sample_row).
THEOREM RequestsGetWhatTheyAsked == SamplingSpec => []PicksWhatWasAsked
<1>1. ASSUME SamplingInv PROVE PicksWhatWasAsked
  <2> SUFFICES ASSUME outcome = "tokens", NEW r \in DOMAIN rows,
                      picked[r] # None, logits[r] # NaN
               PROVE  LET asked  == rows[r].asked
                          better == {t \in Vocabulary : logits[r][t] > logits[r][picked[r]]}
                      IN  /\ asked.temperature < SamplingEps => better = {}
                          /\ asked.top_k # None /\ asked.top_k > 0
                               => Cardinality(better) < asked.top_k
    BY DEF PicksWhatWasAsked
  <2>1. PICK body : body = rows[r].asked
    OBVIOUS
  <2>2. PICK row : row = logits[r]
    OBVIOUS
  <2>3. PICK token : token = picked[r]
    OBVIOUS
  <2>4. /\ body.temperature < SamplingEps => Better(row, row[token]) = {}
        /\ body.top_k # None /\ body.top_k > 0
             => Cardinality(Better(row, row[token])) < body.top_k
    BY <1>1, <2>1, <2>2, <2>3, RowOutcome, SampleRowProperties
  <2>. QED BY <2>1, <2>2, <2>3, <2>4 DEF Better
<1>. QED BY <1>1, SamplingIsSound, PTL

\* No parameters that admission lets in make a row fail: 1e-5 divides a logit
\* without overflow in the dtype the model was loaded in, and a cut always
\* leaves a token.
THEOREM NobodyFailsAnybody == SamplingSpec => []FailsForItsOwnLogits
<1>1. ASSUME SamplingInv PROVE FailsForItsOwnLogits
  <2> SUFFICES ASSUME outcome = "tokens", NEW r \in DOMAIN rows,
                      picked[r] = None, logits[r] # NaN
               PROVE  FALSE
    BY DEF FailsForItsOwnLogits
  <2>1. picked[r] \in Vocabulary
    BY <1>1, RowOutcome, SampleRowProperties
  <2>. QED BY <2>1, SamplingAssumption
<1>. QED BY <1>1, SamplingIsSound, PTL
=============================================================================
