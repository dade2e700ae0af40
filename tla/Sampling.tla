------------------------------ MODULE Sampling ------------------------------
(***************************************************************************)
(* From the body of a request to the token that is picked for it: what     *)
(* CompletionRequest of model_server/main.py lets in and how it rewrites   *)
(* it, the weights' dtype (qwen.py), and QwenRunner._sample over the rows  *)
(* that share a tick (runners.py).                                         *)
(*                                                                         *)
(* Temperatures are on an integer scale with the two thresholds of the     *)
(* code on it.  A row of logits is a number per token, of which only order *)
(* and sign matter, or NaN for one with a NaN in it.  A body whose fields  *)
(* have the wrong types is refused as one that is out of range is.         *)
(***************************************************************************)
EXTENDS Integers, Sequences, FiniteSets, Functions

CONSTANTS
  MaxRows,         \* bound: requests
  Temperatures,    \* what a body may carry: below, between and above the thresholds
  TopKs,           \* integers or None
  MaxTokens,       \* integers
  SamplingEps,     \* SAMPLING_EPS
  MaxTemperature,  \* le=2.0
  Vocabulary,      \* token ids
  Scores,          \* integers: finite logits
  NaN,
  None

\* The two infinities, beyond every finite logit.
Inf == 1000
NegInf == -1000

ASSUME SamplingAssumption ==
  /\ MaxRows \in Nat
  /\ Temperatures \subseteq Int /\ TopKs \ {None} \subseteq Int /\ MaxTokens \subseteq Int
  /\ SamplingEps \in Nat \ {0} /\ MaxTemperature \in Nat /\ SamplingEps < MaxTemperature
  /\ IsFiniteSet(Vocabulary) /\ Vocabulary # {} /\ None \notin Vocabulary
  /\ Scores \subseteq NegInf + 1 .. Inf - 1

VARIABLES
  device,   \* where the model runs
  refused,  \* how many requests got a 400
  rows,     \* the batch: what each request asked for, and what the runner is told
  logits,   \* out.logits[:, -1, :], <<>> before the tick
  outcome,  \* "" | "tokens" | "raised": how _sample ended
  picked    \* per row a token or None

samplingVars == <<device, refused, rows, logits, outcome, picked>>

Bodies == [temperature : Temperatures, top_k : TopKs, max_tokens : MaxTokens]

-----------------------------------------------------------------------------
(* Admission *)

\* The Field constraints of CompletionRequest.
Valid(body) ==
  /\ body.max_tokens >= 0
  /\ 0 <= body.temperature /\ body.temperature <= MaxTemperature
  /\ body.top_k # None => body.top_k >= -1

\* Slip: a temperature is taken as it comes.
NormalizeTopKOnly(body) == [body EXCEPT !.top_k = IF @ # None /\ @ <= 0 THEN None ELSE @]

\* _normalize
Normalize(body) ==
  [body EXCEPT !.temperature = IF @ < SamplingEps THEN 0 ELSE @,
               !.top_k = IF @ # None /\ @ <= 0 THEN None ELSE @]

\* load_qwen, as far as it matters here.
SamplingInit ==
  /\ device \in {"cuda", "cpu"}
  /\ refused = 0
  /\ rows = <<>> /\ logits = <<>> /\ outcome = "" /\ picked = <<>>

Receive == outcome = "" /\ Len(rows) + refused < MaxRows

\* _invalid_request: nothing of it reaches the engine.
Refuse ==
  /\ Receive
  /\ \E body \in Bodies : ~Valid(body)
  /\ refused' = refused + 1
  /\ UNCHANGED <<device, rows, logits, outcome, picked>>

Admit ==
  /\ Receive
  /\ \E body \in Bodies :
       /\ Valid(body)
       /\ rows' = Append(rows, [asked |-> body, told |-> Normalize(body)])
  /\ UNCHANGED <<device, refused, logits, outcome, picked>>

-----------------------------------------------------------------------------
(* _sample_row: the tokens a row may yield, None if it raises *)

PickDtype == IF device = "cuda" THEN "bfloat16" ELSE "float32"

\* The smallest temperature a logit can be divided by without overflow: 1e-5 is
\* far from it for the exponents of these two, and beyond it for float16's.
LeastDivisor == [bfloat16 |-> SamplingEps, float32 |-> SamplingEps, float16 |-> SamplingEps + 1]

\* row_logits / temperature
Scaled(row, temperature) ==
  IF temperature >= LeastDivisor[PickDtype] THEN row
  ELSE [t \in Vocabulary |-> IF row[t] > 0 THEN Inf ELSE IF row[t] < 0 THEN NegInf ELSE 0]

\* kept[-1]: the k-th largest value, counting equal ones.
KthLargest(row, k) ==
  CHOOSE v \in Range(row) :
    /\ Cardinality({t \in Vocabulary : row[t] > v}) < k
    /\ Cardinality({t \in Vocabulary : row[t] >= v}) >= k

\* Slip: one more than asked for.
MaskOneMore(row, top_k) ==
  IF top_k = None \/ top_k \notin 1 .. Cardinality(Vocabulary) - 1 THEN row
  ELSE [t \in Vocabulary |-> IF row[t] < KthLargest(row, top_k + 1) THEN NegInf ELSE row[t]]

\* masked_fill of everything below the k-th, k clamped to the vocabulary.
Mask(row, top_k) ==
  IF top_k = None \/ top_k <= 0 THEN row
  ELSE LET k == IF top_k < Cardinality(Vocabulary) THEN top_k ELSE Cardinality(Vocabulary)
       IN  [t \in Vocabulary |-> IF row[t] < KthLargest(row, k) THEN NegInf ELSE row[t]]

\* softmax and multinomial: an infinity, or nothing left, makes NaNs of the
\* probabilities, and multinomial raises (on the CPU: a GPU trips an assertion).
Multinomial(row) ==
  IF Inf \in Range(row) \/ Range(row) = {NegInf} THEN {None}
  ELSE {t \in Vocabulary : row[t] # NegInf}

\* A NaN counts as the largest.
Argmax(row) ==
  IF row = NaN THEN Vocabulary
  ELSE {t \in Vocabulary : \A u \in Vocabulary : row[u] <= row[t]}

SampleRow(row, told) ==
  IF told.temperature <= 0 THEN Argmax(row)
  ELSE IF row = NaN THEN {None}
  ELSE Multinomial(Mask(Scaled(row, told.temperature), told.top_k))

-----------------------------------------------------------------------------
(* _sample *)

Logits == [Vocabulary -> Scores] \cup {NaN}

\* One row after the other, each with its own parameters; a row that raises
\* yields None.
Sample ==
  /\ outcome = "" /\ rows # <<>>
  /\ \E l \in [DOMAIN rows -> Logits], p \in [DOMAIN rows -> Vocabulary \cup {None}] :
       /\ \A r \in DOMAIN rows : p[r] \in SampleRow(l[r], rows[r].told)
       /\ logits' = l
       /\ picked' = p
  /\ outcome' = "tokens"
  /\ UNCHANGED <<device, refused, rows>>

\* The allocator gives up under some row, and everybody goes down.
OutOfMemory ==
  /\ outcome = "" /\ rows # <<>>
  /\ outcome' = "raised"
  /\ UNCHANGED <<device, refused, rows, logits, picked>>

SamplingNext == Refuse \/ Admit \/ Sample \/ OutOfMemory

SamplingSpec == SamplingInit /\ [][SamplingNext]_samplingVars

-----------------------------------------------------------------------------
\* What a client is given is what it asked for, in its own words and whoever
\* shares the tick: with a temperature that means none, a best token; with a
\* top_k, a token fewer than k are better than, whatever the size of the
\* vocabulary (main.py:75, :83, runners.py:183).
PicksWhatWasAsked ==
  outcome = "tokens" =>
    \A r \in DOMAIN rows :
      picked[r] # None /\ logits[r] # NaN =>
        LET asked  == rows[r].asked
            better == {t \in Vocabulary : logits[r][t] > logits[r][picked[r]]}
        IN  /\ asked.temperature < SamplingEps => better = {}
            /\ asked.top_k # None /\ asked.top_k > 0 => Cardinality(better) < asked.top_k

\* No request that was let in can fail itself or another by what it asks for:
\* a row comes back without a token only if its own logits are broken
\* (main.py:58, runners.py:190).
FailsForItsOwnLogits ==
  outcome = "tokens" => \A r \in DOMAIN rows : picked[r] = None => logits[r] = NaN
=============================================================================
