------------------------------ MODULE Scheduler ------------------------------
(***************************************************************************)
(* The continuous-batching scheduler of model_server/batching.py: the      *)
(* Sequence dataclass (one request's tokens, verdict and output queue) and *)
(* the Scheduler (two deques and an admission rule).                       *)
(*                                                                         *)
(* This module is the component's state and one operator per method.  The  *)
(* methods are synchronous code on one event loop, so each is one step;    *)
(* RunLoop and the modules above it decide who may call them when.         *)
(*                                                                         *)
(* Requests are numbered 1, 2, ... in order of arrival, as batching.py     *)
(* numbers them from an itertools.count.  A request's `queue` is kept as   *)
(* the whole history of what was put in it; consumers hold a read index.   *)
(***************************************************************************)
EXTENDS Integers, Sequences, FiniteSets, Functions

CONSTANTS
  MaxRequests,     \* bound: how many requests ever arrive
  MaxBatchSize,    \* Scheduler.max_batch_size  (MAX_BATCH_SIZE)
  MaxBatchTokens,  \* Scheduler.max_batch_tokens (MAX_BATCH_TOKENS)
  PromptLens,      \* lengths a tokenized prompt may have
  MaxNews,         \* values of max_new_tokens a request may carry
  Tokens,          \* the vocabulary
  None             \* Python's None: end-of-stream sentinel, or a failed row

\* max_batch_size is at least 1: the CRD has Minimum=1 on maxBatchSize
\* (api/v1alpha1/modelserver_types.go:65) and the default is 8.
ASSUME SchedulerAssumption ==
  /\ MaxRequests \in Nat
  /\ MaxBatchSize \in Nat \ {0}
  /\ MaxBatchTokens \in Nat
  /\ PromptLens \subseteq Nat
  /\ MaxNews \subseteq Nat
  /\ None \notin Tokens

VARIABLES
  seqs,     \* every Sequence created so far; its index is Sequence.id
  waiting,  \* Scheduler.waiting: ids that arrived and hold no KV cache
  running   \* Scheduler.running: ids occupying cache

Ids == DOMAIN seqs

FinishReasons == {"stop", "length", "cancelled", "error"}

Sequence ==
  [prompt_len    : Nat,
   max_new       : Nat,
   eos_token_ids : SUBSET Tokens,
   output_ids    : Seq(Tokens),
   finish_reason : FinishReasons \cup {""},
   queue         : Seq(Tokens \cup {None})]

-----------------------------------------------------------------------------
(* Sequence *)

NewSequence(prompt_len, max_new, eos) ==
  [prompt_len |-> prompt_len, max_new |-> max_new, eos_token_ids |-> eos,
   output_ids |-> <<>>, finish_reason |-> "", queue |-> <<>>]

\* Sequence.__len__: prompt plus output.
SeqLen(s) == s.prompt_len + Len(s.output_ids)

IsFinished(s) == s.finish_reason # ""

\* call_soon_threadsafe keeps the order of emissions; the delay until the put
\* happens is part of the consumer's delay in reading.
Emit(s, token) == [s EXCEPT !.queue = Append(@, token)]

\* Slip: the length limit tested before the stop tokens.
VerdictLengthFirst(s, token) ==
  IF Len(s.output_ids) + 1 >= s.max_new THEN "length"
  ELSE IF token \in s.eos_token_ids THEN "stop"
  ELSE s.finish_reason

Verdict(s, token) ==
  IF token \in s.eos_token_ids THEN "stop"
  ELSE IF Len(s.output_ids) + 1 >= s.max_new THEN "length"
  ELSE s.finish_reason

\* Slip: the sentinel only for sequences that stopped on their own.
AppendTokenSentinelOnStop(s, token) ==
  LET grown == [s EXCEPT !.output_ids = Append(@, token),
                         !.queue = Append(@, token),
                         !.finish_reason = Verdict(s, token)]
  IN  IF grown.finish_reason = "stop" THEN Emit(grown, None) ELSE grown

\* The body of postprocess's loop, for one row that produced a token.  A row
\* cancelled while it was on the worker thread takes this path as well.
AppendToken(s, token) ==
  LET grown == [s EXCEPT !.output_ids = Append(@, token),
                         !.queue = Append(@, token),
                         !.finish_reason = Verdict(s, token)]
  IN  IF IsFinished(grown) THEN Emit(grown, None) ELSE grown

\* Slip: abort without its early return.
GiveUpAgain(s, reason) == Emit([s EXCEPT !.finish_reason = reason], None)

\* Scheduler.abort, the part that concerns the sequence itself.
GiveUp(s, reason) ==
  IF IsFinished(s) THEN s
  ELSE Emit([s EXCEPT !.finish_reason = reason], None)

\* Slip: fail_all overwrites verdicts already given.
FailOverwrites(s) == Emit([s EXCEPT !.finish_reason = "error"], None)

\* fail_all's loop body: the verdict is only set if there is none yet, the
\* sentinel is emitted either way.
Fail(s) ==
  Emit(IF IsFinished(s) THEN s ELSE [s EXCEPT !.finish_reason = "error"], None)

-----------------------------------------------------------------------------
(* Helpers on the deques *)

\* The subsequence of q at the positions K: its n-th element is the element
\* of q whose position is the n-th smallest of K.
NthOf(K, n) == CHOOSE i \in K : Cardinality({j \in K : j <= i}) = n
Retain(q, K) == [n \in 1 .. Cardinality(K) |-> q[NthOf(K, n)]]

\* deque.remove(seq): an id is at most once in a deque.
Without(q, id) == Retain(q, {p \in DOMAIN q : q[p] # id})

\* sum(len(s) for s in q)
TotalTokens(q) == SumFunction([p \in DOMAIN q |-> SeqLen(seqs[q[p]])])

-----------------------------------------------------------------------------
(* Scheduler *)

InitScheduler ==
  /\ seqs = <<>>
  /\ waiting = <<>>
  /\ running = <<>>

\* Scheduler.add of a sequence just built by prompt_to_sequence.
Add(prompt_len, max_new, eos) ==
  LET s == NewSequence(prompt_len, max_new, eos)
  IN  IF max_new <= 0
      THEN /\ seqs' = Append(seqs, Emit([s EXCEPT !.finish_reason = "length"], None))
           /\ UNCHANGED <<waiting, running>>
      ELSE /\ seqs' = Append(seqs, s)
           /\ waiting' = Append(waiting, Len(seqs) + 1)
           /\ UNCHANGED running

\* Slip: the sweep of finished sequences forgotten.
UnfinishedNoSweep(q) == q

\* schedule's first line: running without its finished sequences.
Unfinished(q) == Retain(q, {p \in DOMAIN q : ~IsFinished(seqs[q[p]])})

\* Slips in the admission test: capacity off by one; the candidate's own
\* tokens left out of the sum; no exception for an empty batch.
FitsOneMore(kept, j) ==
  /\ Len(kept) + j <= MaxBatchSize + 1
  /\ \/ Len(kept) + j = 1
     \/ TotalTokens(kept \o SubSeq(waiting, 1, j)) <= MaxBatchTokens
FitsWithoutCandidate(kept, j) ==
  /\ Len(kept) + j <= MaxBatchSize
  /\ \/ Len(kept) + j = 1
     \/ TotalTokens(kept \o SubSeq(waiting, 1, j - 1)) <= MaxBatchTokens
FitsNoException(kept, j) ==
  /\ Len(kept) + j <= MaxBatchSize
  /\ TotalTokens(kept \o SubSeq(waiting, 1, j)) <= MaxBatchTokens

\* The while loop's two tests, for the j-th request of waiting once those
\* before it were admitted behind `kept`.
Fits(kept, j) ==
  /\ Len(kept) + j <= MaxBatchSize
  /\ \/ Len(kept) + j = 1
     \/ TotalTokens(kept \o SubSeq(waiting, 1, j)) <= MaxBatchTokens

\* Slip: a head that does not fit is skipped, not waited for.
ScheduleSkipsAhead ==
  LET kept == Unfinished(running)
  IN  \/ /\ waiting # <<>> /\ Fits(kept, 1)
         /\ running' = Append(kept, Head(waiting))
         /\ waiting' = Tail(waiting)
         /\ UNCHANGED seqs
      \/ /\ waiting # <<>> /\ ~Fits(kept, 1)
         /\ \E p \in 2 .. Len(waiting) :
              /\ Len(kept) < MaxBatchSize
              /\ TotalTokens(Append(kept, waiting[p])) <= MaxBatchTokens
              /\ running' = Append(kept, waiting[p])
              /\ waiting' = Without(waiting, waiting[p])
         /\ UNCHANGED seqs
      \/ /\ waiting = <<>>
         /\ running' = kept
         /\ UNCHANGED <<seqs, waiting>>

\* schedule: drop the finished, then admit from the head of waiting until the
\* first that does not fit.
Schedule ==
  LET kept == Unfinished(running)
  IN  \E k \in 0 .. Len(waiting) :
        /\ \A j \in 1 .. k : Fits(kept, j)
        /\ k < Len(waiting) => ~Fits(kept, k + 1)
        /\ running' = kept \o SubSeq(waiting, 1, k)
        /\ waiting' = SubSeq(waiting, k + 1, Len(waiting))
        /\ UNCHANGED seqs

\* Slip: abort leaves the request in waiting.
AbortStillWaiting(id, reason) ==
  /\ seqs' = [seqs EXCEPT ![id] = GiveUp(@, reason)]
  /\ UNCHANGED <<waiting, running>>

\* abort(seq, reason): a no-op on a finished sequence.
Abort(id, reason) ==
  /\ seqs' = [seqs EXCEPT ![id] = GiveUp(@, reason)]
  /\ waiting' = IF IsFinished(seqs[id]) THEN waiting ELSE Without(waiting, id)
  /\ UNCHANGED running

\* Slip: a failed row is treated like any other token.
RecordFailedRows(batch, next_ids) ==
  /\ seqs' = [id \in Ids |->
        IF \E row \in DOMAIN batch : batch[row] = id
        THEN AppendToken(seqs[id], next_ids[CHOOSE r \in DOMAIN batch : batch[r] = id])
        ELSE seqs[id]]
  /\ UNCHANGED <<waiting, running>>

\* What the loop does with a tick's results: abort the rows whose result is
\* None, postprocess the others.  The rows are in no deque but running, which
\* abort leaves alone: schedule drops them.
Record(batch, next_ids) ==
  /\ seqs' = [id \in Ids |->
        IF \E row \in DOMAIN batch : batch[row] = id
        THEN LET row == CHOOSE r \in DOMAIN batch : batch[r] = id
             IN  IF next_ids[row] = None
                 THEN GiveUp(seqs[id], "error")
                 ELSE AppendToken(seqs[id], next_ids[row])
        ELSE seqs[id]]
  /\ UNCHANGED <<waiting, running>>

InFlight == Range(running) \cup Range(waiting)

\* Slip: the waiting requests are dropped without being failed.
FailAllRunning ==
  /\ seqs' = [id \in Ids |-> IF id \in Range(running) THEN Fail(seqs[id]) ELSE seqs[id]]
  /\ running' = <<>>
  /\ waiting' = <<>>

FailAll ==
  /\ seqs' = [id \in Ids |-> IF id \in InFlight THEN Fail(seqs[id]) ELSE seqs[id]]
  /\ running' = <<>>
  /\ waiting' = <<>>

HasWork == waiting # <<>> \/ running # <<>>

\* The two gauges of /metrics.
NumRunning == Cardinality({p \in DOMAIN running : ~IsFinished(seqs[running[p]])})
NumWaiting == Len(waiting)

-----------------------------------------------------------------------------
(* What holds of the scheduler's state, whoever drives it *)

SchedulerTypeOK ==
  /\ seqs \in Seq(Sequence)
  /\ waiting \in Seq(Ids)
  /\ running \in Seq(Ids)

Increasing(q) == \A i, j \in DOMAIN q : i < j => q[i] < q[j]

\* Requests are served in order of arrival, and none twice: reading running
\* and then waiting gives ids that only go up.  Skipping ahead, re-queueing or
\* appending in the wrong order breaks it (batching.py:136).
FirstComeFirstServed == Increasing(running \o waiting)

\* A request still waiting has produced nothing and has no verdict: a cancelled
\* one is gone from waiting (batching.py:191), an admitted one never goes back.
WaitingUntouched ==
  \A id \in Range(waiting) : ~IsFinished(seqs[id]) /\ seqs[id].queue = <<>>
=============================================================================
