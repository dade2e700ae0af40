----------------------------- MODULE QwenRunner -----------------------------
(***************************************************************************)
(* QwenRunner of model_server/runners.py under run_loop: the rectangular   *)
(* batch it builds from ragged sequences (padding, attention mask, position *)
(* ids), what of it is fed to the model, and the KV cache column by column. *)
(*                                                                         *)
(* RunLoop keeps of the cache only whose row it is and how many tokens it  *)
(* holds; here it is `kv`, and the two are shown to agree.  A token is its *)
(* sequence and its place in token_ids: what matters is never which word   *)
(* is attended to, only whose and where.                                   *)
(***************************************************************************)
EXTENDS RunLoop, FiniteSetsExt

\* encode: the chat template puts tokens of its own around every prompt.
ASSUME QwenRunnerAssumption == 0 \notin PromptLens

VARIABLE kv  \* QwenRunner._cache: per row, the columns fed so far; <<>> is None

qwenVars == <<vars, kv>>

PadToken == [id |-> 0, n |-> 0]

\* Sequence.token_ids: prompt and output.
TokenIds(s) == [n \in 1 .. SeqLen(seqs[s]) |-> [id |-> s, n |-> n]]

-----------------------------------------------------------------------------
(* _pad_and_stack *)

Width == Max({SeqLen(seqs[batch[row]]) : row \in DOMAIN batch})

\* Slip: padding on the right.
PadRight(q, filler) == q \o [k \in 1 .. Width - Len(q) |-> filler]

\* [filler] * pad + q
Padded(q, filler) == [k \in 1 .. Width - Len(q) |-> filler] \o q

InputIds(row) == Padded(TokenIds(batch[row]), PadToken)

AttentionMask(row) == Padded([n \in 1 .. SeqLen(seqs[batch[row]]) |-> 1], 0)

\* Slip: positions count the pads.
PositionsOfColumns(row) == [col \in 1 .. Width |-> col - 1]

\* (attention_mask.cumsum(-1) - 1).clamp(min=0)
PositionIds(row) ==
  [col \in 1 .. Width |->
     LET real == {k \in 1 .. col : AttentionMask(row)[k] = 1}
     IN  IF real = {} THEN 0 ELSE Cardinality(real) - 1]

-----------------------------------------------------------------------------
(* execute *)

\* A prefill starts from nothing.
PastKeyValues == IF is_prefill THEN <<>> ELSE kv

\* The columns handed to the model: all of them, or with a cache the last one.
Fed(row) ==
  LET column(c) == [token |-> InputIds(row)[c], pos |-> PositionIds(row)[c]]
  IN  IF PastKeyValues = <<>> THEN [c \in 1 .. Width |-> column(c)] ELSE <<column(Width)>>

\* out.past_key_values: what was there, and what was fed.
KvAfter ==
  [row \in DOMAIN batch |->
     (IF PastKeyValues = <<>> THEN <<>> ELSE PastKeyValues[row]) \o Fed(row)]

\* What a row attends to in this pass: the mask spans cached and fed columns.
Attended(row) == Retain(KvAfter[row], {c \in 1 .. Width : AttentionMask(row)[c] = 1})

-----------------------------------------------------------------------------
QwenInit == Init /\ kv = <<>>

Execute == ExecReturns /\ kv' = KvAfter

\* reset, when the loop finds its batch empty.
DropCache == Reset /\ kv' = <<>>

\* What becomes of the tensors of a pass that raised does not matter any more.
Elsewhere ==
  /\ \/ Submit(EosIds)
     \/ \E id \in Ids : Cancel(id)
     \/ Sleep \/ Wake \/ Dispatch \/ AwaitRaises \/ CancelledInSleep
  /\ UNCHANGED kv

QwenNext == Execute \/ DropCache \/ Elsewhere

QwenSpec == QwenInit /\ [][QwenNext]_qwenVars

-----------------------------------------------------------------------------
\* In every forward pass every row attends to exactly its own tokens, all of
\* them, in order, at positions 0, 1, 2, ..., and the last column, the one whose
\* logits are sampled, is its newest token: whatever lengths share the batch and
\* however rows came and went before (runners.py:142-149, :230-234).
AttendsToItself ==
  pc = "exec" =>
    \A row \in DOMAIN batch :
      LET s == batch[row]
          n == SeqLen(seqs[s])
      IN  /\ Len(KvAfter[row]) = Width
          /\ Attended(row) = [k \in 1 .. n |-> [token |-> [id |-> s, n |-> k], pos |-> k - 1]]
          /\ KvAfter[row][Width].token = [id |-> s, n |-> n]

\* The tensors are what RunLoop's `cache` says, so what is shown and proved of it
\* (CacheDescribesBatch) holds of them: the same rows, each with that many
\* tokens of its sequence and nothing else but pads, in rows of equal width; and
\* none once the loop has nothing to run (run_loop calls reset).
CacheIsTheTensor ==
  /\ DOMAIN kv = DOMAIN cache
  /\ \A row \in DOMAIN kv :
       /\ Len(kv[row]) = Len(kv[1])
       /\ Retain(kv[row], {c \in DOMAIN kv[row] : kv[row][c].token # PadToken})
            = [k \in 1 .. cache[row].held |->
                 [token |-> [id |-> cache[row].id, n |-> k], pos |-> k - 1]]
=============================================================================
