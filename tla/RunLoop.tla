------------------------------- MODULE RunLoop -------------------------------
(***************************************************************************)
(* run_loop of model_server/batching.py: the one background task that       *)
(* drives the runner, with the runner's KV cache as ForwardBatch and        *)
(* QwenRunner.execute (model_server/runners.py) keep it.                    *)
(*                                                                         *)
(* The loop is a coroutine: between two awaits nothing else runs on the     *)
(* event loop.  It awaits in two places, the idle sleep (pc = "idle") and   *)
(* the worker thread (pc = "exec"); at pc = "top" it holds the event loop,  *)
(* so no request handler takes a step then.  After a tick it goes from      *)
(* recording the results to the next dispatch without giving anybody a      *)
(* chance to run.                                                           *)
(*                                                                         *)
(* The clients of this module are the most general ones: a request may      *)
(* arrive, and any request may be abandoned, whenever the event loop is     *)
(* free.  Engine says which client code does that.                          *)
(***************************************************************************)
EXTENDS Scheduler

CONSTANT EosIds  \* runner.eos_token_ids

ASSUME RunLoopAssumption == EosIds \subseteq Tokens

VARIABLES
  pc,          \* "top" | "idle" | "exec" | "dead": where the task is
  batch,       \* the local `batch`, as ids
  is_prefill,  \* the local `is_prefill`
  members,     \* the local `members`: the batch of the last completed tick
  cache        \* runner._cache: per row, whose tokens and how many columns

schedVars == <<seqs, waiting, running>>
loopVars  == <<pc, batch, is_prefill, members, cache>>
vars      == <<schedVars, loopVars>>

NoCache == <<>>
CacheRow == [id : Nat, held : Nat]

-----------------------------------------------------------------------------
Init ==
  /\ InitScheduler
  /\ pc = "top"
  /\ batch = <<>>
  /\ is_prefill = FALSE
  /\ members = <<>>
  /\ cache = NoCache

\* What handlers can do: only between two awaits of the loop.
EventLoopFree == pc # "top"

\* BatchingEngine._submit: prompt_to_sequence tokenizes the prompt and takes
\* the stop tokens from the runner, add enqueues the result.
Submit(eos) ==
  /\ EventLoopFree
  /\ Len(seqs) < MaxRequests
  /\ \E p \in PromptLens, m \in MaxNews : Add(p, m, eos)
  /\ UNCHANGED loopVars

\* BatchingEngine.cancel.
Cancel(id) ==
  /\ EventLoopFree
  /\ Abort(id, "cancelled")
  /\ UNCHANGED loopVars

-----------------------------------------------------------------------------
(* The loop *)

\* No work: await asyncio.sleep(idle_sleep).
Sleep ==
  /\ pc = "top"
  /\ ~HasWork
  /\ pc' = "idle"
  /\ UNCHANGED <<schedVars, batch, is_prefill, members, cache>>

Wake ==
  /\ pc = "idle"
  /\ pc' = "top"
  /\ UNCHANGED <<schedVars, batch, is_prefill, members, cache>>

\* schedule returned nothing: forget the members, drop the runner's cache.
Reset ==
  /\ pc = "top"
  /\ HasWork
  /\ Schedule
  /\ running' = <<>>
  /\ batch' = <<>>
  /\ members' = <<>>
  /\ cache' = NoCache
  /\ UNCHANGED <<pc, is_prefill>>

\* Slip: only the size of the batch is compared.
MembershipCountChanged(current) == Len(current) # Len(members)

\* `current != members`: order matters, the cache is indexed by row position.
MembershipChanged(current) == current # members

\* schedule returned a batch: hand it to the worker thread.
Dispatch ==
  /\ pc = "top"
  /\ HasWork
  /\ Schedule
  /\ running' # <<>>
  /\ batch' = running'
  /\ is_prefill' = MembershipChanged(batch')
  /\ pc' = "exec"
  /\ UNCHANGED <<members, cache>>

\* Slip: a prefill that finds a cache keeps it.
ForwardKeepsCache ==
  IF cache = NoCache
  THEN [row \in DOMAIN batch |-> [id |-> batch[row], held |-> SeqLen(seqs[batch[row]])]]
  ELSE [row \in DOMAIN cache |-> [cache[row] EXCEPT !.held = @ + 1]]

\* QwenRunner.execute: a prefill drops the cache, and without one every token
\* of every row is fed; with one only the last column is.
Forward ==
  IF is_prefill \/ cache = NoCache
  THEN [row \in DOMAIN batch |-> [id |-> batch[row], held |-> SeqLen(seqs[batch[row]])]]
  ELSE [row \in DOMAIN cache |-> [cache[row] EXCEPT !.held = @ + 1]]

\* execute came back with a token, or None, per row.
Tick(next_ids) ==
  /\ pc = "exec"
  /\ Record(batch, next_ids)
  /\ cache' = Forward
  /\ members' = batch
  /\ pc' = "top"
  /\ UNCHANGED <<batch, is_prefill>>

ExecReturns == \E next_ids \in [DOMAIN batch -> Tokens \cup {None}] : Tick(next_ids)

\* The await on the worker thread raised: execute failed for the whole batch,
\* or loop_task.cancel() delivered CancelledError there.  Both handlers fail
\* every request in flight and re-raise, and the task is done.  What execute
\* left in the cache does not matter any more.
AwaitRaises ==
  /\ pc = "exec"
  /\ FailAll
  /\ pc' = "dead"
  /\ UNCHANGED <<batch, is_prefill, members, cache>>

\* loop_task.cancel() during the idle sleep: no handler there, so what arrived
\* since the sleep began stays in waiting.
CancelledInSleep ==
  /\ pc = "idle"
  /\ pc' = "dead"
  /\ UNCHANGED <<schedVars, batch, is_prefill, members, cache>>

-----------------------------------------------------------------------------
LoopStep == Sleep \/ Wake \/ Reset \/ Dispatch \/ ExecReturns \/ AwaitRaises

Next ==
  \/ Submit(EosIds)
  \/ \E id \in Ids : Cancel(id)
  \/ LoopStep
  \/ CancelledInSleep

\* The event loop runs the task whenever it is ready, and a forward pass ends.
Spec == Init /\ [][Next]_vars /\ WF_vars(LoopStep)

-----------------------------------------------------------------------------
(* Safety *)

TypeOK ==
  /\ SchedulerTypeOK
  /\ pc \in {"top", "idle", "exec", "dead"}
  /\ batch \in Seq(Ids)
  /\ is_prefill \in BOOLEAN
  /\ members \in Seq(Ids)
  /\ cache \in Seq(CacheRow)

\* The batch never has more rows than the cache has room for, whatever is
\* admitted while finished and cancelled rows still sit in the deque.
BatchCapacity == Len(running) <= MaxBatchSize

\* Nothing is dropped on the floor and nothing counted twice: the two gauges
\* of /metrics add up to the requests that have no verdict yet, at every point
\* a scrape can happen, also for requests cancelled under way.
CountedOnce ==
  NumRunning + NumWaiting = Cardinality({id \in Ids : ~IsFinished(seqs[id])})

\* A consumer blocked on its queue is released exactly when its request has a
\* verdict: the last thing emitted is None if and only if there is one.
SentinelIffVerdict ==
  \A id \in Ids : LET q == seqs[id].queue
                  IN  IsFinished(seqs[id]) <=> q # <<>> /\ q[Len(q)] = None

\* The verdict is what really happened: "stop" means the last token, and only
\* the last, is a stop token; "length" that the budget is spent without one;
\* nobody gets more than max_new tokens (batching.py:151, :160).
HonestVerdict ==
  \A id \in Ids :
    LET s == seqs[id]
        n == Len(s.output_ids)
        stops == {k \in 1 .. n : s.output_ids[k] \in s.eos_token_ids}
    IN  /\ n <= s.max_new
        /\ stops \subseteq {n}
        /\ s.finish_reason = "stop" <=> stops # {}
        /\ s.finish_reason = "length" => n = s.max_new
        /\ ~IsFinished(s) => n < s.max_new

\* What was emitted is the output, in order, with at most two sentinels in it:
\* abort and a tick that was already in flight may both emit one.
StreamIsOutput ==
  \A id \in Ids :
    LET q == seqs[id].queue
        data == {p \in DOMAIN q : q[p] # None}
    IN  /\ Retain(q, data) = seqs[id].output_ids
        /\ Cardinality(DOMAIN q \ data) <= 2

\* When the runner decodes against its cache, the cache holds the rows of this
\* batch, in this order, with every token but the newest (runners.py:230); any
\* other cache makes fluent nonsense silently.
CacheDescribesBatch ==
  pc = "exec" /\ ~is_prefill =>
    /\ DOMAIN cache = DOMAIN batch
    /\ \A row \in DOMAIN batch :
         /\ cache[row].id = batch[row]
         /\ cache[row].held = SeqLen(seqs[batch[row]]) - 1

\* What keeps CacheDescribesBatch true across ticks: `members` names the rows of
\* the cache at all times (batching.py:252), and the rows of requests that are
\* still going hold every token but the newest.  What happens between a tick and
\* the next dispatch (arrivals, cancellations, admission) does not change that.
CacheFollowsMembers ==
  /\ DOMAIN cache = DOMAIN members
  /\ \A row \in DOMAIN members :
       /\ cache[row].id = members[row]
       /\ \/ IsFinished(seqs[members[row]])
          \/ cache[row].held = SeqLen(seqs[members[row]]) - 1
  /\ pc = "exec" => batch = running /\ (is_prefill \/ members = batch)

\* How far decoding may take a shared batch over the admission budget: each row
\* of a forward pass has grown by at most what the most recently admitted row has generated.
BudgetOvershoot ==
  pc = "exec" /\ Len(batch) > 1 =>
    TotalTokens(batch) <=
      MaxBatchTokens + Len(batch) * Len(seqs[batch[Len(batch)]].output_ids)

-----------------------------------------------------------------------------
(* Actions *)

\* A row whose request is over never gets another forward pass: what is handed
\* to the worker thread has no verdict yet.  With BatchCapacity this is what
\* keeps a slot from being held for nobody (batching.py:119).
NoWorkForTheFinished ==
  [][ pc = "top" /\ pc' = "exec"
        => \A row \in DOMAIN batch' : ~IsFinished(seqs'[batch'[row]]) ]_vars

\* A verdict other than "cancelled" is final, and so is the output under it.
\* A cancelled request may be overtaken by the tick that was in flight, for one
\* token, and by nothing else.
VerdictIsFinal ==
  [][ \A id \in Ids :
        LET old == seqs[id]
            new == seqs'[id]
        IN  IsFinished(old) =>
              \/ new.finish_reason = old.finish_reason /\ new.output_ids = old.output_ids
              \/ /\ old.finish_reason = "cancelled"
                 /\ new.finish_reason \in {"cancelled", "stop", "length"}
                 /\ Len(new.output_ids) = Len(old.output_ids) + 1
                 /\ pc = "exec" /\ id \in Range(batch) ]_vars

-----------------------------------------------------------------------------
(* Liveness *)

\* Every request gets a verdict, unless the loop dies first: nobody waits
\* forever, be its prompt over the whole token budget (batching.py:129).
EventuallyFinished ==
  \A id \in 1 .. MaxRequests :
    (id \in Ids) ~> (pc = "dead" \/ (id \in Ids /\ IsFinished(seqs[id])))

\* The loop always gives the event loop back: an empty batch is never followed
\* by another one without a sleep, or no handler would run again.
LoopYields == (pc = "top") ~> (pc # "top")

=============================================================================
