# A verification development for nano-kube-llm-server

nano-kube-llm-server runs one language model behind an OpenAI-style HTTP API on
Kubernetes: a Python model server that batches requests continuously, and a Go
controller that turns a `ModelServer` resource into a Deployment and a Service.
This directory holds TLA+ modules translated from that code, the TLC
configurations that check them on small instances, and proofs, checked by TLAPS,
of what holds for every size.

The model server comes first because that is where the hard behaviour is: one
shared scheduler, one background loop, many request handlers, a KV cache that is
right only as long as the batch does not change, and clients that leave at any
moment. The controller comes second, then the Pod it runs the server in.

## 1. Inventory

### The model server (`src/model_server/`)

| Part | State it keeps | Operations | What makes it correct |
|---|---|---|---|
| `Sequence` (`batching.py`) | prompt, output so far, verdict (`finish_reason`), a queue to its consumer | `emit`, `__len__`, `is_finished` | a consumer is released exactly when there is a verdict; verdicts are honest and final |
| `Scheduler` (`batching.py`) | the deques `waiting` and `running` | `add`, `schedule`, `postprocess`, `abort`, `fail_all`, the two gauges | arrival order, batch capacity, admission budget, nothing lost or counted twice |
| `run_loop` (`batching.py`) | the batch on the worker thread, the members of the last one | one tick: schedule, execute on a thread, abort the failed rows, postprocess | no work for finished requests; a decode only against a cache that describes the batch; never spins; when it dies it fails everybody in flight |
| Runners (`runners.py`, `qwen.py`) | the KV cache, its attention mask and positions | `encode`, `decode`, `reset`, `execute` | padding, masks and positions; a failed row is `None`, a failed batch raises |
| `BatchingEngine` (`engines.py`) | none of its own: one coroutine per request | `generate`, `stream`, `cancel` | text only ever extends, the terminal chunk is the verdict, nobody's departure leaves work behind |
| HTTP layer (`main.py`) | settings, the loop task, `engine.runner`, the `loaded` flag | `/v1/completions`, `/health`, `/metrics`, startup, the background `_load` | true statuses; ready means the configured model; requests accepted are answered |

They interact inside one process. Handlers call the scheduler directly
(`add`, `abort`); the loop answers through each sequence's queue; `execute` runs
on a worker thread, so handlers run *during* a tick and the loop then records a
result for rows that may have been cancelled meanwhile. Everything else shares one
asyncio event loop: between two awaits a coroutine runs alone. The background load
cancels the loop task, replaces the runner and creates a new loop task.

### The control plane (`src/internal/controller`, `src/api`, `src/cmd`)

| Part | State | Operations | What makes it correct |
|---|---|---|---|
| Controller | the `ModelServer`, its Deployment and Service in the API server | `Reconcile`: apply Deployment, apply Service, `updateStatus` | drift is repaired, status tells the truth about the rollout, repeated runs converge |
| Probes and pods | container state, probe counters | startup, readiness and liveness polls of `/health` | a dead loop leads to a restart, a slow load does not |
| Manager | none of its own | flags and wiring | - |

`bench.py` is a load generator and the rest of the tree is manifests and build
files; neither is part of the served system's behaviour.

### Where it is hard

- A row is cancelled while its tick is on the worker thread.
- Several arrivals, cancellations and failed rows fall between two ticks, and the
  loop must notice that the cache no longer describes the batch.
- The loop dies, or is replaced, with requests running, waiting, being read, and
  accepted but not yet submitted.
- A prompt larger than the whole token budget sits at the head of the queue.
- A stream reads a queue that lags behind the output it decodes.
- Rows of different lengths share tensors whose pads were laid out ticks ago, and requests
  with different parameters share a sampler on whose worker thread nothing may raise.
- A stream sends text that decoding more tokens may still change.
- Three probes poll a server that may be loading, stuck, busy or dead, and answers the same
  503, or nothing, in every case.
- The controller reads caches that lag behind the objects it writes, which others edit,
  delete and recreate under the same names; its own writes come back to it as events.

Every one of these, with its line, is listed under `hazards` in `PROJECT.json`
with the properties that watch over it.

## 2. The modules

```
CompletionService        what one client is promised         ModelProcess   what a probe sees
      ^ (refinement)                                          ^ (refinement)  ^ (used by)
Scheduler <-- RunLoop <-- Engine <-- Gateway ----------------'                PodLifecycle
                 ^                                           (EXTENDS, left to right)
                 |
                 QwenRunner      the tensors under RunLoop's cache

Sampling                 from a request's body to its token, on its own
Reconciler               the controller, on its own

SchedulerProofs <-- RunLoopProofs <-- EngineProofs <-- GatewayProofs
                         ^
                         QwenRunnerProofs     SamplingProofs  PodLifecycleProofs  ReconcilerProofs
```

Each `MC` module gives the constants of the module it is named after small values;
`PodLifecycle` has real numbers and needs none.

**Scheduler** has `seqs` (every `Sequence` ever created; its index is its id),
`waiting` and `running`, and one operator per method: `Add`, `Schedule`, `Record`
(abort of failed rows, then `postprocess`), `Abort`, `FailAll`. These methods are
synchronous, so each is one atomic step. `Schedule` states the `while` loop as the
unique length `k` of the admitted prefix: each of the first `k` requests passes the
two admission tests, the next does not. A sequence's `queue` is its whole history;
a consumer holds a read index. The filter on deques is `Retain`, written without
recursion so that it can be proved about.

**RunLoop** adds the task. `pc` is `top` (the loop holds the event loop; no handler
can run), `idle` (in the sleep), `exec` (a tick is on the worker thread) or `dead`.

| Action | Code |
|---|---|
| `Submit`, `Cancel` | `BatchingEngine._submit`, `.cancel`, at any await of the loop |
| `Sleep`, `Wake` | the idle branch |
| `Reset` | `schedule` returned nothing |
| `Dispatch` | from `schedule` to handing the batch to the thread; decides prefill or decode |
| `ExecReturns` (`Tick`) | `execute` returned a token or `None` per row; record, update `members` |
| `AwaitRaises` | `execute` raised, or the task was cancelled at that await: `fail_all`, re-raise |
| `CancelledInSleep` | cancelled in the sleep, where there is no handler |

The runner's KV cache is kept as one record per row: whose row it is and how many
columns it holds. That is the part of the tensors `run_loop` has to get right: a
prefill replaces it, a decode adds a column.

**Engine** adds one record per request for its handler: how much of the queue it has
read, the text its client has, and where the coroutine is. `Start`, `GetToken`,
`ReturnCompletion`, `YieldTerminal`, `HangUp` and `Finally` are the segments of
`generate` and `stream` between awaits. Hanging up and the `finally` that cancels are
two steps, because the exception is delivered later. A handler's step has the runner in
place as a parameter, because `generate` and `stream` ask `self.runner` anew each time.
`DecodeBy` is what that runner makes of an output. The real one's is `Decode`: it strips stop
tokens, names a character after the token that completes it, and shows the bytes of an
incomplete one at the end as one U+FFFD, as the tokenizers behind it do. The mock's is
`MOCK_WORD * len(token_ids)`, whatever the tokens are. `decoders` is history: the runners whose
decoding the client was sent. In `Engine` alone the runner is always the real one; `Gateway`
replaces it between two steps of a stream.

**CompletionService** is the abstract specification: text that only extends, never
past the budget, then one outcome, then nothing. It knows no batch, queue or loop.
`ImplementsService` is the refinement `Service!Spec`, with the text and outcome of each
request mapped from `calls` and everything else forgotten.

**Gateway** adds HTTP responses, `/health`, and `_load`. The one-shot handler checks the
loop and submits in one step; the streaming handler checks in one step
(`RespondStreaming`) and submits in another (`OpenStream`), as the framework iterates
the body later. `SwapRunner` cancels the loop and replaces the runner; the
`CancelledError` reaches the old loop in a later step (`OldLoopEnds`), on the worker
thread's await where `fail_all` runs or in the sleep where it does not. A load may
succeed, fail or never end. A response remembers which runner tokenized its request
(`encoded_by`); its handler decodes with the one in place when it runs.

**ModelProcess** is the abstract specification of a server process as `/health` shows it:
starting, then ready at most once, stuck or dead for good. `Gateway` implements it
(`ImplementsModelProcess`): a loop that is dead while the model loads is only part of starting.

**QwenRunner** refines the cache of `RunLoop` to the tensors: `kv` is the sequence of columns
of each row, a column being a token (whose, and which) with its position. `InputIds`,
`AttentionMask` and `PositionIds` are `_pad_and_stack`; `Fed`, `KvAfter` and `Attended` are what
`execute` does with them. Its actions are those of `RunLoop`, each saying what becomes of `kv`.

**Sampling** follows a request from its body (`Valid`, `Normalize`, `Refuse`, `Admit`) to
the tick in which it shares `_sample` with another (`Sample`, `OutOfMemory`). A row remembers
what was asked for beside what the runner is told, so that the first can be compared with what
was picked. `SampleRow` is the set of tokens a row may yield, or `None` if it raises.

**PodLifecycle** is one Pod, to the second: the probes `buildDeployment` gives the container,
with their real periods and thresholds.

| Action | Code |
|---|---|
| `PollSucceeds`, `PollFails` | external: the kubelet's probe workers; a poll of a healthy server may be lost |
| `Second` | time; no poll is late |
| `ProcessStep` | the server, as `ModelProcess` has it |
| `Kill` (in `PollFails`), `Restart` | external: the startup or liveness threshold, the back-off |

**Reconciler** is the controller around one `ModelServer`. `api` holds the three objects in
the API server, `cache` the informers' copies, `events` the kinds with an event under way,
`queued` the work queue (one name, one worker), and `pc` and `got` the reconcile in progress.

| Action | Code |
|---|---|
| `Get` | takes the name from the queue and reads the `ModelServer` from the cache |
| `ApplyDeployment`, `ApplyService` | the two server-side applies; a stray port on the Service makes the second fail, as the comment at `modelserver_controller.go:322` explains |
| `UpdateStatus` | reads the cached Deployment, computes conditions and phase, writes if something changed and the version is still the one that was read |
| `CallRefused`, `Answered` | a write that fails, and one that takes effect and loses its answer |
| `Sync` | an informer catches up; `For()` and `Owns()` queue the name |
| `Edit`, `Delete`, `Recreate`, `PodsChange`, `DriftDeployment`, `DriftService`, `StrayPort`, `CollectGarbage`, `Restart` | external: users, the Deployment controller, other writers, the garbage collector, the manager's process |

Images, environment variables, probes and GPU limits are one value, the Pod template: the
controller copies them and no property tells them apart. `rolled` says whether Pods of an
older template still run; the controller does not read it.

Beside an operation several modules also define variants with a plausible slip (marked
`Slip:`): an off-by-one in admission, a forgotten `finally`, a comparison of sizes
instead of members. They are not part of any specification. `PROJECT.json` pairs each
checked property with the variant that violates it, which shows that the property can
fail for a reason a programmer might introduce.

## 3. What is checked

| Run | Bounds | Shows |
|---|---|---|
| `run_loop` | 3 requests, batches of 2, budget 4, prompts 1 and 5, 0/1/3 tokens | all safety of scheduler, loop and cache under arbitrary arrivals, cancellations and failures; every request ends or the loop is dead; the loop never spins |
| `runner` | 3 requests, batches of 3, prompts 1 and 3, 2 or 3 tokens | each row attends to itself, and the tensors are what `RunLoop` keeps of them |
| `engine` | 2 requests, batches of 2, budget 2, 3 kinds of token, 0/1/2 tokens | client-side safety, the refinement of `CompletionService`, and that every call on a live loop returns |
| `gateway` | 2 requests of 2 tokens, batches of 1, an ordinary token and a part of a character, both configurations | statuses, the text of a 200 across a swap, readiness, refusal, the refinement of `ModelProcess`; one-shot requests and submitted streams end |
| `sampling` | 2 rows, 3 tokens, every kind of body, logits with ties or broken | what was let in is sampled as asked and fails nobody |
| `reconciler` | 0 or 1 replicas, 3 outside events | a status that names a generation is only written when that generation is in place; the status converges; nothing is left of a deleted `ModelServer` |
| `drift` | 0 or 1 replicas, 3 outside events | drift is repaired, a wedge ends with its cause, the controller comes to rest |
| `pods` | 3 lost polls per container, otherwise the real numbers | a death is noticed in time, nobody is killed for being slow, every silence ends |
| `stream_after_death`, `mixed_runner`, `replacement_doc`, `progressing_doc` | small | places where the code differs from its documentation (section 6) |

The safety properties that say the most:

- `FirstComeFirstServed`: `running` then `waiting` is in order of arrival. It also says
  that no request is in both.
- `CountedOnce`: `num_running + num_waiting` is the number of requests with no verdict,
  whenever `/metrics` may be scraped, finished rows still in the deque or not.
- `CacheDescribesBatch` and `CacheFollowsMembers`: a decode's cache has the batch's rows,
  in its order, with all tokens but the newest.
- `HonestVerdict`, `VerdictIsFinal`, `SentinelIffVerdict`, `StreamIsOutput`: what a
  verdict says is what happened; it changes only in the one documented race; the queue
  is the output with its sentinels.
- `BudgetOvershoot`: how far a shared batch can go over the admission budget.
- `AnswerIsTheOutput`, `NoOrphans`, `CancelledMeansGone`, `ImplementsService`: what a
  client was told is and stays true; a handler that ends leaves nothing generating.
- `TruthfulStatus`: a 200 carries the verdict and the text of the output. Every character sent
  is one that a runner which decoded the request has at that place, or a U+FFFD in its stead;
  where one runner did it all nothing is missing. The decoders are the runner that tokenized
  the request and the one in place now, so only a swap, and only from the mock, can make two of
  them. Then as much was sent as the shorter of the two texts holds, and no more is true
  (section 6, 2).
- `ReadyMeansConfigured`, `DeadLoopOwesNothing`, `ImplementsModelProcess`.
- `AttendsToItself`: the attended columns of a row are its tokens 1 to n at positions 0 to n-1
  and the last column is the newest, across prefills and decodes of ragged batches.
  `CacheIsTheTensor` carries what is proved of `RunLoop`'s cache over to the tensors.
- `PicksWhatWasAsked`, `FailsForItsOwnLogits`: a reference definition of temperature and top_k,
  stated on the request as the client wrote it; and that nothing a client may write can make
  its row raise, so `None` always means broken logits.
- `DeathIsNoticed`, `KilledForCause`, `EverySilenceEnds`: two sides of the thresholds. Without a
  liveness probe a dead server keeps its container; without the startup probe a slow load is
  taken for a death.
- `ObservedMeansApplied`: observedGeneration is a promise, across stale reads, conflicts and
  recreation. It is checked where nobody else touches the owned objects; where they do,
  `DriftRepaired` says that their edits do not last.
- `StatusConverges` and `Quiesces`: two sides of one design. Status writes raise events that
  queue the name again. A predicate that filters them out leaves a wrong status in place for
  ever; a reconcile that always asks for another run never ends.

### Bounds, and why they are enough

`MaxRequests` bounds arrivals, and is the only bound in a guard that the code does not
have. Three requests with batches of two are what it takes for one to wait while two
run, for a row to leave from the middle of a batch, and for the batch to keep its size
with other members. Prompts of 1 and 5 against a budget of 4 give batches that share,
batches that are refused for the budget, and the prompt that no budget admits except
alone. Lengths of 0, 1 and 3 give the request with no work, the one that ends in its
prefill, and decodes against the cache. `{word, eos}` separates a token that stops from
one that does not; `part` is the first half of a character. One ordinary token is enough
because no property compares ordinary tokens. The gateway runs use batches of one so
that with two requests somebody waits through a swap or a death.

`MockWord` has two characters, not the five of "mock ". What matters is that both
runners have different characters for the same output and texts of different length, the mock's
the longer one: a token is at most one character of the real text. `gateway` has no stop token:
a third kind of token more than doubles its states, and what a stop token does (it ends a
request and decodes to nothing) is checked by `engine`. What `TruthfulStatus` says of stop tokens
across a swap is therefore left to `WireIsTrue`, which holds for any set of them.

In `engine` a budget of 2 lets two prompts of one token share a batch, and makes the second
wait when the first has already grown.

`runner` drops the stop token and batches three, so that rows of three lengths, padded by 0
to 4 columns, are prefilled together and decode at least twice. In `sampling` temperatures are
taken on both sides of each threshold and at it, top_k from every class the code distinguishes,
and two scores over three tokens put ties at, above and below every cut; rows do not influence
each other except through a shared failure, for which two are enough. `pods` has no small
numbers: three lost polls are what a threshold of three needs.

The runs of `Reconciler` bound what happens outside by `MaxChanges`, and each names in `Outside`
the kinds of event it allows. A change of the spec, a deletion and a recreation under the same
name take three, as do a deletion, a recreation and a lost answer or restart between them; the
races of a repair with a cache take two or three. One Pod is enough to be ready or not, and 0
replicas is the edge of the comparison with `readyReplicas`. What is repaired or forgotten does
not depend on what a template contains, so one template and a foreign one stand for all;
`progressing_doc`, which is about an update, has two.

`CHECK_DEADLOCK FALSE` is set everywhere: a server whose loop is dead and whose bound on
arrivals is used up really stops, and a controller at rest waits for the outside.

### Fairness, and why the code justifies it

- *The loop*: weak fairness of its next step. asyncio resumes a ready task, the sleep is
  finite, and a forward pass ends (or raises).
- *Handlers*: strong fairness per request. No handler runs while the loop holds the event
  loop, so a handler's step is enabled again and again but not continuously; asyncio's
  ready queue is first in, first out, so a handler that was ready before the loop awaited
  runs before the loop is resumed.
- *The kubelet*: weak fairness of polls, time and restarts; its workers run as long as the node
  does. The process in the container may do nothing for ever.
- *The controller*: weak fairness of its next step, of each informer and of the garbage
  collector. controller-runtime retries every error and re-lists a broken watch. Failures are
  outside events and thus end; while they go on nothing is promised.
- *Clients, model loads, cancellation, outside writers*: none. A client may never leave, a load may never
  end, and no property needs them to.

## 4. What is proved

Every safety property that a passing run checks is a theorem, for every value of
the constants that satisfies the module's assumptions; so are both refinements. A theorem
names no number of requests, rows, tokens, lost polls or outside events: the bounds of
section 3 are instances. The assumptions say that a batch holds at least one row, that sizes
are naturals, that `None` is no token and `Absent` no object, and what follows here:

| Assumption | Where | Why the code justifies it |
|---|---|---|
| a part of a character is a token and no stop token; `MOCK_WORD` is not empty | `EngineAssumption` | special tokens are stripped, not decoded to bytes; it is "mock " |
| no prompt is empty | `QwenRunnerAssumption` | `encode` puts the chat template's tokens around every prompt |
| logits are finite numbers, or the row has a NaN | `SamplingAssumption` | an infinite logit is a broken one, as a NaN is |

| Module | Theorem | Statement |
|---|---|---|
| `RunLoopProofs` | `TypeCorrect`, `OrderOfService`, `CapacityHolds`, `WaitersAreUntouched` | `Spec => []` `TypeOK`, `FirstComeFirstServed`, `BatchCapacity`, `WaitingUntouched` |
| | `NoWorkIsWasted` | `Spec => NoWorkForTheFinished` |
| | `CacheIsRight` | `Spec => [](CacheDescribesBatch /\ CacheFollowsMembers)` |
| | `ConsumersAreReleased`, `VerdictsAreHonest`, `StreamsAreOutputs` | `Spec => []` `SentinelIffVerdict`, `HonestVerdict`, `StreamIsOutput` |
| | `VerdictsAreFinal`, `GaugesCountOnce` | `Spec => VerdictIsFinal`, `Spec => []CountedOnce` |
| | `OvershootIsBounded` | `Spec => []BudgetOvershoot` |
| `EngineProofs` | `EngineTypeCorrect`, `OnlyWhoLeftIsCancelled`, `AnswersAreOutputs`, `NobodyGeneratesForNobody` | `EngineSpec => []` `EngineTypeOK`, `CancelledMeansGone`, `AnswerIsTheOutput`, `NoOrphans` |
| | `EngineImplementsService` | `EngineSpec => Service!Spec` |
| `GatewayProofs` | `GatewayTypeCorrect`, `ReadyIsConfigured`, `DeadLoopOwesNobody` | `GatewaySpec => []` `GatewayTypeOK`, `ReadyMeansConfigured`, `DeadLoopOwesNothing` |
| | `WireIsTrue` | `GatewaySpec => []TruthfulStatus` |
| | `GatewayImplementsModelProcess` | `GatewaySpec => Process!Spec` |
| `PodLifecycleProofs` | `DeathIsNoticedInTime`, `KillsHaveCauses`, `SlowStartsEnd` | `PodSpec =>` `[]DeathIsNoticed`, `KilledForCause`, `[]StartupIsBounded` |
| `QwenRunnerProofs` | `RowsAttendToThemselves`, `CacheIsRealized` | `QwenSpec => []` `AttendsToItself`, `CacheIsTheTensor` |
| `SamplingProofs` | `RequestsGetWhatTheyAsked`, `NobodyFailsAnybody` | `SamplingSpec => []` `PicksWhatWasAsked`, `FailsForItsOwnLogits` |
| `ReconcilerProofs` | `ReconcilerTypeCorrect`, `NobodyAppliesOlder` | `ReconcilerSpec => []` `ReconcilerTypeOK`, `ObservedIsCurrent` |
| | `ObservedIsApplied` | `ReconcilerSpec => []ObservedMeansApplied`, while nobody else touches the owned objects |

Each rests on an inductive invariant, named below; every one of them was first checked by TLC
on the configuration of the module's run. `SchedulerProofs` holds the lemmas about the
scheduler's operators.

**The loop.** The order in which the theorems depend on each other:

1. `TypeOK` is inductive by itself. The only non-trivial part is what `Retain` returns;
   `RankProperties`, `NthOfProperties` and `RetainProperties` in `SchedulerProofs` show
   that it lists the elements at the given positions, in order, by counting positions (a
   finite injection between sets of equal size is onto).
2. `FirstComeFirstServed` is inductive given the types: arrivals get the largest id,
   `schedule` moves a prefix of `waiting` behind what is kept of `running`, and both
   filters keep order.
3. `BatchCapacity` is inductive: admitting `k > 0` requests means the `k`-th passed the
   size test; admitting none leaves a batch no larger than before.
4. `WaitingUntouched` is not inductive: recording a tick writes to the rows of `batch`, and
   one must know that no waiting request is among them. It needs `BatchIsRunning` (during a
   tick the batch is `running`) and the order of service, by which no id is in both deques.
5. `NoWorkForTheFinished`: the rows of a batch were unfinished in `running`, or waiting, and
   then `WaitingUntouched` applies.
6. `CacheDescribesBatch` is not inductive: it says nothing between ticks. `CacheInv`
   strengthens it with `CacheFollowsMembers`, which is also checked by `run_loop`: the
   cache's rows are `members` at all times, and rows of unfinished requests hold every
   token but the newest. At a dispatch the rows of the batch are unfinished (step 5), so if
   the batch *is* `members` the cache describes it. While a decode is on the thread a row
   may be cancelled, which changes no length; when the results are recorded a row grows by
   the token whose predecessor the pass has just put in the cache.
7. Verdicts and streams are one invariant, `Sound`, of each `Sequence`: verdict, output and
   queue agree, and a cancelled one may grow by one token at most. Every method keeps it if
   the rows that are recorded are `Going`, unfinished or cancelled since the dispatch
   (`BatchGoing`): that is what steps 4 and 5 give. `SentinelIffVerdict`, `HonestVerdict` and
   `StreamIsOutput` are read off `Sound`; `VerdictIsFinal` compares two states of it.
8. `CountedOnce` follows from `AllInFlight`, that every unfinished request is in a deque, and
   from the order of service, by injections between ids and positions of the deques.

9. `BudgetOvershoot` needs to know what each row had when the batch was last added to.
   `SharedBudget` says that there are such numbers (`Budgeted`): their sum is within the
   budget, and each row has grown since by no more than *any* other row has generated. A sweep
   keeps the numbers of the rows it keeps, an admission takes the current lengths, and a tick
   adds one to both sides for all rows that it does not end; a row cancelled during a tick is
   still as it was, which is why the clause about finished rows exempts `pc = "exec"`.
   The sum itself is a fold over a set: `SumsExist` shows that its recursive function exists,
   `SumProperties` that any element may be taken out of it first, `SumGrows` and `SumOfSome`
   what growing summands and leaving some out do. Each is by `SubsetInduction`, a smallest
   counterexample in the well-founded order of finite subsets.

Steps 1, 2, 4, 7 and 8 are `LoopInv`, which is an invariant of `AnyStep`, which allows for what `Gateway`
adds: requests with other stop tokens, and the replacement of the task. The modules that extend
`RunLoop` inherit it.

**The engine.** `EngineInv` adds for each handler that it is `Served`: what it has read is a
prefix of the queue, what it concluded is the verdict, and its text is as it should be. That
is in three parts. Each character sent is one that one of its `decoders` has there, or stands
for one that was incomplete (`Covered`); a handler that has read everything has sent as many
characters as the one runner that decoded has, or as one of two (`Complete`, `CaughtUp`),
which is what makes the terminal chunk the end; and the text of a one-shot is that of the
runner that was in place when it was told (`Answered`). All of it is shown for
`AnyEngineStep`, in which each step of a handler may have another runner, so `Gateway`
inherits it however often the runner changes. The lemmas on `DecodeBy` say how each runner's
text grows when an output does: the mock's by a word, the real one's by nothing, one
character, or one in the place of a U+FFFD. The refinement of `CompletionService` takes one
lemma per action: a handler's step is one of `Service`'s for its request, all others leave its
text and outcome.

**The gateway.** `GatewayInv` relates how far the load got to which runner is in place
(`LoadOrder`), what the wire showed to what the handlers were told (`Answers`), and who decoded
a request to who tokenized it (`AllAccounted`: nobody but the runner in `encoded_by` and the one
in place). The last is inductive because `_load` puts in the real runner once and nothing
puts the mock back. `TruthfulStatus` is read off these and the engine's `Complete`; it has no
hypothesis on the tokenizer.

**The tensors.** `QwenInv` says that each row of the batch is a `PaddedRow`: pads, then the tokens
of one sequence at positions 0, 1, 2, ... Such rows are what `_pad_and_stack` makes, and padding
on the left keeps them so when a column is appended to all. It needs `CacheInv` for which
sequence that is, and that no row is empty, since the last column is what is sampled.

**Sampling.** The k-th largest value exists, counting equal ones (`KthLargestProperties`, from the
existence of extremes of finite sets). So a cut leaves a token, whatever k and the ties, and
leaves none that k others beat.

**The Pod.** No bound on a duration is inductive alone. `PodInv` has, for each probe, that the
time passed plus the time to the next poll is at most what the failures so far account for.
Time moves one second from the second to the first, a failure adds a period to both sides.

**The controller.** `ReconcilerInv` orders copies by age: a uid is new when it is given, within a
uid generations grow, and what the cache shows or a call has read is never younger than what
exists. A call that read the current generation read it from a cache that shows it still, so
once a status names the generation nobody has an older one to apply. That holds whatever others
do; `Applied` adds what a call in progress has put in place, and is kept only while they leave
it there, which is the hypothesis of `ObservedIsApplied`: `Outside` without `drift` and `stray`.

Only model-checked: every liveness property (`EventuallyFinished`, `LoopYields`, `EveryCallReturns`,
`EveryRequestEnds`, `EverySilenceEnds`, `StatusConverges`, `OwnedObjectsGo`, `DriftRepaired`,
`Quiesces`), which fairness and ENABLED put out of the provers' reach; and what the four runs of
section 6 refute.

## 5. What is not modelled, and why

- Text: tokens stand for the characters they decode to, and a character for its last token.
  `encode`, with its chat template, only makes a prompt of some length.
- The numbers in tensors: the attention itself, logits (any), softmax (any token with a
  probability above 0). `multinomial` raises on NaNs as it does on the CPU.
- The types of a request's fields, the wording of responses, settings and metrics' format.
- Where a stop token is configured (`_resolve_eos_ids`): the runner has a set of them.
- Process shutdown: the loop is cancelled and the process is gone with its clients.
- More than one Pod, a Service with endpoints that lag, an eviction; the back-off before a
  restart has no length. In `Reconciler` Pods change at will.
- The order of polls that fall on the same second: every order is allowed.
- Drift that server-side apply cannot see as such: entries others add to lists and maps the
  controller does not own whole (environment variables, containers), except the stray port.
- Periodic resyncs (they only add reconciles), leader election, the manager's flags.
- `bench.py` (a sequential script that measures `generate()` of a model it loads itself; it
  touches nothing of the server), manifests, images, generated deep-copy code.

## 6. Where code and documentation differ

Each has a run whose property quotes the text and whose counterexample shows the code.

1. `stream_after_death`: the dead-loop check and the submission of a stream are in different
   turns of the event loop. A loop that dies in between leaves the stream open for ever.
2. `mixed_runner`: a request tokenized by the mock is answered by the real runner's decoding
   of the mock's tokens if the swap falls before its handler resumes; if it arrived in the mock's
   last idle sleep, it is even executed by the real model. A stream that has begun with the
   mock's text goes on after the swap from the same length in another text: what was sent is taken
   for the beginning of what it is not, and if the real runner's text is the shorter one the
   rest is never sent. The client gets 200, half of the mock's words, the terminal chunk and
   [DONE]. `TruthfulStatus` says what does hold.
3. `replacement_doc`: a comment says that an incomplete character contributes no characters to
   the decoded text. It contributes U+FFFD, which a stream sends; the character that replaces
   it makes the text no longer and is never sent. `AnswerIsTheOutput` says what does hold.
4. `progressing_doc`: Progressing is documented as "being created or updated". Right after a
   new template is applied the old Pods count as ready, and the status for the new generation
   says that nothing is in progress.

Three smaller ones are covered by properties that say what does hold. The README documents
`MAX_BATCH_TOKENS` as the total across the running batch; it bounds admission only
(`BudgetOvershoot`). A test says that `None` in the queue means "never again"; a row cancelled
during a tick gets `None`, one token, and `None` again (`VerdictIsFinal`, `StreamIsOutput`),
which is harmless because nobody reads that queue any more (`CancelledMeansGone`, `NoOrphans`).
The README calls status reporting live; while a stray port makes the Service's apply fail,
`Reconcile` returns before `updateStatus`, so `StatusConverges` is about runs in which the
outside comes to rest without one (`Rests`).

## 7. Plan

Done: `Scheduler`, `RunLoop`, `Engine` with `CompletionService`, `Gateway` with `ModelProcess`,
`QwenRunner`, `Sampling`, `PodLifecycle`, `Reconciler`, their runs, and the proofs of section 4.
Next:

1. **DesiredState**, an abstract specification for the controller: a spec, its realization and
   a status that lags behind it; `Reconciler` shown to implement it.

## 8. Running it

```
tlc -workers 2 -config MCRunLoop.cfg MCRunLoop
tlapm RunLoopProofs.tla
```

The largest run (`gateway`, for its liveness) takes three to four minutes, the proofs of a module
one to a few.
