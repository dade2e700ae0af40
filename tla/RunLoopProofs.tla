---------------------------- MODULE RunLoopProofs ----------------------------
(***************************************************************************)
(* Proofs about RunLoop, for every value of its constants: its types, the  *)
(* order of service, the capacity of a batch, that what is fed to the      *)
(* runner is what the runner's cache describes, that verdicts and streams  *)
(* are honest and final, that nobody is dropped or counted twice, and how  *)
(* far a shared batch may go over the admission budget.                    *)
(*                                                                         *)
(* The lemmas are about AnyStep, of which the steps of RunLoop are a part  *)
(* and those of Engine, Gateway and QwenRunner are another, so that the    *)
(* invariant proved here is theirs too.                                    *)
(***************************************************************************)
EXTENDS RunLoop, SchedulerProofs

-----------------------------------------------------------------------------
(* The steps the lemmas are about *)

\* The loop's task is replaced by a new one, whose predecessor may have been on
\* the worker thread: what Gateway's OldLoopEnds does to this module's variables.
Replaced ==
  /\ (pc = "exec" /\ FailAll) \/ UNCHANGED schedVars
  /\ pc' = "idle"
  /\ batch' = <<>>
  /\ is_prefill' = FALSE
  /\ members' = <<>>
  /\ cache' = NoCache

\* Every step that any module of the project lets this module's variables take:
\* those of Next, requests with other stop tokens (Gateway's mock runner has
\* none), and the replacement of the task.
AnyLoopStep == LoopStep \/ CancelledInSleep \/ Replaced

AnyStep ==
  \/ \E eos \in SUBSET Tokens : Submit(eos)
  \/ \E id \in Ids : Cancel(id)
  \/ AnyLoopStep

\* The steps of Next are among them.
LEMMA NextIsAnyStep == [Next]_vars => [AnyStep]_vars
  BY RunLoopAssumption DEF Next, AnyStep, AnyLoopStep

-----------------------------------------------------------------------------
(* Type correctness *)

\* The cache after a forward pass has one well-formed row per row of the batch,
\* or per row it had.
LEMMA ForwardType ==
  ASSUME TypeOK
  PROVE  Forward \in Seq(CacheRow)
<1>1. /\ SchedulerTypeOK /\ batch \in Seq(Ids) /\ cache \in Seq(CacheRow)
  BY DEF TypeOK
<1>2. Ids \subseteq Nat /\ \A id \in Ids : SeqLen(seqs[id]) \in Nat
  BY <1>1, IdsProperties, SeqLenType
<1> DEFINE f == [row \in DOMAIN batch |-> [id |-> batch[row], held |-> SeqLen(seqs[batch[row]])]]
           g == [row \in DOMAIN cache |-> [cache[row] EXCEPT !.held = cache[row].held + 1]]
<1>3. f \in Seq(CacheRow)
  <2>1. \A row \in DOMAIN batch : batch[row] \in Ids
    BY <1>1
  <2>2. \A row \in DOMAIN batch :
           [id |-> batch[row], held |-> SeqLen(seqs[batch[row]])] \in CacheRow
    BY <1>2, <2>1 DEF CacheRow
  <2>3. f \in [1 .. Len(batch) -> CacheRow] /\ Len(batch) \in Nat
    BY <1>1, <2>2
  <2>. HIDE DEF f
  <2>. QED BY <2>3, SeqOfFunction
<1>4. g \in Seq(CacheRow)
  <2>1. \A row \in DOMAIN cache : cache[row] \in CacheRow
    BY <1>1
  <2>2. \A row \in DOMAIN cache : [cache[row] EXCEPT !.held = cache[row].held + 1] \in CacheRow
    BY <2>1 DEF CacheRow
  <2>3. g \in [1 .. Len(cache) -> CacheRow] /\ Len(cache) \in Nat
    BY <1>1, <2>2
  <2>. HIDE DEF g
  <2>. QED BY <2>3, SeqOfFunction
<1>5. Forward = f \/ Forward = g
  BY DEF Forward
<1>. QED BY <1>3, <1>4, <1>5

\* The loop starts with nothing in any queue.
LEMMA TypeInit == Init => TypeOK
<1>. SUFFICES ASSUME Init PROVE TypeOK
  OBVIOUS
<1>1. /\ seqs = <<>> /\ waiting = <<>> /\ running = <<>>
      /\ batch = <<>> /\ members = <<>> /\ cache = <<>>
      /\ pc = "top" /\ is_prefill = FALSE
  BY DEF Init, InitScheduler, NoCache
<1>2. <<>> \in Seq(Sequence) /\ <<>> \in Seq(Ids) /\ <<>> \in Seq(CacheRow)
  OBVIOUS
<1>. QED BY <1>1, <1>2 DEF TypeOK, SchedulerTypeOK

\* The locals of the loop keep their types when ids are only added.
LEMMA LoopTypes ==
  ASSUME TypeOK, SchedulerTypeOK', Ids \subseteq Ids', UNCHANGED loopVars
  PROVE  TypeOK'
<1>1. batch \in Seq(Ids) /\ members \in Seq(Ids)
  BY DEF TypeOK
<1>2. batch \in Seq(Ids') /\ members \in Seq(Ids')
  BY <1>1, SeqMonotonic
<1>. QED BY <1>2 DEF TypeOK, loopVars

\* One step per action: what it assigns has the declared type.
LEMMA TypeNext == TypeOK /\ [AnyStep]_vars => TypeOK'
<1>. SUFFICES ASSUME TypeOK, [AnyStep]_vars
              PROVE  TypeOK'
  OBVIOUS
<1>. USE SchedulerAssumption, RunLoopAssumption
<1>t. /\ SchedulerTypeOK /\ batch \in Seq(Ids) /\ members \in Seq(Ids)
      /\ is_prefill \in BOOLEAN /\ cache \in Seq(CacheRow)
  BY DEF TypeOK
<1>1. ASSUME NEW eos \in SUBSET Tokens, Submit(eos) PROVE TypeOK'
  <2>1. PICK p \in PromptLens, m \in MaxNews : Add(p, m, eos)
    BY <1>1 DEF Submit
  <2>2. p \in Nat /\ m \in Nat
    OBVIOUS
  <2>3. SchedulerTypeOK' /\ Ids \subseteq Ids'
    BY <1>t, <2>1, <2>2, AddType
  <2>. QED BY <1>1, <2>3, LoopTypes DEF Submit
<1>2. ASSUME NEW id \in Ids, Cancel(id) PROVE TypeOK'
  <2>1. SchedulerTypeOK' /\ Ids' = Ids
    BY <1>t, <1>2, AbortType DEF Cancel
  <2>. QED BY <1>2, <2>1, LoopTypes DEF Cancel
<1>3. CASE Sleep
  BY <1>3 DEF Sleep, TypeOK, SchedulerTypeOK, schedVars, Ids
<1>4. CASE Wake
  BY <1>4 DEF Wake, TypeOK, SchedulerTypeOK, schedVars, Ids
<1>5. CASE Reset
  <2>1. waiting' \in Seq(Ids) /\ running' \in Seq(Ids) /\ seqs' = seqs
    BY <1>t, <1>5, ScheduleProperties DEF Reset
  <2>2. Ids' = Ids
    BY <2>1 DEF Ids
  <2>3. SchedulerTypeOK'
    BY <1>t, <2>1, <2>2 DEF SchedulerTypeOK
  <2>4. batch' = <<>> /\ members' = <<>> /\ cache' = <<>> /\ pc' = pc /\ is_prefill' = is_prefill
    BY <1>5 DEF Reset, NoCache
  <2>. QED BY <2>3, <2>4 DEF TypeOK
<1>6. CASE Dispatch
  <2>1. waiting' \in Seq(Ids) /\ running' \in Seq(Ids) /\ seqs' = seqs
    BY <1>t, <1>6, ScheduleProperties DEF Dispatch
  <2>2. Ids' = Ids
    BY <2>1 DEF Ids
  <2>3. SchedulerTypeOK'
    BY <1>t, <2>1, <2>2 DEF SchedulerTypeOK
  <2>4. /\ batch' = running' /\ members' = members /\ cache' = cache /\ pc' = "exec"
        /\ is_prefill' \in BOOLEAN
    BY <1>6 DEF Dispatch, MembershipChanged
  <2>. QED BY <1>t, <2>1, <2>2, <2>3, <2>4 DEF TypeOK
<1>7. CASE ExecReturns
  <2>1. PICK next_ids \in [DOMAIN batch -> Tokens \cup {None}] : Tick(next_ids)
    BY <1>7 DEF ExecReturns
  <2>2. SchedulerTypeOK' /\ Ids' = Ids
    BY <1>t, <2>1, RecordType DEF Tick
  <2>3. cache' \in Seq(CacheRow)
    BY <2>1, ForwardType DEF Tick
  <2>4. members' = batch /\ pc' = "top" /\ batch' = batch /\ is_prefill' = is_prefill
    BY <2>1 DEF Tick
  <2>. QED BY <1>t, <2>2, <2>3, <2>4 DEF TypeOK
<1>8. CASE AwaitRaises
  <2>1. SchedulerTypeOK' /\ Ids' = Ids
    BY <1>t, <1>8, FailAllType DEF AwaitRaises
  <2>. QED BY <1>t, <1>8, <2>1 DEF TypeOK, AwaitRaises
<1>9. CASE CancelledInSleep
  BY <1>9 DEF CancelledInSleep, TypeOK, SchedulerTypeOK, schedVars, Ids
<1>10. CASE UNCHANGED vars
  BY <1>10 DEF vars, schedVars, loopVars, TypeOK, SchedulerTypeOK, Ids
<1>11. CASE Replaced
  <2>1. SchedulerTypeOK'
    <3>1. CASE FailAll
      BY <1>t, <3>1, FailAllType
    <3>2. CASE UNCHANGED schedVars
      BY <1>t, <3>2 DEF schedVars, SchedulerTypeOK, Ids
    <3>. QED BY <1>11, <3>1, <3>2 DEF Replaced
  <2>2. batch' = <<>> /\ members' = <<>> /\ cache' = <<>> /\ pc' = "idle" /\ is_prefill' = FALSE
    BY <1>11 DEF Replaced, NoCache
  <2>3. <<>> \in Seq(Ids') /\ <<>> \in Seq(CacheRow)
    OBVIOUS
  <2>. QED BY <2>1, <2>2, <2>3 DEF TypeOK
<1>. QED BY <1>1, <1>2, <1>3, <1>4, <1>5, <1>6, <1>7, <1>8, <1>9, <1>10, <1>11
         DEF AnyStep, AnyLoopStep, LoopStep

\* Every step of the loop and of its clients keeps the state well formed: ids
\* in the deques, in the batch and in the members name requests that exist.
THEOREM TypeCorrect == Spec => []TypeOK
  BY TypeInit, TypeNext, NextIsAnyStep, PTL DEF Spec
-----------------------------------------------------------------------------
(* Order of service *)

\* Whatever arrives, is abandoned, admitted or recorded, nobody overtakes.
LEMMA OrderNext ==
  TypeOK /\ FirstComeFirstServed /\ [AnyStep]_vars => FirstComeFirstServed'
<1>. SUFFICES ASSUME TypeOK, FirstComeFirstServed, [AnyStep]_vars
              PROVE  FirstComeFirstServed'
  OBVIOUS
<1>. USE SchedulerAssumption, RunLoopAssumption
<1>t. SchedulerTypeOK
  BY DEF TypeOK
<1>1. ASSUME NEW eos \in SUBSET Tokens, Submit(eos) PROVE FirstComeFirstServed'
  <2>1. PICK p \in PromptLens, m \in MaxNews : Add(p, m, eos)
    BY <1>1 DEF Submit
  <2>2. p \in Nat /\ m \in Nat
    OBVIOUS
  <2>. QED BY <1>t, <2>1, <2>2, AddInOrder
<1>2. ASSUME NEW id \in Ids, Cancel(id) PROVE FirstComeFirstServed'
  BY <1>t, <1>2, AbortInOrder DEF Cancel
<1>3. CASE Reset
  <2>1. /\ Schedule
        /\ running' = <<>>
    BY <1>3 DEF Reset
  <2>. QED BY <1>t, <2>1, ScheduleInOrder
<1>4. CASE Dispatch
  BY <1>t, <1>4, ScheduleInOrder DEF Dispatch
<1>5. CASE FailAll
  <2>1. running' \o waiting' = <<>>
    BY <1>5 DEF FailAll
  <2>. QED BY <2>1 DEF FirstComeFirstServed, Increasing
<1>6. CASE UNCHANGED <<waiting, running>>
  BY <1>6 DEF FirstComeFirstServed
<1>. QED BY <1>1, <1>2, <1>3, <1>4, <1>5, <1>6
         DEF AnyStep, AnyLoopStep, LoopStep, Sleep, Wake, ExecReturns, Tick, Record, AwaitRaises,
             CancelledInSleep, Replaced, vars, schedVars

\* Requests are admitted and served in the order they came, and none twice, for
\* every batch size, token budget and interleaving (batching.py:136).
THEOREM OrderOfService == Spec => []FirstComeFirstServed
<1>1. Init => FirstComeFirstServed
  <2>1. ASSUME Init PROVE running \o waiting = <<>>
    BY <2>1 DEF Init, InitScheduler
  <2>. QED BY <2>1 DEF FirstComeFirstServed, Increasing
<1>. QED BY <1>1, OrderNext, NextIsAnyStep, TypeCorrect, PTL DEF Spec

-----------------------------------------------------------------------------
(* Capacity *)

\* No step makes a batch larger than max_batch_size.
LEMMA CapacityNext ==
  TypeOK /\ BatchCapacity /\ [AnyStep]_vars => BatchCapacity'
<1>. SUFFICES ASSUME TypeOK, BatchCapacity, [AnyStep]_vars
              PROVE  BatchCapacity'
  OBVIOUS
<1>t. SchedulerTypeOK /\ MaxBatchSize \in Nat
  BY SchedulerAssumption DEF TypeOK
<1>1. CASE Reset
  BY <1>t, <1>1, ScheduleCapacity DEF Reset, BatchCapacity
<1>2. CASE Dispatch
  BY <1>t, <1>2, ScheduleCapacity DEF Dispatch, BatchCapacity
<1>3. CASE FailAll
  BY <1>t, <1>3 DEF FailAll, BatchCapacity
<1>4. CASE running' = running
  BY <1>4 DEF BatchCapacity
<1>. QED BY <1>1, <1>2, <1>3, <1>4
         DEF AnyStep, AnyLoopStep, LoopStep, Submit, Add, Cancel, Abort, Sleep, Wake, ExecReturns, Tick,
             Record, AwaitRaises, CancelledInSleep, Replaced, vars, schedVars

\* The runner never sees more rows than the cache has room for.
THEOREM CapacityHolds == Spec => []BatchCapacity
<1>1. Init => BatchCapacity
  BY SchedulerAssumption DEF Init, InitScheduler, BatchCapacity
<1>. QED BY <1>1, CapacityNext, NextIsAnyStep, TypeCorrect, PTL DEF Spec
-----------------------------------------------------------------------------
(* Requests that wait, and requests that are handed over *)

\* While a tick is on the worker thread, its rows are the rows of running.
BatchIsRunning == pc = "exec" => batch = running

\* Only the loop, back at the top, changes running.
LEMMA BatchNext ==
  TypeOK /\ BatchIsRunning /\ [AnyStep]_vars => BatchIsRunning'
<1>. SUFFICES ASSUME TypeOK, BatchIsRunning, [AnyStep]_vars
              PROVE  BatchIsRunning'
  OBVIOUS
<1>1. CASE UNCHANGED loopVars /\ running' = running
  BY <1>1 DEF loopVars, BatchIsRunning
<1>2. CASE Dispatch
  BY <1>2 DEF Dispatch, BatchIsRunning
<1>3. CASE Reset
  BY <1>3 DEF Reset, BatchIsRunning
<1>4. CASE pc' # "exec"
  BY <1>4 DEF BatchIsRunning
<1>. QED BY <1>1, <1>2, <1>3, <1>4
         DEF AnyStep, AnyLoopStep, LoopStep, Submit, Add, Cancel, Abort, Sleep, Wake, ExecReturns, Tick,
             AwaitRaises, CancelledInSleep, Replaced, vars, schedVars

\* A tick's results touch the rows of the batch and nobody who waits.
LEMMA WaitingNext ==
  TypeOK /\ FirstComeFirstServed /\ BatchIsRunning /\ WaitingUntouched /\ [AnyStep]_vars
    => WaitingUntouched'
<1>. SUFFICES ASSUME TypeOK, FirstComeFirstServed, BatchIsRunning, WaitingUntouched,
                     [AnyStep]_vars
              PROVE  WaitingUntouched'
  OBVIOUS
<1>. USE SchedulerAssumption, RunLoopAssumption
<1>t. SchedulerTypeOK /\ waiting \in Seq(Ids) /\ batch \in Seq(Ids)
  BY DEF TypeOK, SchedulerTypeOK
<1>1. ASSUME NEW eos \in SUBSET Tokens, Submit(eos) PROVE WaitingUntouched'
  <2>1. PICK p \in PromptLens, m \in MaxNews : Add(p, m, eos)
    BY <1>1 DEF Submit
  <2>2. p \in Nat /\ m \in Nat
    OBVIOUS
  <2>. QED BY <1>t, <2>1, <2>2, AddWaiting
<1>2. ASSUME NEW id \in Ids, Cancel(id) PROVE WaitingUntouched'
  BY <1>t, <1>2, AbortWaiting DEF Cancel
<1>3. CASE Reset \/ Dispatch
  <2>1. Schedule
    BY <1>3 DEF Reset, Dispatch
  <2>2. seqs' = seqs /\ Range(waiting') \subseteq Range(waiting)
    BY <1>t, <2>1, ScheduleRanges
  <2>. QED BY <2>2 DEF WaitingUntouched
<1>4. CASE ExecReturns
  <2>1. PICK next_ids \in [DOMAIN batch -> Tokens \cup {None}] : Tick(next_ids)
    BY <1>4 DEF ExecReturns
  <2>2. /\ \A id \in Ids : seqs'[id] = Recorded(id, batch, next_ids)
        /\ waiting' = waiting
    BY <1>t, <2>1, RecordType DEF Tick
  <2>3. batch = running
    BY <2>1 DEF Tick, BatchIsRunning
  <2>4. ASSUME NEW id \in Range(waiting)
        PROVE  seqs'[id] = seqs[id]
    <3>1. id \in Ids
      BY <1>t DEF Range
    <3>2. id \notin Range(batch)
      BY <1>t, <2>3, Disjoint
    <3>3. ~ \E row \in DOMAIN batch : batch[row] = id
      BY <3>2 DEF Range
    <3>. QED BY <1>t, <2>2, <3>1, <3>3, RecordedProperties
  <2>. QED BY <2>2, <2>4 DEF WaitingUntouched
<1>5. CASE FailAll
  <2>1. waiting' = <<>>
    BY <1>5 DEF FailAll
  <2>. QED BY <2>1 DEF WaitingUntouched, Range
<1>6. CASE UNCHANGED schedVars
  BY <1>6 DEF schedVars, WaitingUntouched
<1>. QED BY <1>1, <1>2, <1>3, <1>4, <1>5, <1>6
         DEF AnyStep, AnyLoopStep, LoopStep, Sleep, Wake, AwaitRaises, CancelledInSleep, Replaced, vars

\* Both hold when nothing has arrived.
LEMMA ServiceInit ==
  Init => FirstComeFirstServed /\ BatchIsRunning /\ WaitingUntouched
<1>. SUFFICES ASSUME Init
              PROVE  FirstComeFirstServed /\ BatchIsRunning /\ WaitingUntouched
  OBVIOUS
<1>1. running = <<>> /\ waiting = <<>> /\ pc = "top" /\ running \o waiting = <<>>
  BY DEF Init, InitScheduler
<1>2. FirstComeFirstServed
  BY <1>1 DEF FirstComeFirstServed, Increasing
<1>3. WaitingUntouched
  BY <1>1 DEF WaitingUntouched, Range
<1>. QED BY <1>1, <1>2, <1>3 DEF BatchIsRunning

\* Nothing is computed for a request that still waits, and a cancelled or
\* finished one never sits in waiting, whatever tick is in flight.
THEOREM WaitersAreUntouched == Spec => []WaitingUntouched
  BY ServiceInit, TypeInit, TypeNext, OrderNext, BatchNext, WaitingNext, NextIsAnyStep, PTL
     DEF Spec

\* What is handed to the worker thread has no verdict: admission drops the
\* finished rows of running first, and those it adds were untouched.
LEMMA DispatchUnfinished ==
  ASSUME TypeOK, WaitingUntouched, Schedule
  PROVE  \A row \in DOMAIN running' : ~IsFinished(seqs'[running'[row]])
<1>1. /\ seqs' = seqs
      /\ \A r \in DOMAIN running' :
           ~IsFinished(seqs[running'[r]]) \/ running'[r] \in Range(waiting)
  BY ScheduleRanges DEF TypeOK
<1>. QED BY <1>1 DEF WaitingUntouched

\* No forward pass is spent on a request that is over, even one cancelled
\* between two ticks (batching.py:119).
THEOREM NoWorkIsWasted == Spec => NoWorkForTheFinished
<1>1. TypeOK /\ WaitingUntouched /\ [Next]_vars
        => [pc = "top" /\ pc' = "exec"
              => \A row \in DOMAIN batch' : ~IsFinished(seqs'[batch'[row]])]_vars
  <2>. SUFFICES ASSUME TypeOK, WaitingUntouched, Next, pc = "top", pc' = "exec"
                PROVE  \A row \in DOMAIN batch' : ~IsFinished(seqs'[batch'[row]])
    OBVIOUS
  <2>1. Dispatch
    BY DEF Next, LoopStep, Submit, Cancel, EventLoopFree, Sleep, Wake, Reset, ExecReturns,
           Tick, AwaitRaises, CancelledInSleep
  <2>2. Schedule /\ batch' = running'
    BY <2>1 DEF Dispatch
  <2>. QED BY <2>2, DispatchUnfinished
<1>. QED BY <1>1, TypeCorrect, WaitersAreUntouched, PTL DEF Spec, NoWorkForTheFinished
-----------------------------------------------------------------------------
(* The runner's cache *)

\* Inductive together: CacheFollowsMembers says what the cache is between two
\* ticks, CacheDescribesBatch what it is while a decode is under way, where a
\* row may have been cancelled since.
CacheInv == CacheFollowsMembers /\ CacheDescribesBatch

\* A token recorded for a row makes it one longer, unless it ends the request.
LEMMA RecordedGrows ==
  ASSUME SchedulerTypeOK, NEW q, NEW next_ids \in [DOMAIN q -> Tokens \cup {None}],
         NEW row \in DOMAIN q, q[row] \in Ids
  PROVE  \/ IsFinished(Recorded(q[row], q, next_ids))
         \/ SeqLen(Recorded(q[row], q, next_ids)) = SeqLen(seqs[q[row]]) + 1
<1> DEFINE old == seqs[q[row]]
           new == Recorded(q[row], q, next_ids)
<1>1. old \in Sequence
  BY IdsProperties
<1>2. /\ new.prompt_len = old.prompt_len
      /\ \/ IsFinished(new)
         \/ \E token \in Tokens : new.output_ids = Append(old.output_ids, token)
  BY RecordedProperties
<1>3. old.output_ids \in Seq(Tokens) /\ old.prompt_len \in Nat
  BY <1>1 DEF Sequence
<1>. HIDE DEF old, new
<1>4. ASSUME NEW token \in Tokens, new.output_ids = Append(old.output_ids, token)
      PROVE  SeqLen(new) = SeqLen(old) + 1
  <2>1. Len(Append(old.output_ids, token)) = Len(old.output_ids) + 1
        /\ Len(old.output_ids) \in Nat
    BY <1>3
  <2>. QED BY <1>2, <1>3, <1>4, <2>1 DEF SeqLen
<1>. QED BY <1>2, <1>4 DEF old, new

\* A step that leaves the cache, and every unfinished request, as they were.
LEMMA CacheUntouched ==
  ASSUME TypeOK, CacheInv, members' = members, cache' = cache, pc' # "exec",
         \A id \in Ids : \/ IsFinished(seqs'[id])
                         \/ ~IsFinished(seqs[id]) /\ SeqLen(seqs'[id]) = SeqLen(seqs[id])
  PROVE  CacheInv'
<1>1. \A row \in DOMAIN members : members[row] \in Ids
  BY DEF TypeOK
<1>2. CacheFollowsMembers
  BY DEF CacheInv
<1>3. CacheFollowsMembers'
  BY <1>1, <1>2 DEF CacheFollowsMembers
<1>. QED BY <1>3 DEF CacheInv, CacheDescribesBatch

\* A step of a client: arrivals and cancellations change no length, also of the
\* rows that are on the worker thread.
LEMMA CacheSteady ==
  ASSUME TypeOK, CacheInv, UNCHANGED loopVars, running' = running,
         \A id \in Ids : /\ IsFinished(seqs[id]) => IsFinished(seqs'[id])
                         /\ SeqLen(seqs'[id]) = SeqLen(seqs[id])
  PROVE  CacheInv'
<1>1. /\ \A row \in DOMAIN members : members[row] \in Ids
      /\ \A row \in DOMAIN batch : batch[row] \in Ids
  BY DEF TypeOK
<1>2. CacheFollowsMembers'
  BY <1>1 DEF CacheInv, CacheFollowsMembers, loopVars
<1>3. CacheDescribesBatch'
  BY <1>1 DEF CacheInv, CacheDescribesBatch, loopVars
<1>. QED BY <1>2, <1>3 DEF CacheInv

\* What a forward pass leaves in the cache: the rows of the batch, with every
\* token they had when the pass began.
LEMMA ForwardDescribes ==
  ASSUME TypeOK, CacheInv, pc = "exec"
  PROVE  /\ DOMAIN Forward = DOMAIN batch
         /\ \A row \in DOMAIN batch :
              /\ Forward[row].id = batch[row]
              /\ Forward[row].held = SeqLen(seqs[batch[row]])
<1>1. CASE is_prefill \/ cache = NoCache
  BY <1>1 DEF Forward
<1>2. CASE ~is_prefill /\ cache # NoCache
  <2>1. /\ DOMAIN cache = DOMAIN batch
        /\ \A row \in DOMAIN batch :
             /\ cache[row].id = batch[row]
             /\ cache[row].held = SeqLen(seqs[batch[row]]) - 1
    BY <1>2 DEF CacheInv, CacheDescribesBatch
  <2>2. Forward = [row \in DOMAIN cache |-> [cache[row] EXCEPT !.held = cache[row].held + 1]]
    BY <1>2 DEF Forward
  <2>3. \A row \in DOMAIN cache : cache[row] \in CacheRow
    BY DEF TypeOK
  <2>4. \A row \in DOMAIN cache : /\ Forward[row].id = cache[row].id
                                  /\ Forward[row].held = cache[row].held + 1
    BY <2>2, <2>3 DEF CacheRow
  <2>5. \A row \in DOMAIN batch : SeqLen(seqs[batch[row]]) \in Nat
    <3>1. \A row \in DOMAIN batch : batch[row] \in Ids
      BY DEF TypeOK
    <3>. QED BY <3>1, IdsProperties, SeqLenType DEF TypeOK
  <2>6. ASSUME NEW row \in DOMAIN batch
        PROVE  Forward[row].held = SeqLen(seqs[batch[row]])
    <3>1. Forward[row].held = (SeqLen(seqs[batch[row]]) - 1) + 1
      BY <2>1, <2>4
    <3>. QED BY <2>5, <3>1
  <2>. QED BY <2>1, <2>2, <2>4, <2>6
<1>. QED BY <1>1, <1>2

\* Every step keeps the cache and the members in agreement.
LEMMA CacheNext ==
  TypeOK /\ WaitingUntouched /\ CacheInv /\ [AnyStep]_vars => CacheInv'
<1>. SUFFICES ASSUME TypeOK, WaitingUntouched, CacheInv, [AnyStep]_vars
              PROVE  CacheInv'
  OBVIOUS
<1>. USE SchedulerAssumption, RunLoopAssumption
<1>t. /\ SchedulerTypeOK /\ batch \in Seq(Ids) /\ members \in Seq(Ids)
      /\ \A id \in Ids : seqs[id] \in Sequence
  BY IdsProperties DEF TypeOK
<1>1. ASSUME NEW eos \in SUBSET Tokens, Submit(eos) PROVE CacheInv'
  <2>1. PICK p \in PromptLens, m \in MaxNews : Add(p, m, eos)
    BY <1>1 DEF Submit
  <2>2. p \in Nat /\ m \in Nat
    OBVIOUS
  <2>3. \A id \in Ids : seqs'[id] = seqs[id]
    BY <1>t, <2>1, <2>2, AddWaiting
  <2>4. running' = running /\ UNCHANGED loopVars
    BY <1>1, <2>1 DEF Submit, Add
  <2>. QED BY <2>3, <2>4, CacheSteady
<1>2. ASSUME NEW id \in Ids, Cancel(id) PROVE CacheInv'
  <2>1. /\ \A other \in Ids \ {id} : seqs'[other] = seqs[other]
        /\ seqs'[id] = GiveUp(seqs[id], "cancelled")
    BY <1>t, <1>2, AbortWaiting DEF Cancel
  <2>2. "cancelled" \in FinishReasons
    BY DEF FinishReasons
  <2>3. IsFinished(seqs'[id]) /\ SeqLen(seqs'[id]) = SeqLen(seqs[id])
    BY <1>t, <2>1, <2>2, GiveUpType DEF SeqLen
  <2>4. running' = running /\ UNCHANGED loopVars
    BY <1>2 DEF Cancel, Abort
  <2>5. \A x \in Ids : /\ IsFinished(seqs[x]) => IsFinished(seqs'[x])
                       /\ SeqLen(seqs'[x]) = SeqLen(seqs[x])
    BY <2>1, <2>3
  <2>. QED BY <2>4, <2>5, CacheSteady
<1>3. CASE Sleep \/ Wake \/ CancelledInSleep
  <2>1. /\ seqs' = seqs /\ members' = members /\ cache' = cache /\ pc' # "exec"
    BY <1>3 DEF Sleep, Wake, CancelledInSleep, schedVars
  <2>. QED BY <2>1, CacheUntouched
<1>4. CASE Reset
  <2>1. members' = <<>> /\ cache' = <<>> /\ pc' # "exec"
    BY <1>4 DEF Reset, NoCache
  <2>. QED BY <2>1 DEF CacheInv, CacheFollowsMembers, CacheDescribesBatch
<1>5. CASE Dispatch
  <2>1. /\ Schedule /\ batch' = running' /\ members' = members /\ cache' = cache
        /\ is_prefill' = (batch' # members)
    BY <1>5 DEF Dispatch, MembershipChanged
  <2>2. seqs' = seqs /\ \A row \in DOMAIN batch' : ~IsFinished(seqs[batch'[row]])
    BY <1>t, <2>1, ScheduleRanges, DispatchUnfinished
  <2>3. CacheFollowsMembers
    BY DEF CacheInv
  <2>4. CacheFollowsMembers'
    BY <2>1, <2>2, <2>3 DEF CacheFollowsMembers
  <2>5. ASSUME ~is_prefill' PROVE batch' = members
    BY <2>1, <2>5
  <2>6. CacheDescribesBatch'
    BY <2>1, <2>2, <2>3, <2>5 DEF CacheFollowsMembers, CacheDescribesBatch
  <2>. QED BY <2>4, <2>6 DEF CacheInv
<1>6. CASE ExecReturns
  <2>1. PICK next_ids \in [DOMAIN batch -> Tokens \cup {None}] : Tick(next_ids)
    BY <1>6 DEF ExecReturns
  <2>2. \A id \in Ids : seqs'[id] = Recorded(id, batch, next_ids)
    BY <1>t, <2>1, RecordType DEF Tick
  <2>3. pc = "exec" /\ cache' = Forward /\ members' = batch /\ pc' = "top"
    BY <2>1 DEF Tick
  <2>4. /\ DOMAIN cache' = DOMAIN members'
        /\ \A row \in DOMAIN members' :
             /\ cache'[row].id = members'[row]
             /\ cache'[row].held = SeqLen(seqs[members'[row]])
    BY <2>3, ForwardDescribes
  <2>5. ASSUME NEW row \in DOMAIN batch
        PROVE  \/ IsFinished(seqs'[batch[row]])
               \/ SeqLen(seqs[batch[row]]) = SeqLen(seqs'[batch[row]]) - 1
    <3>1. batch[row] \in Ids
      BY <1>t
    <3>2. SeqLen(seqs[batch[row]]) \in Nat
      BY <1>t, <3>1, SeqLenType
    <3>3. \/ IsFinished(seqs'[batch[row]])
          \/ SeqLen(seqs'[batch[row]]) = SeqLen(seqs[batch[row]]) + 1
      BY <1>t, <2>2, <3>1, RecordedGrows
    <3>. QED BY <3>2, <3>3
  <2>6. CacheFollowsMembers'
    BY <2>3, <2>4, <2>5 DEF CacheFollowsMembers
  <2>. QED BY <2>3, <2>6 DEF CacheInv, CacheDescribesBatch
<1>7. CASE AwaitRaises
  <2>1. \A id \in Ids : seqs'[id] = seqs[id] \/ IsFinished(seqs'[id])
    <3>1. seqs' = [id \in Ids |-> IF id \in InFlight THEN Fail(seqs[id]) ELSE seqs[id]]
      BY <1>7 DEF AwaitRaises, FailAll
    <3>2. \A id \in Ids : IsFinished(Fail(seqs[id]))
      BY <1>t, FailType
    <3>. QED BY <3>1, <3>2
  <2>2. members' = members /\ cache' = cache /\ pc' # "exec"
    BY <1>7 DEF AwaitRaises
  <2>. QED BY <2>1, <2>2, CacheUntouched
<1>8. CASE UNCHANGED vars
  BY <1>8 DEF vars, schedVars, loopVars, CacheInv, CacheFollowsMembers, CacheDescribesBatch
<1>9. CASE Replaced
  <2>1. members' = <<>> /\ cache' = <<>> /\ pc' # "exec"
    BY <1>9 DEF Replaced, NoCache
  <2>. QED BY <2>1 DEF CacheInv, CacheFollowsMembers, CacheDescribesBatch
<1>. QED BY <1>1, <1>2, <1>3, <1>4, <1>5, <1>6, <1>7, <1>8, <1>9 DEF AnyStep, AnyLoopStep, LoopStep

\* A decode always runs against a cache that holds the rows of its batch, in its
\* order, with every token but the newest, whatever arrived, was cancelled or
\* failed since the prefill (batching.py:252, runners.py:230).
THEOREM CacheIsRight == Spec => [](CacheDescribesBatch /\ CacheFollowsMembers)
<1>1. Init => CacheInv
  BY DEF Init, NoCache, CacheInv, CacheFollowsMembers, CacheDescribesBatch
<1>2. CacheInv => CacheDescribesBatch /\ CacheFollowsMembers
  BY DEF CacheInv
<1>. QED BY <1>1, <1>2, CacheNext, NextIsAnyStep, TypeCorrect, WaitersAreUntouched, PTL DEF Spec
-----------------------------------------------------------------------------
(* Verdicts and streams *)

\* What is true of every request: its verdict, its output and its stream agree.
AllSound == \A id \in Ids : Sound(seqs[id])

\* The rows on the worker thread may still take a token and a verdict.
BatchGoing == pc = "exec" => \A row \in DOMAIN batch : Going(seqs[batch[row]])

\* A sequence without a verdict may go to the worker thread.
LEMMA UnfinishedGoing ==
  ASSUME NEW s, Sound(s), ~IsFinished(s)
  PROVE  Going(s)
<1>1. s.finish_reason = ""
  BY DEF IsFinished
<1>2. Sentinels(s) = 0
  BY DEF Sound, Streamed
<1>3. Len(s.output_ids) < s.max_new
  BY DEF Sound, Honest
<1>4. Sentinels(s) <= 1
  BY <1>2
<1>. QED BY <1>1, <1>3, <1>4 DEF Going

\* fail_all while a tick is on the worker thread finds nobody in flight who was
\* told of a verdict more than once.
LEMMA InFlightFails ==
  ASSUME TypeOK, WaitingUntouched, BatchIsRunning, AllSound, BatchGoing, pc = "exec",
         NEW id \in Ids, id \in InFlight
  PROVE  Sentinels(seqs[id]) <= 1
<1>1. CASE id \in Range(running)
  <2>1. PICK row \in DOMAIN batch : batch[row] = id
    BY <1>1 DEF BatchIsRunning, Range
  <2>. QED BY <2>1 DEF BatchGoing, Going
<1>2. CASE id \in Range(waiting)
  <2>1. ~IsFinished(seqs[id]) /\ Sound(seqs[id])
    BY <1>2 DEF WaitingUntouched, AllSound
  <2>. QED BY <2>1, UnfinishedGoing DEF Going
<1>. QED BY <1>1, <1>2 DEF InFlight

\* What the loop may do to one request: nothing; record the result of a tick for
\* a row of the batch; or, in fail_all, end it.
LoopTouched(id) ==
  \/ seqs'[id] = seqs[id]
  \/ /\ pc = "exec" /\ id \in Range(batch)
     /\ \/ seqs'[id] = GiveUp(seqs[id], "error")
        \/ \E token \in Tokens : seqs'[id] = AppendToken(seqs[id], token)
  \/ pc = "exec" /\ id \in InFlight /\ seqs'[id] = Fail(seqs[id])

\* A client may cancel it, too.
Touched(id) == LoopTouched(id) \/ seqs'[id] = GiveUp(seqs[id], "cancelled")

\* Every step of the loop touches the requests in one of its ways, and adds none.
LEMMA LoopTouches ==
  ASSUME TypeOK, AnyLoopStep
  PROVE  Ids' = Ids /\ \A id \in Ids : LoopTouched(id)
<1>t. SchedulerTypeOK /\ batch \in Seq(Ids)
  BY DEF TypeOK
<1>1. CASE Reset \/ Dispatch
  <2>1. seqs' = seqs
    BY <1>t, <1>1, ScheduleRanges DEF Reset, Dispatch
  <2>. QED BY <2>1 DEF LoopTouched, Ids
<1>2. CASE ExecReturns
  <2>1. PICK next_ids \in [DOMAIN batch -> Tokens \cup {None}] : Tick(next_ids)
    BY <1>2 DEF ExecReturns
  <2>2. /\ pc = "exec" /\ Ids' = Ids
        /\ \A id \in Ids : seqs'[id] = Recorded(id, batch, next_ids)
    BY <1>t, <2>1, RecordType DEF Tick
  <2>. QED BY <2>2, RecordedCases DEF LoopTouched
<1>3. CASE FailAll /\ pc = "exec"
  <2>1. /\ Ids' = Ids
        /\ \A id \in Ids : seqs'[id] = IF id \in InFlight THEN Fail(seqs[id]) ELSE seqs[id]
    BY <1>t, <1>3, FailAllSequences
  <2>. QED BY <1>3, <2>1 DEF LoopTouched
<1>4. CASE UNCHANGED schedVars
  BY <1>4 DEF schedVars, LoopTouched, Ids
<1>. QED BY <1>1, <1>2, <1>3, <1>4
         DEF AnyLoopStep, LoopStep, Sleep, Wake, AwaitRaises, CancelledInSleep, Replaced

\* Every step touches the requests that exist in one of these ways.
LEMMA StepTouches ==
  ASSUME TypeOK, [AnyStep]_vars, NEW id \in Ids
  PROVE  Touched(id) /\ id \in Ids'
<1>. USE SchedulerAssumption, RunLoopAssumption
<1>t. SchedulerTypeOK
  BY DEF TypeOK
<1>1. ASSUME NEW eos \in SUBSET Tokens, Submit(eos) PROVE Touched(id) /\ id \in Ids'
  <2>1. PICK p \in PromptLens, m \in MaxNews : Add(p, m, eos)
    BY <1>1 DEF Submit
  <2>2. p \in Nat /\ m \in Nat
    OBVIOUS
  <2>3. seqs'[id] = seqs[id] /\ id \in Ids'
    BY <1>t, <2>1, <2>2, AddSequences
  <2>. QED BY <2>3 DEF Touched, LoopTouched
<1>2. ASSUME NEW other \in Ids, Cancel(other) PROVE Touched(id) /\ id \in Ids'
  <2>1. /\ Ids' = Ids /\ seqs'[other] = GiveUp(seqs[other], "cancelled")
        /\ \A x \in Ids \ {other} : seqs'[x] = seqs[x]
    BY <1>t, <1>2, AbortSequences DEF Cancel
  <2>2. CASE id = other
    BY <2>1, <2>2 DEF Touched
  <2>3. CASE id # other
    BY <2>1, <2>3 DEF Touched, LoopTouched
  <2>. QED BY <2>2, <2>3
<1>3. CASE AnyLoopStep
  BY <1>3, LoopTouches DEF Touched
<1>4. CASE UNCHANGED vars
  BY <1>4 DEF vars, schedVars, Touched, LoopTouched, Ids
<1>. QED BY <1>1, <1>2, <1>3, <1>4 DEF AnyStep

\* However a request is touched, its verdict, output and stream still agree.
LEMMA TouchedSound ==
  ASSUME TypeOK, WaitingUntouched, BatchIsRunning, AllSound, BatchGoing,
         NEW id \in Ids, Touched(id)
  PROVE  Sound(seqs'[id])
<1>1. seqs[id] \in Sequence /\ Sound(seqs[id])
  BY IdsProperties DEF TypeOK, AllSound
<1>2. CASE seqs'[id] = GiveUp(seqs[id], "cancelled") \/ seqs'[id] = GiveUp(seqs[id], "error")
  BY <1>1, <1>2, GiveUpSound
<1>3. CASE /\ pc = "exec" /\ id \in Range(batch)
           /\ \E token \in Tokens : seqs'[id] = AppendToken(seqs[id], token)
  <2>1. Going(seqs[id])
    BY <1>3 DEF BatchGoing, Range
  <2>. QED BY <1>1, <1>3, <2>1, AppendTokenSound
<1>4. CASE pc = "exec" /\ id \in InFlight /\ seqs'[id] = Fail(seqs[id])
  BY <1>1, <1>4, InFlightFails, FailSound
<1>. QED BY <1>1, <1>2, <1>3, <1>4 DEF Touched, LoopTouched

\* Requests only come by arriving.
LEMMA SameRequests ==
  ASSUME TypeOK, [AnyStep]_vars, ~ \E eos \in SUBSET Tokens : Submit(eos)
  PROVE  Ids' = Ids
<1>1. CASE \E id \in Ids : Cancel(id)
  BY <1>1, AbortSequences DEF Cancel, TypeOK
<1>2. CASE AnyLoopStep
  BY <1>2, LoopTouches
<1>3. CASE UNCHANGED vars
  BY <1>3 DEF vars, schedVars, Ids
<1>. QED BY <1>1, <1>2, <1>3 DEF AnyStep

\* Whatever a step does, every request it leaves behind is sound.
LEMMA SoundNext ==
  TypeOK /\ WaitingUntouched /\ BatchIsRunning /\ AllSound /\ BatchGoing /\ [AnyStep]_vars
    => AllSound'
<1>. SUFFICES ASSUME TypeOK, WaitingUntouched, BatchIsRunning, AllSound, BatchGoing,
                     [AnyStep]_vars
              PROVE  AllSound'
  OBVIOUS
<1>. USE SchedulerAssumption, RunLoopAssumption
<1>1. \A id \in Ids : Sound(seqs'[id])
  BY StepTouches, TouchedSound
<1>2. ASSUME NEW eos \in SUBSET Tokens, Submit(eos) PROVE AllSound'
  <2>1. PICK p \in PromptLens, m \in MaxNews : Add(p, m, eos)
    BY <1>2 DEF Submit
  <2>2. p \in Nat /\ m \in Nat
    OBVIOUS
  <2> DEFINE n == Len(seqs) + 1
  <2>3. /\ Ids' = Ids \cup {n}
        /\ \/ /\ m <= 0
              /\ seqs'[n] = Emit([NewSequence(p, m, eos) EXCEPT !.finish_reason = "length"], None)
           \/ m > 0 /\ seqs'[n] = NewSequence(p, m, eos)
    BY <2>1, <2>2, AddSequences DEF TypeOK
  <2>. HIDE DEF n
  <2>4. Sound(seqs'[n])
    BY <2>2, <2>3, NewSound
  <2>. QED BY <1>1, <2>3, <2>4 DEF AllSound
<1>3. ASSUME ~ \E eos \in SUBSET Tokens : Submit(eos) PROVE Ids' = Ids
  BY <1>3, SameRequests
<1>. QED BY <1>1, <1>2, <1>3 DEF AllSound

\* A row stays fit for a tick's result until the result is there: while it is on
\* the worker thread it can only be cancelled, and only once.
LEMMA GoingNext ==
  TypeOK /\ WaitingUntouched /\ AllSound /\ BatchGoing /\ [AnyStep]_vars => BatchGoing'
<1>. SUFFICES ASSUME TypeOK, WaitingUntouched, AllSound, BatchGoing, [AnyStep]_vars,
                     pc' = "exec"
              PROVE  \A row \in DOMAIN batch' : Going(seqs'[batch'[row]])
  BY DEF BatchGoing
<1>t. /\ SchedulerTypeOK /\ \A row \in DOMAIN batch : batch[row] \in Ids
      /\ \A id \in Ids : seqs[id] \in Sequence /\ Sound(seqs[id])
  BY IdsProperties DEF TypeOK, AllSound
<1>1. CASE Dispatch
  <2>1. Schedule /\ batch' = running' /\ running' \in Seq(Ids) /\ seqs' = seqs
    BY <1>t, <1>1, ScheduleProperties DEF Dispatch
  <2>2. \A row \in DOMAIN batch' : batch'[row] \in Ids /\ ~IsFinished(seqs[batch'[row]])
    BY <2>1, DispatchUnfinished
  <2>. QED BY <1>t, <2>1, <2>2, UnfinishedGoing
<1>2. CASE /\ UNCHANGED loopVars
           /\ \A id \in Ids : \/ seqs'[id] = seqs[id]
                              \/ seqs'[id] = GiveUp(seqs[id], "cancelled")
  <2>1. pc = "exec" /\ batch' = batch
    BY <1>2 DEF loopVars
  <2>2. ASSUME NEW row \in DOMAIN batch, seqs'[batch[row]] = GiveUp(seqs[batch[row]], "cancelled")
        PROVE  Going(seqs'[batch[row]])
    <3> DEFINE s == seqs[batch[row]]
               t == GiveUp(s, "cancelled")
    <3>1. s \in Sequence /\ Sound(s) /\ Going(s)
      BY <1>t, <2>1 DEF BatchGoing
    <3>2. CASE IsFinished(s)
      BY <2>2, <3>1, <3>2, GiveUpSound
    <3>3. CASE ~IsFinished(s)
      <4>1. /\ t.finish_reason = "cancelled" /\ Sentinels(t) = 1 /\ t.max_new = s.max_new
            /\ t.output_ids = s.output_ids
        BY <3>1, <3>3, GiveUpSound, GiveUpType DEF FinishReasons
      <4>2. Len(s.output_ids) < s.max_new
        BY <3>1 DEF Going
      <4>3. Len(t.output_ids) < t.max_new
        BY <4>1, <4>2
      <4>4. Sentinels(t) <= 1
        BY <4>1
      <4>. QED BY <2>2, <4>1, <4>3, <4>4 DEF Going
    <3>. QED BY <3>2, <3>3
  <2>. QED BY <1>t, <1>2, <2>1, <2>2 DEF BatchGoing
<1>3. ASSUME NEW eos \in SUBSET Tokens, Submit(eos)
      PROVE  UNCHANGED loopVars /\ \A id \in Ids : seqs'[id] = seqs[id]
  <2>1. PICK p \in PromptLens, m \in MaxNews : Add(p, m, eos)
    BY <1>3 DEF Submit
  <2>2. p \in Nat /\ m \in Nat
    BY SchedulerAssumption
  <2>. QED BY <1>t, <1>3, <2>1, <2>2, AddSequences DEF Submit
<1>4. ASSUME NEW other \in Ids, Cancel(other)
      PROVE  /\ UNCHANGED loopVars
             /\ \A id \in Ids : seqs'[id] = seqs[id] \/ seqs'[id] = GiveUp(seqs[id], "cancelled")
  <2>1. /\ seqs'[other] = GiveUp(seqs[other], "cancelled")
        /\ \A x \in Ids \ {other} : seqs'[x] = seqs[x]
    BY <1>t, <1>4, AbortSequences DEF Cancel
  <2>. QED BY <1>4, <2>1 DEF Cancel
<1>5. CASE UNCHANGED vars
  BY <1>2, <1>5 DEF vars, schedVars
<1>6. CASE Reset
  BY <1>6 DEF Reset
<1>. QED BY <1>1, <1>2, <1>3, <1>4, <1>5, <1>6
         DEF AnyStep, AnyLoopStep, LoopStep, Sleep, Wake, ExecReturns, Tick, AwaitRaises, CancelledInSleep,
             Replaced

\* Nothing has arrived yet.
LEMMA SoundInit == Init => AllSound /\ BatchGoing
  BY DEF Init, InitScheduler, Ids, AllSound, BatchGoing

\* Verdict, output and stream agree for every request, at all times.
THEOREM RequestsAreSound == Spec => [](AllSound /\ BatchGoing)
  BY SoundInit, ServiceInit, TypeInit, TypeNext, OrderNext, BatchNext, WaitingNext, SoundNext,
     GoingNext, NextIsAnyStep, PTL DEF Spec

\* A consumer blocked on its queue is released exactly when its request has a
\* verdict, for every interleaving of ticks, cancellations and failures.
THEOREM ConsumersAreReleased == Spec => []SentinelIffVerdict
<1>1. AllSound => SentinelIffVerdict
  BY DEF AllSound, Sound, Signalled, SentinelIffVerdict
<1>. QED BY <1>1, RequestsAreSound, PTL

\* "stop" means that the last token, and only the last, is a stop token, "length"
\* that the budget is spent; nobody gets more than max_new tokens.
THEOREM VerdictsAreHonest == Spec => []HonestVerdict
<1>1. AllSound => HonestVerdict
  BY DEF AllSound, Sound, Honest, Stops, HonestVerdict
<1>. QED BY <1>1, RequestsAreSound, PTL

\* What is emitted is the output, in order, with at most two sentinels in it.
THEOREM StreamsAreOutputs == Spec => []StreamIsOutput
<1>1. AllSound => StreamIsOutput
  BY DEF AllSound, Sound, Streamed, Sentinels, Data, StreamIsOutput
<1>. QED BY <1>1, RequestsAreSound, PTL

\* The loop leaves a request alone that has a verdict, unless it was cancelled.
LEMMA LoopLeaves ==
  ASSUME WaitingUntouched, BatchIsRunning, BatchGoing, NEW id \in Ids, LoopTouched(id),
         IsFinished(seqs[id]), seqs[id].finish_reason # "cancelled"
  PROVE  seqs'[id] = seqs[id]
<1>1. ASSUME pc = "exec", id \in Range(batch) PROVE FALSE
  <2>1. Going(seqs[id])
    BY <1>1 DEF BatchGoing, Range
  <2>. QED BY <2>1 DEF Going, IsFinished
<1>2. ASSUME id \in Range(waiting) PROVE FALSE
  BY <1>2 DEF WaitingUntouched
<1>. QED BY <1>1, <1>2 DEF LoopTouched, InFlight, BatchIsRunning

\* However a request with a verdict is touched, the verdict and the output stay,
\* unless it was cancelled while it was a row of the tick that now ends.
LEMMA TouchedFinal ==
  ASSUME TypeOK, BatchGoing, AllSound, NEW id \in Ids, Touched(id), IsFinished(seqs[id])
  PROVE  \/ /\ seqs'[id].finish_reason = seqs[id].finish_reason
            /\ seqs'[id].output_ids = seqs[id].output_ids
         \/ /\ seqs[id].finish_reason = "cancelled"
            /\ seqs'[id].finish_reason \in {"cancelled", "stop", "length"}
            /\ Len(seqs'[id].output_ids) = Len(seqs[id].output_ids) + 1
            /\ pc = "exec" /\ id \in Range(batch)
<1>1. seqs[id] \in Sequence /\ Sound(seqs[id])
  BY IdsProperties DEF TypeOK, AllSound
<1>2. CASE seqs'[id] = GiveUp(seqs[id], "cancelled") \/ seqs'[id] = GiveUp(seqs[id], "error")
  BY <1>2 DEF GiveUp
<1>3. ASSUME pc = "exec", id \in Range(batch),
             NEW token \in Tokens, seqs'[id] = AppendToken(seqs[id], token)
      PROVE  /\ seqs[id].finish_reason = "cancelled"
             /\ seqs'[id].finish_reason \in {"cancelled", "stop", "length"}
             /\ Len(seqs'[id].output_ids) = Len(seqs[id].output_ids) + 1
  <2>1. Going(seqs[id])
    BY <1>3 DEF BatchGoing, Range
  <2>2. seqs[id].finish_reason = "cancelled"
    BY <2>1 DEF Going, IsFinished
  <2>3. seqs'[id].finish_reason \in {"cancelled", "stop", "length"}
    BY <1>1, <1>3, <2>1, AppendTokenSound
  <2> DEFINE out == seqs[id].output_ids
  <2>4. out \in Seq(Tokens) /\ seqs'[id].output_ids = Append(out, token)
    BY <1>1, <1>3, AppendTokenType DEF Sequence
  <2>. HIDE DEF out
  <2>5. Len(Append(out, token)) = Len(out) + 1
    BY <2>4
  <2>. QED BY <2>2, <2>3, <2>4, <2>5 DEF out
<1>4. CASE seqs'[id] = Fail(seqs[id])
  <2> DEFINE s == seqs[id]
  <2>1. Fail(s) = Emit(s, None)
    BY DEF Fail
  <2>2. Emit(s, None).finish_reason = s.finish_reason /\ Emit(s, None).output_ids = s.output_ids
    BY <1>1, NoneIsItem, EmitType
  <2>. QED BY <1>4, <2>1, <2>2
<1>. QED BY <1>2, <1>3, <1>4 DEF Touched, LoopTouched

\* A verdict other than "cancelled" is final, and so is the output under it; a
\* cancelled request can only be overtaken by the tick that was in flight, for
\* one token (batching.py:154).
THEOREM VerdictsAreFinal == Spec => VerdictIsFinal
<1> DEFINE Final ==
      \A id \in Ids :
        LET old == seqs[id]
            new == seqs'[id]
        IN  IsFinished(old) =>
              \/ new.finish_reason = old.finish_reason /\ new.output_ids = old.output_ids
              \/ /\ old.finish_reason = "cancelled"
                 /\ new.finish_reason \in {"cancelled", "stop", "length"}
                 /\ Len(new.output_ids) = Len(old.output_ids) + 1
                 /\ pc = "exec" /\ id \in Range(batch)
<1>1. TypeOK /\ BatchGoing /\ AllSound /\ [AnyStep]_vars => Final
  BY StepTouches, TouchedFinal
<1>2. TypeOK /\ (AllSound /\ BatchGoing) /\ [Next]_vars => [Final]_vars
  BY <1>1, NextIsAnyStep
<1>3. VerdictIsFinal <=> [][Final]_vars
  BY DEF VerdictIsFinal
<1>. HIDE DEF Final
<1>. QED BY <1>2, <1>3, TypeCorrect, RequestsAreSound, PTL DEF Spec
-----------------------------------------------------------------------------
(* Nobody is dropped, nobody is counted twice *)

\* A request without a verdict is in one of the deques.
AllInFlight == \A id \in Ids : ~IsFinished(seqs[id]) => id \in InFlight

\* A touched request that has no verdict now had none before.
LEMMA TouchedUnfinished ==
  ASSUME TypeOK, BatchGoing, AllSound, NEW id \in Ids, Touched(id), ~IsFinished(seqs'[id])
  PROVE  ~IsFinished(seqs[id])
<1>. SUFFICES ASSUME IsFinished(seqs[id]) PROVE FALSE
  OBVIOUS
<1>1. \/ seqs'[id].finish_reason = seqs[id].finish_reason
      \/ seqs'[id].finish_reason \in {"cancelled", "stop", "length"}
  BY TouchedFinal
<1>. QED BY <1>1 DEF IsFinished

\* Whatever leaves the deques has a verdict.
LEMMA InFlightNext ==
  TypeOK /\ WaitingUntouched /\ AllSound /\ BatchGoing /\ AllInFlight /\ [AnyStep]_vars
    => AllInFlight'
<1>. SUFFICES ASSUME TypeOK, WaitingUntouched, AllSound, BatchGoing, AllInFlight,
                     [AnyStep]_vars,
                     NEW id \in Ids', ~IsFinished(seqs'[id])
              PROVE  id \in InFlight'
  BY DEF AllInFlight
<1>. USE SchedulerAssumption, RunLoopAssumption
<1>t. SchedulerTypeOK /\ waiting \in Seq(Ids)
  BY DEF TypeOK, SchedulerTypeOK
<1>1. ASSUME NEW eos \in SUBSET Tokens, Submit(eos) PROVE id \in InFlight'
  <2>1. PICK p \in PromptLens, m \in MaxNews : Add(p, m, eos)
    BY <1>1 DEF Submit
  <2>2. p \in Nat /\ m \in Nat
    OBVIOUS
  <2> DEFINE n == Len(seqs) + 1
  <2>3. /\ Ids' = Ids \cup {n} /\ running' = running
        /\ \A x \in Ids : seqs'[x] = seqs[x]
        /\ \/ /\ seqs'[n] = Emit([NewSequence(p, m, eos) EXCEPT !.finish_reason = "length"], None)
              /\ waiting' = waiting
           \/ waiting' = Append(waiting, n)
    BY <1>t, <2>1, <2>2, AddSequences
  <2>. HIDE DEF n
  <2>4. waiting' = Append(waiting, n) => Range(waiting') = Range(waiting) \cup {n}
    <3>1. ASSUME NEW S, NEW w \in Seq(S), NEW x PROVE Range(Append(w, x)) = Range(w) \cup {x}
      <4>1. /\ DOMAIN Append(w, x) = DOMAIN w \cup {Len(w) + 1}
            /\ Len(w) + 1 \notin DOMAIN w
            /\ Append(w, x)[Len(w) + 1] = x
            /\ \A i \in DOMAIN w : Append(w, x)[i] = w[i]
        OBVIOUS
      <4>. QED BY <4>1 DEF Range
    <3>. QED BY <1>t, <3>1
  <2>5. IsFinished(Emit([NewSequence(p, m, eos) EXCEPT !.finish_reason = "length"], None))
    BY DEF Emit, NewSequence, IsFinished
  <2>6. CASE id \in Ids
    <3>1. id \in InFlight
      BY <2>3, <2>6 DEF AllInFlight
    <3>. QED BY <2>3, <2>4, <3>1 DEF InFlight
  <2>7. CASE id = n
    BY <2>3, <2>4, <2>5, <2>7 DEF InFlight
  <2>. QED BY <2>3, <2>6, <2>7
<1>2. ASSUME ~ \E eos \in SUBSET Tokens : Submit(eos)
      PROVE  id \in Ids /\ ~IsFinished(seqs[id]) /\ id \in InFlight
  <2>1. id \in Ids
    BY <1>2, SameRequests
  <2>. QED BY <2>1, StepTouches, TouchedUnfinished DEF AllInFlight
<1>3. CASE id \in Ids /\ \E other \in Ids : Cancel(other)
  <2>1. PICK other \in Ids : Abort(other, "cancelled")
    BY <1>3 DEF Cancel
  <2>2. /\ running' = running
        /\ waiting' = waiting \/ waiting' = Without(waiting, other)
        /\ seqs'[other] = GiveUp(seqs[other], "cancelled")
        /\ \A x \in Ids \ {other} : seqs'[x] = seqs[x]
    BY <1>t, <2>1, AbortSequences DEF Abort
  <2>3. IsFinished(seqs'[other])
    <3>1. seqs[other] \in Sequence /\ "cancelled" \in FinishReasons
      BY <1>t, IdsProperties DEF FinishReasons
    <3>. QED BY <2>2, <3>1, GiveUpType
  <2>4. id # other /\ id \in InFlight
    BY <1>3, <2>2, <2>3 DEF AllInFlight
  <2>5. Range(Without(waiting, other)) = Range(waiting) \ {other}
    BY <1>t, WithoutProperties
  <2>. QED BY <2>2, <2>4, <2>5 DEF InFlight
<1>4. CASE id \in InFlight /\ ~IsFinished(seqs[id]) /\ (Reset \/ Dispatch)
  <2>1. Schedule
    BY <1>4 DEF Reset, Dispatch
  <2>. QED BY <1>t, <1>4, <2>1, ScheduleKeeps DEF InFlight
<1>5. CASE id \in InFlight /\ UNCHANGED <<waiting, running>>
  BY <1>5 DEF InFlight
<1>6. CASE id \in Ids /\ id \in InFlight /\ FailAll
  <2>1. seqs'[id] = Fail(seqs[id]) /\ seqs[id] \in Sequence
    BY <1>t, <1>6, FailAllSequences, IdsProperties
  <2>. QED BY <2>1, FailType
<1>. QED BY <1>1, <1>2, <1>3, <1>4, <1>5, <1>6
         DEF AnyStep, AnyLoopStep, LoopStep, Sleep, Wake, ExecReturns, Tick, Record, AwaitRaises,
             CancelledInSleep, Replaced, vars, schedVars

\* The two gauges of /metrics add up to the requests without a verdict, at every
\* point a scrape can happen: nobody is dropped and nobody counted twice.
THEOREM GaugesCountOnce == Spec => []CountedOnce
<1>1. Init => AllInFlight
  BY DEF Init, InitScheduler, Ids, AllInFlight
<1>2. TypeOK /\ FirstComeFirstServed /\ WaitingUntouched /\ AllInFlight => CountedOnce
  BY GaugesAddUp DEF TypeOK, CountedOnce, AllInFlight
<1>. QED BY <1>1, <1>2, InFlightNext, NextIsAnyStep, TypeCorrect, OrderOfService,
            WaitersAreUntouched, RequestsAreSound, PTL DEF Spec

\* However a request is touched, it only grows.
LEMMA TouchedGrown ==
  ASSUME TypeOK, NEW id \in Ids, Touched(id)
  PROVE  Grown(seqs[id], seqs'[id])
<1>1. seqs[id] \in Sequence
  BY IdsProperties DEF TypeOK
<1>2. "error" \in FinishReasons /\ "cancelled" \in FinishReasons
  BY DEF FinishReasons
<1>. QED BY <1>1, <1>2, MethodsGrow DEF Touched, LoopTouched

\* What the loop does to a request without a verdict: it does not call it
\* cancelled, and emits one sentinel at most.
LEMMA LoopOnUnfinished ==
  ASSUME TypeOK, AllSound, NEW id \in Ids, LoopTouched(id), ~IsFinished(seqs[id])
  PROVE  seqs'[id].finish_reason # "cancelled" /\ Sentinels(seqs'[id]) <= 1
<1>1. PICK s \in Sequence : s = seqs[id]
  BY IdsProperties DEF TypeOK
<1>2. PICK t : t = seqs'[id]
  OBVIOUS
<1>3. Sound(s) /\ ~IsFinished(s)
  BY <1>1 DEF AllSound
<1>4. Going(s) /\ Sentinels(s) = 0
  BY <1>3, UnfinishedGoing DEF Sound, Streamed
<1>5. \/ t = s \/ t = GiveUp(s, "error") \/ t = Fail(s)
      \/ \E token \in Tokens : t = AppendToken(s, token)
  BY <1>1, <1>2 DEF LoopTouched
<1>6. t.finish_reason # "cancelled"
  <2>1. s.finish_reason = ""
    BY <1>3 DEF IsFinished
  <2>2. \A token \in Tokens : AppendToken(s, token).finish_reason \in {"stop", "length", ""}
    BY <2>1, AppendTokenType DEF Verdict
  <2>3. GiveUp(s, "error").finish_reason = "error"
    BY <1>3, GiveUpSound
  <2>4. Fail(s).finish_reason = "error"
    <3>1. Sentinels(s) <= 1
      BY <1>4
    <3>. QED BY <1>3, <3>1, FailSound
  <2>. QED BY <1>5, <2>1, <2>2, <2>3, <2>4
<1>7. Sentinels(t) <= 1
  <2>1. ASSUME NEW token \in Tokens PROVE Sentinels(AppendToken(s, token)) <= Sentinels(s) + 1
    BY <1>3, <1>4, AppendTokenSound
  <2>2. Sentinels(GiveUp(s, "error")) = 1
    BY <1>3, GiveUpSound
  <2>3. Sentinels(Fail(s)) = Sentinels(s) + 1
    <3>1. Sentinels(s) <= 1
      BY <1>4
    <3>. QED BY <1>3, <3>1, FailSound
  <2> DEFINE n == Sentinels(t)
  <2>4. n = 0 \/ n = 1 \/ n = 0 + 1 \/ n <= 0 + 1
    <3>1. n = 0 \/ n = 1 \/ n = Sentinels(s) + 1 \/ n <= Sentinels(s) + 1
      BY <1>4, <1>5, <2>1, <2>2, <2>3
    <3>. HIDE DEF n
    <3>. QED BY <1>4, <3>1
  <2>. HIDE DEF n
  <2>5. n <= 1
    BY <2>4
  <2>. QED BY <2>5 DEF n
<1>. QED BY <1>2, <1>6, <1>7
-----------------------------------------------------------------------------
(* The admission budget *)

\* `base` is what the rows of running had when the last of them was admitted: it
\* fits the budget, and no row has grown since by more than any other has
\* generated.  A row that is over may have stopped growing, but the rows that are
\* on the worker thread had all been going when they were handed to it.
Budgeted(base) ==
  /\ base \in [DOMAIN running -> Nat]
  /\ SumFunction(base) <= MaxBatchTokens
  /\ \A i, j \in DOMAIN running :
       \/ SeqLen(seqs[running[i]]) <= base[i] + Len(seqs[running[j]].output_ids)
       \/ pc # "exec" /\ (IsFinished(seqs[running[i]]) \/ IsFinished(seqs[running[j]]))

\* Rows that share a batch have such a base; a row alone may be of any length.
SharedBudget == Len(running) > 1 => \E base : Budgeted(base)

\* A step that changes no row's length, and ends requests only.
LEMMA BudgetKept ==
  ASSUME TypeOK, SharedBudget, running' = running, pc' = "exec" => pc = "exec",
         \A id \in Ids : /\ IsFinished(seqs[id]) => IsFinished(seqs'[id])
                         /\ seqs'[id].prompt_len = seqs[id].prompt_len
                         /\ seqs'[id].output_ids = seqs[id].output_ids
  PROVE  SharedBudget'
<1>. SUFFICES ASSUME Len(running) > 1
              PROVE  (\E base : Budgeted(base))'
  BY DEF SharedBudget
<1>1. PICK base : Budgeted(base)
  BY DEF SharedBudget
<1>2. \A p \in DOMAIN running : running[p] \in Ids
  BY DEF TypeOK, SchedulerTypeOK
<1>3. \A id \in Ids : SeqLen(seqs'[id]) = SeqLen(seqs[id])
  BY DEF SeqLen
<1>4. Budgeted(base)'
  BY <1>1, <1>2, <1>3 DEF Budgeted
<1>. QED BY <1>4

\* The sweep keeps the base of the rows it keeps, and whoever is admitted to a
\* batch that is then shared was counted.
LEMMA BudgetScheduled ==
  ASSUME TypeOK, WaitingUntouched, SharedBudget, Schedule
  PROVE  SharedBudget'
<1>. SUFFICES ASSUME Len(running') > 1
              PROVE  (\E base : Budgeted(base))'
  BY DEF SharedBudget
<1>t. SchedulerTypeOK /\ running \in Seq(Ids) /\ waiting \in Seq(Ids)
  BY DEF TypeOK, SchedulerTypeOK
<1>1. PICK k \in 0 .. Len(waiting), kept \in Seq(Ids) :
        /\ kept = Unfinished(running)
        /\ Len(kept) \in 0 .. Len(running)
        /\ \A j \in 1 .. k : Fits(kept, j)
        /\ running' = kept \o SubSeq(waiting, 1, k)
        /\ seqs' = seqs
        /\ running' \in Seq(Ids)
        /\ Len(running') = Len(kept) + k
  BY <1>t, ScheduleProperties
<1>2. CASE k = 0
  <2> DEFINE K == {p \in DOMAIN running : ~IsFinished(seqs[running[p]])}
  <2>1. K \in SUBSET (DOMAIN running) /\ kept = Retain(running, K)
    BY <1>1 DEF Unfinished
  <2>2. \A p \in K : ~IsFinished(seqs[running[p]])
    OBVIOUS
  <2>. HIDE DEF K
  <2>3. PICK c \in Nat :
          /\ c = Cardinality(K) /\ Len(kept) = c
          /\ \A n \in 1 .. c : NthOf(K, n) \in K /\ kept[n] = running[NthOf(K, n)]
          /\ \A a, b \in 1 .. c : a < b => NthOf(K, a) < NthOf(K, b)
    <3>1. /\ Len(Retain(running, K)) = Cardinality(K) /\ Cardinality(K) \in 0 .. Len(running)
          /\ \A n \in 1 .. Cardinality(K) :
               NthOf(K, n) \in K /\ Retain(running, K)[n] = running[NthOf(K, n)]
          /\ \A a, b \in 1 .. Cardinality(K) : a < b => NthOf(K, a) < NthOf(K, b)
      BY <1>t, <2>1, RetainProperties
    <3>2. Cardinality(K) \in Nat
      BY <3>1
    <3>. QED BY <2>1, <3>1, <3>2
  <2>4. running' = kept
    <3>1. SubSeq(waiting, 1, 0) = <<>>
      BY <1>t
    <3>. QED BY <1>1, <1>2, <3>1
  <2>5. DOMAIN running' = 1 .. c
    BY <1>1, <2>3, <2>4
  <2>6. PICK base : Budgeted(base)
    <3>1. Len(kept) > 1 /\ Len(running) \in Nat
      BY <1>t, <2>4
    <3>2. Len(running) > 1
      BY <1>1, <3>1
    <3>. QED BY <3>2 DEF SharedBudget
  <2>7. base \in [DOMAIN running -> Nat] /\ SumFunction(base) <= MaxBatchTokens
    BY <2>6 DEF Budgeted
  <2>8. PICK at \in [1 .. c -> DOMAIN running] :
          \A n \in 1 .. c : at[n] = NthOf(K, n)
    <3>1. [n \in 1 .. c |-> NthOf(K, n)] \in [1 .. c -> DOMAIN running]
      BY <2>1, <2>3
    <3>. QED BY <3>1
  <2>9. PICK rest \in [1 .. c -> Nat] : \A n \in 1 .. c : rest[n] = base[at[n]]
    <3>1. [n \in 1 .. c |-> base[at[n]]] \in [1 .. c -> Nat]
      BY <2>7
    <3>. QED BY <3>1
  <2>10. \A a, b \in 1 .. c : at[a] = at[b] => a = b
    <3>1. \A n \in 1 .. c : at[n] \in Nat
      BY <1>t
    <3>2. \A a, b \in 1 .. c : a < b => at[a] < at[b]
      BY <2>3, <2>8
    <3>. QED BY <3>1, <3>2
  <2>11. SumFunction(rest) <= MaxBatchTokens
    <3>1. PICK D, T : D = DOMAIN running /\ T = 1 .. c
      OBVIOUS
    <3>2. IsFiniteSet(D) /\ IsFiniteSet(T)
      BY <1>t, <3>1, LengthsOf, FS_Interval
    <3>3. Selects(rest, base, at, T, D)
      BY <2>7, <2>9, <2>10, <3>1 DEF Selects
    <3>4. /\ SumFunction(rest) \in Nat /\ SumFunction(base) \in Nat
          /\ SumFunction(rest) <= SumFunction(base)
      BY <3>2, <3>3, SumOfSome
    <3>. QED BY <2>7, <3>4, SchedulerAssumption
  <2>12. ASSUME NEW i \in DOMAIN running', NEW j \in DOMAIN running'
         PROVE  SeqLen(seqs'[running'[i]])
                  <= rest[i] + Len(seqs'[running'[j]].output_ids)
    <3>1. /\ at[i] \in K /\ at[j] \in K
          /\ running'[i] = running[at[i]] /\ running'[j] = running[at[j]]
          /\ rest[i] = base[at[i]]
      BY <2>3, <2>4, <2>5, <2>8, <2>9
    <3>2. /\ at[i] \in DOMAIN running /\ at[j] \in DOMAIN running
          /\ ~IsFinished(seqs[running[at[i]]]) /\ ~IsFinished(seqs[running[at[j]]])
      BY <2>1, <2>2, <3>1
    <3>3. SeqLen(seqs[running[at[i]]]) <= base[at[i]] + Len(seqs[running[at[j]]].output_ids)
      BY <2>6, <3>2 DEF Budgeted
    <3>. QED BY <1>1, <3>1, <3>3
  <2>13. Budgeted(rest)'
    BY <2>5, <2>9, <2>11, <2>12 DEF Budgeted
  <2>. QED BY <2>13
<1>3. CASE k # 0
  <2>1. PICK lens : lens = [p \in DOMAIN running' |-> SeqLen(seqs[running'[p]])]
    OBVIOUS
  <2>2. SumFunction(lens) <= MaxBatchTokens
    <3>1. Fits(kept, k)
      BY <1>1, <1>3
    <3>2. TotalTokens(running') <= MaxBatchTokens
      BY <1>1, <3>1 DEF Fits
    <3>. QED BY <2>1, <3>2 DEF TotalTokens
  <2>3. lens \in [DOMAIN running' -> Nat]
    BY <1>t, <1>1, <2>1, LengthsOf
  <2>4. ASSUME NEW i \in DOMAIN running', NEW j \in DOMAIN running'
        PROVE  SeqLen(seqs'[running'[i]]) <= lens[i] + Len(seqs'[running'[j]].output_ids)
    <3>1. running'[j] \in Ids
      BY <1>1
    <3>2. PICK s \in Sequence : s = seqs[running'[j]]
      BY <1>t, <3>1, IdsProperties
    <3>3. PICK n \in Nat : n = Len(seqs'[running'[j]].output_ids)
      BY <1>1, <3>2, OutputLength
    <3>4. PICK l \in Nat : l = lens[i] /\ l = SeqLen(seqs'[running'[i]])
      BY <1>1, <2>1, <2>3
    <3>5. l <= l + n
      OBVIOUS
    <3>. QED BY <3>3, <3>4, <3>5
  <2>5. Budgeted(lens)'
    BY <2>2, <2>3, <2>4 DEF Budgeted
  <2>. QED BY <2>5
<1>. QED BY <1>2, <1>3

\* A tick makes every row one token longer that it does not end.
LEMMA BudgetTicked ==
  ASSUME TypeOK, BatchIsRunning, SharedBudget, ExecReturns
  PROVE  SharedBudget'
<1>t. SchedulerTypeOK /\ running \in Seq(Ids)
  BY DEF TypeOK, SchedulerTypeOK
<1>1. PICK next_ids \in [DOMAIN batch -> Tokens \cup {None}] : Tick(next_ids)
  BY DEF ExecReturns
<1>2. pc = "exec" /\ pc' = "top" /\ batch = running /\ Record(running, next_ids)
      /\ next_ids \in [DOMAIN running -> Tokens \cup {None}]
  BY <1>1 DEF Tick, BatchIsRunning
<1>3. running' = running /\ \A id \in Ids : seqs'[id] = Recorded(id, running, next_ids)
  BY <1>t, <1>2, RecordType
<1>. SUFFICES ASSUME Len(running) > 1
              PROVE  (\E base : Budgeted(base))'
  BY <1>3 DEF SharedBudget
<1>4. PICK base : Budgeted(base)
  BY DEF SharedBudget
<1>5. ASSUME NEW p \in DOMAIN running, ~IsFinished(seqs'[running[p]])
      PROVE  /\ SeqLen(seqs'[running[p]]) = SeqLen(seqs[running[p]]) + 1
             /\ Len(seqs'[running[p]].output_ids) = Len(seqs[running[p]].output_ids) + 1
             /\ SeqLen(seqs[running[p]]) \in Nat
             /\ Len(seqs[running[p]].output_ids) \in Nat
  <2>1. PICK id \in Ids : id = running[p]
    BY <1>t
  <2>2. PICK old \in Sequence : old = seqs[id]
    BY <1>t, IdsProperties
  <2>3. PICK new : new = seqs'[id]
    OBVIOUS
  <2>4. new = Recorded(id, running, next_ids) /\ \E row \in DOMAIN running : running[row] = id
    BY <1>3, <2>1, <2>3
  <2>5. /\ new.prompt_len = old.prompt_len
        /\ \E token \in Tokens : new.output_ids = Append(old.output_ids, token)
    <3>1. /\ Recorded(id, running, next_ids).prompt_len = seqs[id].prompt_len
          /\ \/ IsFinished(Recorded(id, running, next_ids))
             \/ \E token \in Tokens : Recorded(id, running, next_ids).output_ids
                                        = Append(seqs[id].output_ids, token)
      BY <1>t, <1>2, <2>4, RecordedProperties
    <3>2. ~IsFinished(new)
      BY <1>5, <2>1, <2>3
    <3>. QED BY <2>2, <2>4, <3>1, <3>2
  <2>6. old.output_ids \in Seq(Tokens) /\ old.prompt_len \in Nat
    BY DEF Sequence
  <2>7. PICK n \in Nat : n = Len(old.output_ids) /\ Len(new.output_ids) = n + 1
    BY <2>5, <2>6
  <2>8. PICK m \in Nat : m = old.prompt_len
    BY <2>6
  <2>9. SeqLen(old) = m + n /\ SeqLen(new) = m + (n + 1)
    BY <2>5, <2>7, <2>8 DEF SeqLen
  <2>10. SeqLen(new) = SeqLen(old) + 1 /\ SeqLen(old) \in Nat
    BY <2>9
  <2>. QED BY <2>1, <2>2, <2>3, <2>7, <2>10
<1>6. ASSUME NEW i \in DOMAIN running, NEW j \in DOMAIN running,
             ~IsFinished(seqs'[running[i]]), ~IsFinished(seqs'[running[j]])
      PROVE  SeqLen(seqs'[running[i]]) <= base[i] + Len(seqs'[running[j]].output_ids)
  <2>1. SeqLen(seqs[running[i]]) <= base[i] + Len(seqs[running[j]].output_ids)
    BY <1>2, <1>4 DEF Budgeted
  <2>2. base[i] \in Nat
    BY <1>4 DEF Budgeted
  <2>. QED BY <1>5, <1>6, <2>1, <2>2
<1>7. Budgeted(base)'
  BY <1>2, <1>3, <1>4, <1>6 DEF Budgeted
<1>. QED BY <1>7

\* Every step keeps a base for the rows that share a batch.
LEMMA BudgetNext ==
  TypeOK /\ BatchIsRunning /\ WaitingUntouched /\ SharedBudget /\ [AnyStep]_vars
    => SharedBudget'
<1>. SUFFICES ASSUME TypeOK, BatchIsRunning, WaitingUntouched, SharedBudget, [AnyStep]_vars
              PROVE  SharedBudget'
  OBVIOUS
<1>. USE SchedulerAssumption, RunLoopAssumption
<1>t. SchedulerTypeOK
  BY DEF TypeOK
<1>1. ASSUME NEW eos \in SUBSET Tokens, Submit(eos) PROVE SharedBudget'
  <2>1. PICK p \in PromptLens, m \in MaxNews : Add(p, m, eos)
    BY <1>1 DEF Submit
  <2>2. p \in Nat /\ m \in Nat
    OBVIOUS
  <2>3. running' = running /\ \A id \in Ids : seqs'[id] = seqs[id]
    BY <1>t, <2>1, <2>2, AddSequences
  <2>4. pc' = pc
    BY <1>1 DEF Submit, loopVars
  <2>. QED BY <2>3, <2>4, BudgetKept
<1>2. ASSUME NEW id \in Ids, Cancel(id) PROVE SharedBudget'
  <2>1. /\ running' = running /\ pc' = pc
        /\ seqs'[id] = GiveUp(seqs[id], "cancelled")
        /\ \A other \in Ids \ {id} : seqs'[other] = seqs[other]
    BY <1>t, <1>2, AbortSequences DEF Cancel, loopVars
  <2>2. seqs[id] \in Sequence /\ "cancelled" \in FinishReasons
    BY <1>t, IdsProperties DEF FinishReasons
  <2>3. /\ IsFinished(seqs'[id])
        /\ seqs'[id].output_ids = seqs[id].output_ids
        /\ seqs'[id].prompt_len = seqs[id].prompt_len
    BY <2>1, <2>2, GiveUpType
  <2>4. \A x \in Ids : /\ IsFinished(seqs[x]) => IsFinished(seqs'[x])
                       /\ seqs'[x].prompt_len = seqs[x].prompt_len
                       /\ seqs'[x].output_ids = seqs[x].output_ids
    BY <2>1, <2>3
  <2>. QED BY <2>1, <2>4, BudgetKept
<1>3. CASE Dispatch
  BY <1>3, BudgetScheduled DEF Dispatch
<1>4. CASE running' = <<>>
  BY <1>4 DEF SharedBudget
<1>5. CASE ExecReturns
  BY <1>5, BudgetTicked
<1>6. CASE UNCHANGED schedVars /\ (pc' # "exec" \/ pc' = pc)
  BY <1>6, BudgetKept DEF schedVars
<1>7. CASE Sleep \/ Wake \/ CancelledInSleep \/ (Replaced /\ UNCHANGED schedVars)
  <2>1. UNCHANGED schedVars /\ pc' # "exec"
    BY <1>7 DEF Sleep, Wake, CancelledInSleep, Replaced
  <2>. QED BY <1>6, <2>1
<1>8. CASE Reset \/ FailAll
  BY <1>4, <1>8 DEF Reset, FailAll
<1>9. CASE UNCHANGED vars
  BY <1>6, <1>9 DEF vars, loopVars
<1>10. Replaced => FailAll \/ UNCHANGED schedVars
  BY DEF Replaced
<1>. QED BY <1>1, <1>2, <1>3, <1>5, <1>7, <1>8, <1>9, <1>10
         DEF AnyStep, AnyLoopStep, LoopStep, AwaitRaises

\* With the base, the sum over the batch is bounded.
LEMMA BudgetBounds ==
  ASSUME TypeOK, BatchIsRunning, SharedBudget
  PROVE  BudgetOvershoot
<1>. SUFFICES ASSUME pc = "exec", Len(batch) > 1
              PROVE  TotalTokens(batch)
                       <= MaxBatchTokens + Len(batch) * Len(seqs[batch[Len(batch)]].output_ids)
  BY DEF BudgetOvershoot
<1>1. SchedulerTypeOK /\ batch \in Seq(Ids) /\ batch = running
  BY DEF TypeOK, BatchIsRunning
<1>2. PICK n \in Nat : n = Len(batch) /\ n \in DOMAIN batch
  BY <1>1
<1>3. PICK grown : grown = Len(seqs[batch[n]].output_ids)
  OBVIOUS
<1>4. grown \in Nat
  <2>1. PICK s \in Sequence : s = seqs[batch[n]]
    BY <1>1, <1>2, IdsProperties
  <2>. QED BY <1>3, <2>1, OutputLength
<1>5. PICK base : Budgeted(base)
  BY <1>1 DEF SharedBudget
<1>6. /\ base \in [DOMAIN batch -> Nat] /\ SumFunction(base) <= MaxBatchTokens
      /\ \A p \in DOMAIN batch : SeqLen(seqs[batch[p]]) <= base[p] + grown
  BY <1>1, <1>2, <1>3, <1>5 DEF Budgeted
<1> DEFINE lens == [p \in DOMAIN batch |-> SeqLen(seqs[batch[p]])]
<1>7. /\ lens \in [DOMAIN batch -> Nat]
      /\ IsFiniteSet(DOMAIN batch) /\ Cardinality(DOMAIN batch) = n
  BY <1>1, <1>2, LengthsOf
<1>8. \A p \in DOMAIN batch : lens[p] <= base[p] + grown
  BY <1>6
<1>9. TotalTokens(batch) = SumFunction(lens)
  BY DEF TotalTokens
<1>. HIDE DEF lens
<1>10. /\ SumFunction(base) \in Nat /\ SumFunction(lens) \in Nat
       /\ SumFunction(lens) <= SumFunction(base) + Cardinality(DOMAIN batch) * grown
  BY <1>4, <1>6, <1>7, <1>8, SumGrows
<1>11. PICK over \in Nat : over = n * grown
  BY <1>4
<1>12. SumFunction(lens) <= MaxBatchTokens + over
  <2>1. SumFunction(lens) <= SumFunction(base) + over
    BY <1>7, <1>10, <1>11
  <2>. QED BY <1>6, <1>10, <2>1, SchedulerAssumption
<1>. QED BY <1>2, <1>3, <1>9, <1>11, <1>12

\* A batch that decodes past the admission budget (batching.py:133) does so by no
\* more than its size times what its newest row has generated.
THEOREM OvershootIsBounded == Spec => []BudgetOvershoot
<1>1. Init => SharedBudget
  BY DEF Init, InitScheduler, SharedBudget
<1>2. Init => BatchIsRunning
  BY ServiceInit
<1>. QED BY <1>1, <1>2, BudgetNext, BatchNext, BudgetBounds, NextIsAnyStep, TypeCorrect,
            WaitersAreUntouched, PTL DEF Spec
-----------------------------------------------------------------------------
(* What the modules above the loop rely on *)

\* What the loop guarantees, together, whoever its clients are.
LoopInv ==
  /\ TypeOK
  /\ FirstComeFirstServed
  /\ BatchIsRunning
  /\ WaitingUntouched
  /\ AllSound
  /\ BatchGoing
  /\ AllInFlight

\* It holds to begin with.
LEMMA LoopInvInit == Init => LoopInv
<1>1. Init => AllInFlight
  BY DEF Init, InitScheduler, Ids, AllInFlight
<1>. QED BY <1>1, TypeInit, ServiceInit, SoundInit DEF LoopInv

\* No step of any module breaks it.
LEMMA LoopInvNext == LoopInv /\ [AnyStep]_vars => LoopInv'
  BY TypeNext, OrderNext, BatchNext, WaitingNext, SoundNext, GoingNext, InFlightNext DEF LoopInv
=============================================================================
