---------------------------- MODULE GatewayProofs ----------------------------
(***************************************************************************)
(* Proofs about Gateway, for every value of its constants: what the wire   *)
(* says is true, a ready server serves the configured model, a loop that   *)
(* died owes nothing to one-shot requests, and /health shows one of the    *)
(* lives of ModelProcess.                                                  *)
(***************************************************************************)
EXTENDS Gateway, EngineProofs

-----------------------------------------------------------------------------
(* The invariant *)

\* How far the load got says which runner is in place: the mock until the swap,
\* the configured one after it; and the swap is over before the server is ready.
LoadOrder ==
  /\ configured \in {"mock", "real"}
  /\ runner \in {"mock", "real"}
  /\ load \in {"loading", "sleeping", "done", "failed"}
  /\ swapping \in BOOLEAN
  /\ load \in {"loading", "failed"} => configured = "real" /\ runner = "mock"
  /\ load \in {"sleeping", "done"} => runner = configured
  /\ swapping => load = "sleeping"

\* What the client saw of a response, and what its handler told.
Answers(status, outcome) ==
  /\ status = "" => outcome = "pending"
  /\ status = "gone" => outcome = "left"
  /\ status = "200" => outcome \in {"stop", "length"}
  /\ status \in {"500", "cut"} => outcome = "error"

\* A response belongs to the request it submitted, if it got that far, and says
\* what that request's handler told.
Responded(r) ==
  IF r.seq = 0
  THEN r.status \in {"", "503", "gone"} /\ (r.status = "" => r.stream)
  ELSE /\ r.seq \in Ids
       /\ r.status # "503"
       /\ calls[r.seq].stream = r.stream
       /\ Answers(r.status, calls[r.seq].outcome)

AllResponded ==
  /\ http \in Seq(Response)
  /\ \A i \in DOMAIN http : Responded(http[i])
  /\ \A i, j \in DOMAIN http : http[i].seq = http[j].seq => i = j \/ http[i].seq = 0

\* A request was decoded by the runner that tokenized it or by the one in place;
\* while that is the mock, there was no other.
Accounted(r) ==
  r.seq # 0 => /\ calls[r.seq].decoders \subseteq {r.encoded_by, runner}
               /\ runner = "mock" => r.encoded_by = "mock"

AllAccounted == \A i \in DOMAIN http : Accounted(http[i])

\* In flight on a dead loop are only streams.
OnlyStreamsInFlight == LoopIsDead => \A id \in InFlight : calls[id].stream

GatewayInv ==
  /\ EngineInv
  /\ LoadOrder
  /\ AllResponded
  /\ AllAccounted
  /\ OnlyStreamsInFlight
-----------------------------------------------------------------------------
(* What the engine's steps do to the calls *)

\* Start: a new request, whose handler has told nothing yet.
LEMMA StartedCall ==
  ASSUME EngineInv, NEW stream \in BOOLEAN, NEW eos \in SUBSET Tokens, Start(stream, eos)
  PROVE  /\ Ids' = Ids \cup {Len(seqs')} /\ Len(seqs') \notin Ids /\ Len(seqs') \in Nat \ {0}
         /\ calls'[Len(seqs')].stream = stream
         /\ calls'[Len(seqs')].outcome = "pending"
         /\ calls'[Len(seqs')].decoders = {}
         /\ \A id \in Ids : calls'[id] = calls[id]
         /\ \A id \in InFlight' : id \in InFlight \/ id = Len(seqs')
<1>. USE SchedulerAssumption
<1>1. PICK p \in PromptLens, m \in MaxNews : Add(p, m, eos)
  BY DEF Start, Submit
<1>2. p \in Nat /\ m \in Nat
  OBVIOUS
<1> DEFINE new == Len(seqs) + 1
<1>3. /\ Ids' = Ids \cup {new} /\ new \notin Ids /\ Len(seqs') = new
      /\ waiting' = waiting \/ waiting' = Append(waiting, new)
      /\ running' = running
  BY <1>1, <1>2, AddSequences DEF EngineInv, LoopInv, TypeOK
<1>4. /\ calls \in Seq(Call) /\ Len(calls) = Len(seqs) /\ Ids = DOMAIN calls
      /\ seqs \in Seq(Sequence) /\ waiting \in Seq(Ids)
  BY DEF EngineInv, Ids, LoopInv, TypeOK, SchedulerTypeOK
<1>5. /\ calls'[new].stream = stream /\ calls'[new].outcome = "pending"
      /\ calls'[new].decoders = {}
      /\ \A id \in Ids : calls'[id] = calls[id]
  BY <1>4 DEF Start
<1>6. new \in Nat \ {0}
  BY <1>4
<1>. HIDE DEF new
<1>7. \A id \in Range(waiting') : id \in Range(waiting) \/ id = new
  <2>1. DOMAIN Append(waiting, new) = DOMAIN waiting \cup {Len(waiting) + 1}
    BY <1>4
  <2>2. /\ Append(waiting, new)[Len(waiting) + 1] = new
        /\ \A k \in DOMAIN waiting : Append(waiting, new)[k] = waiting[k]
    BY <1>4
  <2>. QED BY <1>3, <2>1, <2>2 DEF Range
<1>. QED BY <1>3, <1>5, <1>6, <1>7 DEF InFlight

\* A handler's step tells its own client something, or nothing, and no other.
LEMMA HandlerTells ==
  ASSUME EngineInv, NEW by \in Runners, NEW id \in Ids, HandlerStep(id, by) \/ HangUp(id)
  PROVE  /\ Ids' = Ids
         /\ \A other \in Ids \ {id} : calls'[other] = calls[other]
         /\ calls'[id].stream = calls[id].stream
         /\ GetToken(id, by) \/ Finally(id) => calls'[id].outcome = calls[id].outcome
         /\ ReturnCompletion(id, by) \/ YieldTerminal(id)
              => calls'[id].outcome \in {"stop", "length", "error"}
         /\ HangUp(id) => calls'[id].outcome = "left"
<1> DEFINE s == seqs[id]
           c == calls[id]
<1>1. /\ s \in Sequence /\ Sound(s) /\ c \in Call /\ Served(s, c)
      /\ id \in DOMAIN calls /\ DOMAIN calls = Ids /\ calls \in Seq(Call)
  BY EngineInvAt DEF EngineInv, LoopInv, TypeOK, SchedulerTypeOK, Ids
<1>2. Ids' = Ids
  BY HandlerSteps
<1>3. ASSUME GetToken(id, by)
      PROVE  /\ \A other \in Ids \ {id} : calls'[other] = calls[other]
             /\ calls'[id].stream = c.stream /\ calls'[id].outcome = c.outcome
  <2>1. PICK text, decoders :
          calls' = [calls EXCEPT ![id].read = c.read + 1, ![id].text = text,
                                 ![id].decoders = decoders]
    BY <1>3 DEF GetToken
  <2>. QED BY <1>1, <2>1 DEF Call
<1>4. ASSUME Finally(id)
      PROVE  /\ \A other \in Ids \ {id} : calls'[other] = calls[other]
             /\ calls'[id].stream = c.stream /\ calls'[id].outcome = c.outcome
  <2>1. calls' = [calls EXCEPT ![id].at = "done"]
    BY <1>4 DEF Finally
  <2>. QED BY <1>1, <2>1 DEF Call
<1>5. ASSUME ReturnCompletion(id, by) \/ YieldTerminal(id)
      PROVE  /\ \A other \in Ids \ {id} : calls'[other] = calls[other]
             /\ calls'[id].stream = c.stream
             /\ calls'[id].outcome \in {"stop", "length", "error"}
  <2>1. c.at = "await" /\ c.read < Len(s.queue) /\ ItemAt(s, c) = None
    BY <1>5 DEF ReturnCompletion, YieldTerminal, Awaiting, ItemAt
  <2>2. s.finish_reason \in {"stop", "length", "error"}
    <3>. HIDE DEF s, c
    <3>. QED BY <1>1, <2>1, EndServed DEF FinishReasons
  <2>3. ReturnCompletion(id, by) => seqs'[id] = s
    BY ReturnCompletionServes
  <2>4. PICK at, text, decoders :
          calls' = [calls EXCEPT ![id].read = c.read + 1, ![id].at = at, ![id].text = text,
                                 ![id].decoders = decoders, ![id].outcome = s.finish_reason]
    <3>1. CASE ReturnCompletion(id, by)
      BY <2>3, <3>1 DEF ReturnCompletion
    <3>2. CASE YieldTerminal(id)
      <4>1. calls' = [calls EXCEPT ![id].read = c.read + 1, ![id].at = "closing",
                                   ![id].outcome = s.finish_reason]
        BY <3>2 DEF YieldTerminal
      <4>2. calls' = [calls EXCEPT ![id].read = c.read + 1, ![id].at = "closing",
                                   ![id].text = c.text, ![id].decoders = c.decoders,
                                   ![id].outcome = s.finish_reason]
        BY <1>1, <4>1 DEF Call
      <4>. QED BY <4>2
    <3>. QED BY <1>5, <3>1, <3>2
  <2>5. /\ \A other \in Ids \ {id} : calls'[other] = calls[other]
        /\ calls'[id].stream = c.stream /\ calls'[id].outcome = s.finish_reason
    BY <1>1, <2>4 DEF Call
  <2>. QED BY <2>2, <2>5
<1>6. ASSUME HangUp(id)
      PROVE  /\ \A other \in Ids \ {id} : calls'[other] = calls[other]
             /\ calls'[id].stream = c.stream /\ calls'[id].outcome = "left"
  <2>1. calls' = [calls EXCEPT ![id].at = "closing", ![id].outcome = "left"]
    BY <1>6 DEF HangUp
  <2>. QED BY <1>1, <2>1 DEF Call
<1>. QED BY <1>2, <1>3, <1>4, <1>5, <1>6 DEF HandlerStep

\* To the engine, the gateway's steps are among those its invariant survives.
LEMMA GatewayStepIsEngineStep ==
  ASSUME GatewayInv, [GatewayNext]_gatewayVars
  PROVE  [AnyEngineStep]_engineVars
<1>. USE RunLoopAssumption, GatewayAssumption
<1>1. ASSUME NEW stream \in BOOLEAN, Start(stream, StopTokens) PROVE AnyEngineStep
  <2>1. StopTokens \in SUBSET Tokens
    BY DEF StopTokens
  <2>. QED BY <1>1, <2>1 DEF AnyEngineStep
<1>2. ASSUME NEW i \in DOMAIN http, Submitted(i) PROVE http[i].seq \in Ids
  BY <1>2 DEF GatewayInv, AllResponded, Responded, Submitted
<1>3. ASSUME NEW i \in DOMAIN http, ReadToken(i) \/ Answer(i) \/ EndStream(i) \/ Unwind(i)
      PROVE  AnyEngineStep
  <2>1. runner \in Runners
    BY DEF GatewayInv, LoadOrder, Runners
  <2>2. HandlerStep(http[i].seq, runner) /\ http[i].seq \in Ids
    BY <1>2, <1>3 DEF ReadToken, Answer, EndStream, Unwind, HandlerStep
  <2>. QED BY <2>1, <2>2 DEF AnyEngineStep
<1>4. ASSUME NEW i \in DOMAIN http, Disconnect(i) PROVE [AnyEngineStep]_engineVars
  <2>1. "real" \in Runners
    BY DEF Runners
  <2>. QED BY <1>2, <1>4, <2>1 DEF Disconnect, AnyEngineStep
<1>5. ASSUME LoopTask PROVE AnyEngineStep
  <2>1. MockTick => ExecReturns
    <3>1. [row \in DOMAIN batch |-> MockToken] \in [DOMAIN batch -> Tokens \cup {None}]
      OBVIOUS
    <3>. QED BY <3>1 DEF MockTick, ExecReturns
  <2>2. LoopStep
    BY <1>5, <2>1 DEF LoopTask, RealTick, LoopStep
  <2>. QED BY <1>5, <2>2 DEF LoopTask, AnyEngineStep, AnyLoopStep
<1>6. ASSUME OldLoopEnds PROVE AnyEngineStep
  BY <1>6 DEF OldLoopEnds, AnyEngineStep, AnyLoopStep, Replaced
<1>. QED BY <1>1, <1>3, <1>4, <1>5, <1>6
         DEF GatewayNext, GatewayHandlerStep, Refuse, Generate, RespondStreaming, OpenStream,
             SwapRunner, LoadFails, LoadDone, gatewayVars, engineVars
-----------------------------------------------------------------------------
(* Every step keeps the invariant *)

\* The server starts with the mock, no responses and nothing in flight.
LEMMA GatewayInvInit == GatewayInit => GatewayInv
<1>. SUFFICES ASSUME GatewayInit PROVE GatewayInv
  OBVIOUS
<1>1. EngineInv
  BY EngineInvInit DEF GatewayInit
<1>2. LoadOrder
  BY DEF GatewayInit, LoadOrder
<1>3. AllResponded
  BY DEF GatewayInit, AllResponded
<1>4. OnlyStreamsInFlight
  BY DEF GatewayInit, EngineInit, Init, OnlyStreamsInFlight, LoopIsDead
<1>5. AllAccounted
  BY DEF GatewayInit, AllAccounted
<1>. QED BY <1>1, <1>2, <1>3, <1>4, <1>5 DEF GatewayInv

\* The load, the runner and the swap go on together.
LEMMA LoadOrderNext == LoadOrder /\ [GatewayNext]_gatewayVars => LoadOrder'
<1>. SUFFICES ASSUME LoadOrder, [GatewayNext]_gatewayVars PROVE LoadOrder'
  OBVIOUS
<1>1. CASE UNCHANGED serverVars
  BY <1>1 DEF serverVars, LoadOrder
<1>2. CASE OldLoopEnds
  BY <1>2 DEF OldLoopEnds, LoadOrder
<1>3. CASE SwapRunner
  BY <1>3 DEF SwapRunner, LoadOrder
<1>4. CASE LoadFails
  BY <1>4 DEF LoadFails, LoadOrder
<1>5. CASE LoadDone
  BY <1>5 DEF LoadDone, LoadOrder
<1>. QED BY <1>1, <1>2, <1>3, <1>4, <1>5
         DEF GatewayNext, GatewayHandlerStep, Refuse, Generate, RespondStreaming, OpenStream,
             ReadToken, Answer, EndStream, Disconnect, Unwind, LoopTask, gatewayVars, serverVars

\* What the invariant says of one response.
LEMMA ResponseAt ==
  ASSUME AllResponded, NEW i \in DOMAIN http
  PROVE  http[i] \in Response /\ Responded(http[i]) /\ (http[i].seq # 0 => http[i].seq \in Ids)
<1>1. http[i] \in Response
  BY DEF AllResponded
<1>2. Responded(http[i])
  BY DEF AllResponded
<1>3. http[i].seq # 0 => http[i].seq \in Ids
  BY <1>2 DEF Responded
<1>. QED BY <1>1, <1>2, <1>3

\* A response that is added to those before.
LEMMA ResponseAdded ==
  ASSUME http \in Seq(Response), NEW r \in Response, http' = Append(http, r)
  PROVE  /\ http' \in Seq(Response)
         /\ DOMAIN http' = DOMAIN http \cup {Len(http) + 1}
         /\ Len(http) + 1 \notin DOMAIN http
         /\ http'[Len(http) + 1] = r
         /\ \A i \in DOMAIN http : http'[i] = http[i]
  OBVIOUS

\* One that replaces another.
LEMMA ResponseReplaced ==
  ASSUME http \in Seq(Response), NEW i \in DOMAIN http, NEW r \in Response,
         http' = [http EXCEPT ![i] = r]
  PROVE  /\ http' \in Seq(Response)
         /\ DOMAIN http' = DOMAIN http
         /\ http'[i] = r
         /\ \A j \in DOMAIN http \ {i} : http'[j] = http[j]
  OBVIOUS

\* A response still belongs to its request after a step that leaves both as they
\* are.
LEMMA StillResponded ==
  ASSUME NEW r \in Response, Responded(r), Ids \subseteq Ids',
         r.seq # 0 => /\ calls'[r.seq].stream = calls[r.seq].stream
                      /\ calls'[r.seq].outcome = calls[r.seq].outcome
  PROVE  Responded(r)'
  BY DEF Responded

\* A response to a request that a step does not concern.
LEMMA NewResponse ==
  ASSUME AllResponded, Ids \subseteq Ids',
         \A id \in Ids : calls'[id].stream = calls[id].stream /\ calls'[id].outcome = calls[id].outcome,
         NEW r \in Response, http' = Append(http, r), Responded(r)',
         r.seq = 0 \/ r.seq \notin Ids
  PROVE  AllResponded'
<1> DEFINE n == Len(http) + 1
<1>1. /\ http' \in Seq(Response)
      /\ DOMAIN http' = DOMAIN http \cup {n} /\ n \notin DOMAIN http
      /\ http'[n] = r /\ \A i \in DOMAIN http : http'[i] = http[i]
  BY ResponseAdded DEF AllResponded
<1>. HIDE DEF n
<1>2. ASSUME NEW i \in DOMAIN http
      PROVE  http[i] \in Response /\ Responded(http[i]) /\ (http[i].seq # 0 => http[i].seq \in Ids)
  BY ResponseAt
<1>3. ASSUME NEW i \in DOMAIN http PROVE Responded(http[i])'
  <2>1. PICK x \in Response : x = http[i] /\ Responded(x) /\ (x.seq # 0 => x.seq \in Ids)
    BY <1>2
  <2>2. Responded(x)'
    BY <2>1, StillResponded
  <2>3. http[i]' = x
    BY <1>1, <2>1
  <2>. QED BY <2>2, <2>3
<1>4. ASSUME NEW i \in DOMAIN http' PROVE Responded(http[i])'
  <2>1. CASE i \in DOMAIN http
    BY <1>3, <2>1
  <2>2. CASE i = n
    BY <1>1, <2>2
  <2>. QED BY <1>1, <2>1, <2>2
<1>5. ASSUME NEW i \in DOMAIN http', NEW j \in DOMAIN http', http'[i].seq = http'[j].seq
      PROVE  i = j \/ http'[i].seq = 0
  <2>1. \A k \in DOMAIN http : http[k].seq = r.seq => r.seq = 0
    BY <1>2
  <2>. QED BY <1>1, <1>5, <2>1 DEF AllResponded
<1>. QED BY <1>1, <1>4, <1>5 DEF AllResponded

\* A response whose handler does something: the others are as they were.
LEMMA ResponseGoesOn ==
  ASSUME AllResponded, Ids \subseteq Ids', NEW i \in DOMAIN http,
         \A id \in Ids \ {http[i].seq} :
           calls'[id].stream = calls[id].stream /\ calls'[id].outcome = calls[id].outcome,
         NEW r \in Response, http' = [http EXCEPT ![i] = r], Responded(r)',
         r.seq = http[i].seq \/ r.seq \notin Ids
  PROVE  AllResponded'
<1>1. /\ http' \in Seq(Response) /\ DOMAIN http' = DOMAIN http
      /\ http'[i] = r /\ \A j \in DOMAIN http \ {i} : http'[j] = http[j]
  BY ResponseReplaced DEF AllResponded
<1>2. ASSUME NEW j \in DOMAIN http
      PROVE  http[j] \in Response /\ Responded(http[j]) /\ (http[j].seq # 0 => http[j].seq \in Ids)
  BY ResponseAt
<1>3. ASSUME NEW j \in DOMAIN http \ {i} PROVE Responded(http[j])'
  <2>1. PICK x \in Response : x = http[j] /\ Responded(x) /\ (x.seq # 0 => x.seq \in Ids)
    BY <1>2
  <2>2. x.seq # 0 => x.seq # http[i].seq
    BY <2>1 DEF AllResponded
  <2>3. Responded(x)'
    BY <2>1, <2>2, StillResponded
  <2>4. http[j]' = x
    BY <1>1, <2>1
  <2>. QED BY <2>3, <2>4
<1>4. ASSUME NEW j \in DOMAIN http' PROVE Responded(http[j])'
  <2>1. CASE j = i
    BY <1>1, <2>1
  <2>2. CASE j # i
    BY <1>1, <1>3, <2>2
  <2>. QED BY <2>1, <2>2
<1>5. ASSUME NEW j \in DOMAIN http', NEW k \in DOMAIN http', http'[j].seq = http'[k].seq
      PROVE  j = k \/ http'[j].seq = 0
  <2>1. \A x \in DOMAIN http \ {i} : http[x].seq = r.seq => r.seq = 0
    BY <1>2 DEF AllResponded
  <2>. QED BY <1>1, <1>5, <2>1 DEF AllResponded
<1>. QED BY <1>1, <1>4, <1>5 DEF AllResponded

\* No response changes, and no outcome.
LEMMA ResponsesStay ==
  ASSUME AllResponded, Ids \subseteq Ids', http' = http,
         \A id \in Ids : calls'[id].stream = calls[id].stream /\ calls'[id].outcome = calls[id].outcome
  PROVE  AllResponded'
<1>1. ASSUME NEW i \in DOMAIN http PROVE Responded(http[i])'
  <2>1. PICK x \in Response : x = http[i] /\ Responded(x) /\ (x.seq # 0 => x.seq \in Ids)
    BY ResponseAt
  <2>2. Responded(x)'
    BY <2>1, StillResponded
  <2>. QED BY <2>1, <2>2
<1>. QED BY <1>1 DEF AllResponded

\* Requests are never forgotten.
LEMMA IdsStay ==
  ASSUME GatewayInv, [GatewayNext]_gatewayVars
  PROVE  Ids \subseteq Ids'
  BY GatewayStepIsEngineStep, EngineStepIsLoopStep, StepTouches
     DEF GatewayInv, EngineInv, LoopInv

\* A handler that tells its client a verdict, and the status that goes with it.
LEMMA StatusIsVerdict ==
  ASSUME GatewayInv, NEW i \in DOMAIN http, Submitted(i),
         ReturnCompletion(http[i].seq, runner) \/ YieldTerminal(http[i].seq),
         NEW bad \in {"500", "cut"},
         http' = [http EXCEPT ![i].status =
                    IF calls'[http[i].seq].outcome \in FatalFinishReasons THEN bad ELSE "200"]
  PROVE  AllResponded'
<1>1. PICK x \in Response : x = http[i] /\ Responded(x)
  BY ResponseAt DEF GatewayInv
<1>2. PICK id, outcome : id = x.seq /\ outcome = calls'[id].outcome
  OBVIOUS
<1> DEFINE status == IF outcome \in FatalFinishReasons THEN bad ELSE "200"
           r == [x EXCEPT !.status = status]
<1>3. id \in Ids /\ calls[id].stream = x.stream /\ id # 0 /\ runner \in Runners
  BY <1>1, <1>2 DEF Responded, Submitted, GatewayInv, LoadOrder, Runners
<1>4. /\ Ids' = Ids
      /\ \A other \in Ids \ {id} : calls'[other] = calls[other]
      /\ calls'[id].stream = calls[id].stream
      /\ outcome \in {"stop", "length", "error"}
  BY <1>1, <1>2, <1>3, HandlerTells DEF GatewayInv, HandlerStep
<1>5. http' = [http EXCEPT ![i] = r]
  BY <1>1, <1>2
<1>6. /\ status \in {"200", "500", "cut"}
      /\ Answers(status, outcome)
  BY <1>4 DEF FatalFinishReasons, Answers
<1>. HIDE DEF status
<1>7. /\ r \in Response
      /\ r.seq = id /\ r.stream = x.stream /\ r.status = status
  BY <1>2, <1>6 DEF Response
<1>8. Responded(r)'
  BY <1>2, <1>3, <1>4, <1>6, <1>7 DEF Responded
<1>. HIDE DEF r
<1>9. id = http[i].seq
  BY <1>1, <1>2
<1>. QED BY <1>4, <1>5, <1>7, <1>8, <1>9, ResponseGoesOn DEF GatewayInv

\* The wire and the handlers go on together.
LEMMA AllRespondedNext ==
  ASSUME GatewayInv, [GatewayNext]_gatewayVars
  PROVE  AllResponded'
<1>. USE RunLoopAssumption
<1>a. AllResponded /\ EngineInv /\ runner \in {"mock", "real"} /\ runner \in Runners
  BY DEF GatewayInv, LoadOrder, Runners
<1>b. Ids \subseteq Ids'
  BY IdsStay
<1>1. ASSUME NEW stream \in BOOLEAN, NEW status \in {"", "503"}, status = "" => stream,
             http' = Received(stream, 0, status), UNCHANGED calls
      PROVE  AllResponded'
  <2> DEFINE r == [stream |-> stream, seq |-> 0, status |-> status, encoded_by |-> ""]
  <2>1. http' = Append(http, r) /\ r \in Response
    BY <1>1 DEF Received, Response
  <2>2. Responded(r)'
    BY <1>1 DEF Responded
  <2>3. r.seq = 0
    OBVIOUS
  <2>. HIDE DEF r
  <2>. QED BY <1>a, <1>b, <1>1, <2>1, <2>2, <2>3, NewResponse
<1>2. ASSUME Generate PROVE AllResponded'
  <2>0. PICK new : new = Len(seqs')
    OBVIOUS
  <2>r. PICK r : r = [stream |-> FALSE, seq |-> new, status |-> "", encoded_by |-> runner]
    OBVIOUS
  <2>1. /\ Ids' = Ids \cup {new} /\ new \notin Ids /\ new \in Nat \ {0}
        /\ calls'[new].stream = FALSE /\ calls'[new].outcome = "pending"
        /\ \A id \in Ids : calls'[id] = calls[id]
    <3>1. StopTokens \in SUBSET Tokens
      BY DEF StopTokens
    <3>. QED BY <1>a, <1>2, <2>0, <3>1, StartedCall DEF Generate
  <2>2. http' = Append(http, r) /\ r \in Response
    BY <1>a, <1>2, <2>0, <2>1, <2>r DEF Generate, Received, Response
  <2>3. Responded(r)'
    BY <2>1, <2>r DEF Responded, Answers
  <2>4. r.seq \notin Ids
    BY <2>1, <2>r
  <2>. QED BY <1>a, <1>b, <2>1, <2>2, <2>3, <2>4, NewResponse
<1>3. ASSUME NEW i \in DOMAIN http, OpenStream(i) PROVE AllResponded'
  <2>1. PICK x \in Response : x = http[i]
    BY <1>a, ResponseAt
  <2>0. PICK new : new = Len(seqs')
    OBVIOUS
  <2>r. PICK r : r = [x EXCEPT !.seq = new, !.encoded_by = runner]
    OBVIOUS
  <2>2. /\ Ids' = Ids \cup {new} /\ new \notin Ids /\ new \in Nat \ {0}
        /\ calls'[new].stream = TRUE /\ calls'[new].outcome = "pending"
        /\ \A id \in Ids : calls'[id] = calls[id]
    <3>1. StopTokens \in SUBSET Tokens
      BY DEF StopTokens
    <3>. QED BY <1>a, <1>3, <2>0, <3>1, StartedCall DEF OpenStream
  <2>3. x.stream = TRUE /\ x.status = "" /\ http' = [http EXCEPT ![i] = r]
    BY <1>3, <2>0, <2>1, <2>r DEF OpenStream, Open
  <2>4. r \in Response /\ r.seq = new /\ r.stream = TRUE /\ r.status = ""
    BY <1>a, <2>2, <2>3, <2>r DEF Response
  <2>5. Responded(r)'
    BY <2>2, <2>4 DEF Responded, Answers
  <2>6. r.seq \notin Ids
    BY <2>2, <2>4
  <2>. QED BY <1>a, <1>b, <2>2, <2>3, <2>4, <2>5, <2>6, ResponseGoesOn
<1>4. ASSUME NEW i \in DOMAIN http, ReadToken(i) \/ Unwind(i) PROVE AllResponded'
  <2>1. http[i].seq \in Ids /\ http' = http
    BY <1>a, <1>4, ResponseAt DEF ReadToken, Unwind, Submitted
  <2>2. GetToken(http[i].seq, runner) \/ Finally(http[i].seq)
    BY <1>4 DEF ReadToken, Unwind
  <2>3. \A id \in Ids : calls'[id].stream = calls[id].stream /\ calls'[id].outcome = calls[id].outcome
    BY <1>a, <2>1, <2>2, HandlerTells DEF HandlerStep
  <2>. QED BY <1>a, <1>b, <2>1, <2>3, ResponsesStay
<1>5. ASSUME NEW i \in DOMAIN http, Answer(i) \/ EndStream(i) PROVE AllResponded'
  BY <1>5, StatusIsVerdict DEF Answer, EndStream
<1>6. ASSUME NEW i \in DOMAIN http, Disconnect(i) PROVE AllResponded'
  <2>1. PICK x \in Response : x = http[i] /\ Responded(x)
    BY <1>a, ResponseAt
  <2> DEFINE r == [x EXCEPT !.status = "gone"]
  <2>2. http' = [http EXCEPT ![i] = r]
    BY <1>6, <2>1 DEF Disconnect
  <2>3. r \in Response /\ r.seq = x.seq /\ r.stream = x.stream /\ r.status = "gone"
    BY DEF Response
  <2>4. CASE x.seq # 0
    <3>1. x.seq \in Ids /\ calls[x.seq].stream = x.stream
      BY <2>1, <2>4 DEF Responded
    <3>2. HangUp(x.seq)
      BY <1>6, <2>1, <2>4 DEF Disconnect, Submitted
    <3>3. /\ Ids' = Ids
          /\ \A other \in Ids \ {x.seq} : calls'[other] = calls[other]
          /\ calls'[x.seq].stream = calls[x.seq].stream
          /\ calls'[x.seq].outcome = "left"
      BY <1>a, <3>1, <3>2, HandlerTells
    <3>4. Responded(r)'
      BY <2>3, <2>4, <3>1, <3>3 DEF Responded, Answers
    <3>. HIDE DEF r
    <3>. QED BY <1>a, <1>b, <2>1, <2>2, <2>3, <3>3, <3>4, ResponseGoesOn
  <2>5. CASE x.seq = 0
    <3>1. UNCHANGED calls
      BY <1>6, <2>1, <2>5 DEF Disconnect, Submitted, engineVars
    <3>2. Responded(r)'
      BY <2>3, <2>5 DEF Responded
    <3>. HIDE DEF r
    <3>. QED BY <1>a, <1>b, <2>1, <2>2, <2>3, <3>1, <3>2, ResponseGoesOn
  <2>. QED BY <2>4, <2>5
<1>7. ASSUME UNCHANGED <<calls, http>> PROVE AllResponded'
  BY <1>a, <1>b, <1>7, ResponsesStay
<1>8. ASSUME NEW stream \in BOOLEAN, Refuse(stream) PROVE AllResponded'
  BY <1>1, <1>8 DEF Refuse, engineVars
<1>9. ASSUME RespondStreaming PROVE AllResponded'
  BY <1>1, <1>9 DEF RespondStreaming, engineVars
<1>. QED BY <1>2, <1>3, <1>4, <1>5, <1>6, <1>7, <1>8, <1>9
         DEF GatewayNext, GatewayHandlerStep, LoopTask, OldLoopEnds, SwapRunner, LoadFails,
             LoadDone, gatewayVars, engineVars

\* A response that only gets a status.
LEMMA StatusSet ==
  ASSUME http \in Seq(Response), NEW i \in DOMAIN http, NEW status,
         http' = [http EXCEPT ![i].status = status]
  PROVE  /\ DOMAIN http' = DOMAIN http
         /\ \A j \in DOMAIN http : /\ http'[j].seq = http[j].seq
                                   /\ http'[j].encoded_by = http[j].encoded_by
<1>1. PICK x \in Response : x = http[i]
  OBVIOUS
<1>2. PICK r : r = [x EXCEPT !.status = status]
  OBVIOUS
<1>3. r.seq = x.seq /\ r.encoded_by = x.encoded_by
  BY <1>2 DEF Response
<1>4. http' = [http EXCEPT ![i] = r]
  BY <1>1, <1>2
<1>5. DOMAIN http' = DOMAIN http /\ http'[i] = r /\ \A j \in DOMAIN http \ {i} : http'[j] = http[j]
  BY <1>4
<1>. QED BY <1>1, <1>3, <1>5

\* A handler adds the runner in place to those that decoded for its request.
LEMMA HandlerAccounts ==
  ASSUME GatewayInv, NEW i \in DOMAIN http, Submitted(i),
         HandlerStep(http[i].seq, runner) \/ HangUp(http[i].seq), UNCHANGED serverVars,
         NEW status, http' = [http EXCEPT ![i].status = status]
  PROVE  AllAccounted'
<1>a. /\ EngineInv /\ AllResponded /\ AllAccounted /\ runner \in Runners
      /\ http \in Seq(Response)
  BY DEF GatewayInv, LoadOrder, Runners, AllResponded
<1>1. PICK id \in Ids : id = http[i].seq /\ (HandlerStep(id, runner) \/ HangUp(id))
  BY <1>a, ResponseAt DEF Submitted
<1>2. /\ calls'[id].decoders \subseteq calls[id].decoders \cup {runner}
      /\ \A other \in Ids \ {id} : calls'[other] = calls[other]
  BY <1>a, <1>1, DecodersGrow
<1>3. /\ DOMAIN http' = DOMAIN http
      /\ \A j \in DOMAIN http : /\ http'[j].seq = http[j].seq
                                /\ http'[j].encoded_by = http[j].encoded_by
  BY <1>a, StatusSet
<1>4. ASSUME NEW j \in DOMAIN http PROVE Accounted(http[j])'
  <2>1. runner' = runner
    BY DEF serverVars
  <2>2. CASE http[j].seq = 0
    BY <1>3, <2>2 DEF Accounted
  <2>3. CASE http[j].seq # 0
    <3>1. http[j].seq \in Ids /\ Accounted(http[j])
      BY <1>a, <2>3, ResponseAt DEF AllAccounted
    <3>2. calls'[http[j].seq].decoders \subseteq calls[http[j].seq].decoders \cup {runner}
      BY <1>2, <3>1
    <3>. QED BY <1>3, <2>1, <2>3, <3>1, <3>2 DEF Accounted
  <2>. QED BY <2>2, <2>3
<1>. QED BY <1>3, <1>4 DEF AllAccounted

\* Nothing else decodes; a new request has not been decoded, and the swap puts the
\* real runner in place for good.
LEMMA AllAccountedNext ==
  ASSUME GatewayInv, [GatewayNext]_gatewayVars
  PROVE  AllAccounted'
<1>. USE RunLoopAssumption
<1>a. /\ EngineInv /\ AllResponded /\ AllAccounted /\ LoadOrder
      /\ http \in Seq(Response)
  BY DEF GatewayInv, AllResponded
<1>1. ASSUME \A id \in Ids : calls'[id] = calls[id], http' = http,
             runner' = runner \/ (runner' = "real" /\ runner = "mock")
      PROVE  AllAccounted'
  <2>1. ASSUME NEW j \in DOMAIN http PROVE Accounted(http[j])'
    <3>1. Accounted(http[j]) /\ (http[j].seq # 0 => http[j].seq \in Ids)
      BY <1>a, ResponseAt DEF AllAccounted
    <3>. QED BY <1>1, <3>1 DEF Accounted
  <2>. QED BY <1>1, <2>1 DEF AllAccounted
<1>2. ASSUME NEW r, http' = Append(http, r), \A id \in Ids : calls'[id] = calls[id],
             r.seq # 0 => calls'[r.seq].decoders = {} /\ r.encoded_by = runner,
             UNCHANGED serverVars
      PROVE  AllAccounted'
  <2>1. /\ DOMAIN http' = DOMAIN http \cup {Len(http) + 1}
        /\ http'[Len(http) + 1] = r /\ \A j \in DOMAIN http : http'[j] = http[j]
    BY <1>a, <1>2
  <2>2. ASSUME NEW j \in DOMAIN http PROVE Accounted(http[j])'
    <3>1. Accounted(http[j]) /\ (http[j].seq # 0 => http[j].seq \in Ids)
      BY <1>a, ResponseAt DEF AllAccounted
    <3>. QED BY <1>2, <2>1, <3>1 DEF Accounted, serverVars
  <2>4. ASSUME NEW j \in DOMAIN http', j \notin DOMAIN http PROVE Accounted(http[j])'
    <3>1. http'[j] = r
      BY <2>1, <2>4
    <3>. QED BY <1>2, <3>1 DEF Accounted, serverVars
  <2>. QED BY <2>2, <2>4 DEF AllAccounted
<1>3. ASSUME Generate PROVE AllAccounted'
  <2>0. PICK new : new = Len(seqs')
    OBVIOUS
  <2>1. /\ new # 0 /\ calls'[new].decoders = {} /\ \A id \in Ids : calls'[id] = calls[id]
    <3>1. StopTokens \in SUBSET Tokens
      BY DEF StopTokens
    <3>. QED BY <1>a, <1>3, <2>0, <3>1, StartedCall DEF Generate
  <2>2. PICK r : r = [stream |-> FALSE, seq |-> new, status |-> "", encoded_by |-> runner]
    OBVIOUS
  <2>3. http' = Append(http, r)
    BY <1>3, <2>0, <2>1, <2>2 DEF Generate, Received
  <2>. QED BY <1>2, <1>3, <2>1, <2>2, <2>3 DEF Generate
<1>4. ASSUME NEW i \in DOMAIN http, OpenStream(i) PROVE AllAccounted'
  <2>0. PICK new : new = Len(seqs')
    OBVIOUS
  <2>1. /\ new # 0 /\ calls'[new].decoders = {} /\ \A id \in Ids : calls'[id] = calls[id]
    <3>1. StopTokens \in SUBSET Tokens
      BY DEF StopTokens
    <3>. QED BY <1>a, <1>4, <2>0, <3>1, StartedCall DEF OpenStream
  <2>2. /\ DOMAIN http' = DOMAIN http
        /\ http'[i].seq = new /\ http'[i].encoded_by = runner
        /\ \A j \in DOMAIN http \ {i} : http'[j] = http[j]
    <3>1. PICK x \in Response : x = http[i]
      BY <1>a
    <3>2. PICK r : r = [x EXCEPT !.seq = new, !.encoded_by = runner]
      OBVIOUS
    <3>3. r.seq = new /\ r.encoded_by = runner
      BY <3>2 DEF Response
    <3>4. http' = [http EXCEPT ![i] = r]
      BY <1>4, <2>0, <3>1, <3>2 DEF OpenStream
    <3>. QED BY <1>a, <3>3, <3>4
  <2>3. runner' = runner
    BY <1>4 DEF OpenStream, serverVars
  <2>4. ASSUME NEW j \in DOMAIN http \ {i} PROVE Accounted(http[j])'
    <3>1. Accounted(http[j]) /\ (http[j].seq # 0 => http[j].seq \in Ids)
      BY <1>a, ResponseAt DEF AllAccounted
    <3>. QED BY <2>1, <2>2, <2>3, <3>1 DEF Accounted
  <2>5. Accounted(http[i])'
    BY <2>1, <2>2, <2>3 DEF Accounted
  <2>. QED BY <2>2, <2>4, <2>5 DEF AllAccounted
<1>5. ASSUME NEW i \in DOMAIN http,
             ReadToken(i) \/ Unwind(i) \/ Answer(i) \/ EndStream(i)
      PROVE  AllAccounted'
  <2>1. Submitted(i) /\ HandlerStep(http[i].seq, runner) /\ UNCHANGED serverVars
    BY <1>5 DEF ReadToken, Unwind, Answer, EndStream, HandlerStep
  <2>2. \E status : http' = [http EXCEPT ![i].status = status]
    <3>1. CASE ReadToken(i) \/ Unwind(i)
      <4>1. http' = http
        BY <3>1 DEF ReadToken, Unwind
      <4>2. [http EXCEPT ![i].status = http[i].status] = http
        <5>1. http[i] \in Response
          BY <1>a
        <5>2. [http[i] EXCEPT !.status = http[i].status] = http[i]
          BY <5>1 DEF Response
        <5>. QED BY <1>a, <5>2
      <4>. QED BY <4>1, <4>2
    <3>2. CASE Answer(i) \/ EndStream(i)
      BY <3>2 DEF Answer, EndStream
    <3>. QED BY <1>5, <3>1, <3>2
  <2>. QED BY <2>1, <2>2, HandlerAccounts
<1>6. ASSUME NEW i \in DOMAIN http, Disconnect(i) PROVE AllAccounted'
  <2>1. http' = [http EXCEPT ![i].status = "gone"] /\ UNCHANGED serverVars
    BY <1>6 DEF Disconnect
  <2>2. CASE Submitted(i)
    <3>1. HangUp(http[i].seq)
      BY <1>6, <2>2 DEF Disconnect
    <3>. QED BY <2>1, <2>2, <3>1, HandlerAccounts
  <2>3. CASE ~Submitted(i)
    <3>1. calls' = calls /\ runner' = runner
      BY <1>6, <2>3 DEF Disconnect, engineVars, serverVars
    <3>2. /\ DOMAIN http' = DOMAIN http
          /\ \A j \in DOMAIN http : /\ http'[j].seq = http[j].seq
                                    /\ http'[j].encoded_by = http[j].encoded_by
      BY <1>a, <2>1, StatusSet
    <3>3. ASSUME NEW j \in DOMAIN http PROVE Accounted(http[j])'
      BY <1>a, <3>1, <3>2 DEF AllAccounted, Accounted
    <3>. QED BY <3>2, <3>3 DEF AllAccounted
  <2>. QED BY <2>2, <2>3
<1>7. ASSUME NEW stream \in BOOLEAN, NEW status, http' = Received(stream, 0, status),
             UNCHANGED <<engineVars, serverVars>>
      PROVE  AllAccounted'
  <2>1. PICK r : r = [stream |-> stream, seq |-> 0, status |-> status, encoded_by |-> ""]
    OBVIOUS
  <2>2. http' = Append(http, r) /\ r.seq = 0
    BY <1>7, <2>1 DEF Received
  <2>. QED BY <1>2, <1>7, <2>2 DEF engineVars
<1>8. CASE SwapRunner
  BY <1>1, <1>8, <1>a DEF SwapRunner, engineVars, LoadOrder
<1>9. CASE LoopTask \/ OldLoopEnds \/ LoadFails \/ LoadDone \/ UNCHANGED gatewayVars
  <2>1. calls' = calls /\ http' = http /\ runner' = runner
    BY <1>9 DEF LoopTask, OldLoopEnds, LoadFails, LoadDone, gatewayVars, engineVars, serverVars
  <2>. QED BY <1>1, <2>1
<1>10. ASSUME NEW stream \in BOOLEAN, Refuse(stream) PROVE AllAccounted'
  BY <1>7, <1>10 DEF Refuse
<1>11. CASE RespondStreaming
  BY <1>7, <1>11 DEF RespondStreaming
<1>. QED BY <1>3, <1>4, <1>5, <1>6, <1>8, <1>9, <1>10, <1>11
         DEF GatewayNext, GatewayHandlerStep

\* A handler's step puts nobody in flight.
LEMMA NobodyEnters ==
  ASSUME EngineInv, NEW by \in Runners, NEW id \in Ids, HandlerStep(id, by) \/ HangUp(id)
  PROVE  InFlight' \subseteq InFlight /\ pc' = pc
<1>1. CASE UNCHANGED vars
  BY <1>1 DEF vars, schedVars, loopVars, InFlight
<1>2. CASE Abort(id, "cancelled") /\ UNCHANGED loopVars
  <2>1. waiting \in Seq(Ids) /\ running' = running
    BY <1>2 DEF Abort, EngineInv, LoopInv, TypeOK, SchedulerTypeOK
  <2>2. waiting' = waiting \/ waiting' = Without(waiting, id)
    BY <1>2 DEF Abort
  <2>3. Range(Without(waiting, id)) = Range(waiting) \ {id}
    BY <2>1, WithoutProperties
  <2>. QED BY <1>2, <2>1, <2>2, <2>3 DEF InFlight, loopVars
<1>. QED BY <1>1, <1>2
         DEF HandlerStep, GetToken, ReturnCompletion, YieldTerminal, Finally, Cancel, HangUp

\* Once the loop is dead only streams are submitted, and it dies with nobody in
\* flight.
LEMMA OnlyStreamsNext ==
  ASSUME GatewayInv, [GatewayNext]_gatewayVars
  PROVE  OnlyStreamsInFlight'
<1>. SUFFICES ASSUME LoopIsDead', NEW id \in InFlight' PROVE calls'[id].stream
  BY DEF OnlyStreamsInFlight
<1>a. EngineInv /\ OnlyStreamsInFlight /\ TypeOK /\ AllResponded
  BY DEF GatewayInv, EngineInv, LoopInv
<1>b. InFlight \subseteq Ids
  BY <1>a DEF TypeOK, SchedulerTypeOK, InFlight, Range
<1>0. ASSUME LoopIsDead, InFlight' \subseteq InFlight,
             \A x \in Ids : calls'[x].stream = calls[x].stream
      PROVE  calls'[id].stream
  BY <1>0, <1>a, <1>b DEF OnlyStreamsInFlight
<1>1. CASE Generate
  <2>1. pc' = pc
    BY <1>1 DEF Generate, Start, Submit, loopVars
  <2>. QED BY <1>1, <2>1 DEF Generate, LoopIsDead, serverVars
<1>2. ASSUME NEW i \in DOMAIN http, OpenStream(i) PROVE calls'[id].stream
  <2>1. StopTokens \in SUBSET Tokens
    BY RunLoopAssumption DEF StopTokens
  <2>2. /\ calls'[Len(seqs')].stream = TRUE
        /\ \A x \in Ids : calls'[x] = calls[x]
        /\ id \in InFlight \/ id = Len(seqs')
    BY <1>a, <1>2, <2>1, StartedCall DEF OpenStream
  <2>3. LoopIsDead
    BY <1>2 DEF OpenStream, Start, Submit, loopVars, serverVars, LoopIsDead
  <2>4. id \in InFlight => calls'[id] = calls[id] /\ calls[id].stream
    BY <1>a, <1>b, <2>2, <2>3 DEF OnlyStreamsInFlight
  <2>. QED BY <2>2, <2>4
<1>3. ASSUME NEW x \in Ids, HandlerStep(x, runner) \/ HangUp(x), UNCHANGED serverVars
      PROVE  calls'[id].stream
  <2>r. runner \in Runners
    BY DEF GatewayInv, LoadOrder, Runners
  <2>1. InFlight' \subseteq InFlight /\ pc' = pc
    BY <1>a, <1>3, <2>r, NobodyEnters
  <2>2. \A y \in Ids : calls'[y].stream = calls[y].stream
    BY <1>a, <1>3, <2>r, HandlerTells
  <2>3. LoopIsDead
    BY <1>3, <2>1 DEF LoopIsDead, serverVars
  <2>. QED BY <1>0, <2>1, <2>2, <2>3
<1>4. ASSUME NEW i \in DOMAIN http, Submitted(i) PROVE http[i].seq \in Ids
  BY <1>4, <1>a, ResponseAt DEF Submitted
<1>5. ASSUME NEW i \in DOMAIN http, ReadToken(i) \/ Answer(i) \/ EndStream(i) \/ Unwind(i)
      PROVE  calls'[id].stream
  BY <1>3, <1>4, <1>5 DEF ReadToken, Answer, EndStream, Unwind, HandlerStep
<1>6. ASSUME UNCHANGED engineVars, swapping' = swapping PROVE calls'[id].stream
  BY <1>0, <1>6 DEF engineVars, vars, schedVars, loopVars, InFlight, LoopIsDead
<1>7. ASSUME NEW i \in DOMAIN http, Disconnect(i) PROVE calls'[id].stream
  BY <1>3, <1>4, <1>6, <1>7 DEF Disconnect, serverVars
<1>8. CASE LoopTask
  <2>1. pc' = "dead"
    BY DEF LoopIsDead
  <2>2. FailAll
    BY <1>8, <2>1 DEF LoopTask, Sleep, Wake, Reset, Dispatch, MockTick, RealTick, ExecReturns,
                      Tick, AwaitRaises
  <2>3. InFlight' = {}
    BY <2>2 DEF FailAll, InFlight, Range
  <2>. QED BY <2>3
<1>9. CASE OldLoopEnds
  BY <1>9 DEF OldLoopEnds, LoopIsDead
<1>10. CASE SwapRunner
  BY <1>10 DEF SwapRunner, LoopIsDead
<1>11. CASE LoadFails \/ LoadDone
  BY <1>6, <1>11 DEF LoadFails, LoadDone
<1>12. ASSUME NEW stream \in BOOLEAN, Refuse(stream) \/ RespondStreaming
       PROVE  calls'[id].stream
  BY <1>6, <1>12 DEF Refuse, RespondStreaming, serverVars
<1>13. CASE UNCHANGED gatewayVars
  BY <1>6, <1>13 DEF gatewayVars
<1>. QED BY <1>1, <1>2, <1>5, <1>7, <1>8, <1>9, <1>10, <1>11, <1>12, <1>13
         DEF GatewayNext, GatewayHandlerStep

\* No step of the server breaks the invariant.
LEMMA GatewayInvNext == GatewayInv /\ [GatewayNext]_gatewayVars => GatewayInv'
<1>. SUFFICES ASSUME GatewayInv, [GatewayNext]_gatewayVars PROVE GatewayInv'
  OBVIOUS
<1>1. EngineInv'
  BY GatewayStepIsEngineStep, EngineInvNext DEF GatewayInv
<1>2. LoadOrder' /\ AllResponded' /\ AllAccounted' /\ OnlyStreamsInFlight'
  BY LoadOrderNext, AllRespondedNext, AllAccountedNext, OnlyStreamsNext DEF GatewayInv
<1>. QED BY <1>1, <1>2 DEF GatewayInv

\* In every state of the server: the engine's invariant, also when clients come
\* over HTTP, requests stop where the mock stops, and the loop is replaced.
THEOREM ServerIsSound == GatewaySpec => []GatewayInv
  BY GatewayInvInit, GatewayInvNext, PTL DEF GatewaySpec

-----------------------------------------------------------------------------
(* What the clients and the probes can rely on *)

\* The types of the server's state: a response is that of an existing request, and
\* complete as soon as its handler has told the outcome.
THEOREM GatewayTypeCorrect == GatewaySpec => []GatewayTypeOK
<1>1. EngineInv => EngineTypeOK
  BY DEF EngineInv, LoopInv, AllServed, Served, EngineTypeOK
<1>2. ASSUME GatewayInv, NEW i \in DOMAIN http, Submitted(i)
      PROVE  /\ http[i].seq \in Ids
             /\ Open(i) <=> calls[http[i].seq].outcome = "pending"
  <2>1. PICK r \in Response : r = http[i] /\ Responded(r) /\ r.seq # 0
    BY <1>2, ResponseAt DEF GatewayInv, Submitted
  <2>2. r.seq \in Ids /\ r.status # "503" /\ Answers(r.status, calls[r.seq].outcome)
    BY <2>1 DEF Responded
  <2>3. r.status = "" <=> calls[r.seq].outcome = "pending"
    BY <2>2 DEF Answers, Response
  <2>. QED BY <2>1, <2>2, <2>3 DEF Open
<1>3. GatewayInv => GatewayTypeOK
  BY <1>1, <1>2 DEF GatewayInv, LoadOrder, AllResponded, GatewayTypeOK
<1>. QED BY <1>3, ServerIsSound, PTL

\* /health says 200 only on the configured model's runner, with no swap to come
\* (main.py:202).
THEOREM ReadyIsConfigured == GatewaySpec => []ReadyMeansConfigured
<1>1. GatewayInv => ReadyMeansConfigured
  BY DEF GatewayInv, LoadOrder, ReadyMeansConfigured, Health
<1>. QED BY <1>1, ServerIsSound, PTL

\* A one-shot request is not left in the deques of a loop that died (main.py:213).
THEOREM DeadLoopOwesNobody == GatewaySpec => []DeadLoopOwesNothing
<1>1. ASSUME GatewayInv, LoopIsDead, NEW i \in DOMAIN http, http[i].seq \in InFlight
      PROVE  http[i].stream
  <2>1. Responded(http[i]) /\ calls[http[i].seq].stream
    BY <1>1, ResponseAt DEF GatewayInv, OnlyStreamsInFlight
  <2>2. http[i].seq # 0
    BY <1>1 DEF GatewayInv, EngineInv, LoopInv, TypeOK, SchedulerTypeOK, InFlight, Range, Ids
  <2>. QED BY <2>1, <2>2 DEF Responded
<1>2. GatewayInv => DeadLoopOwesNothing
  BY <1>1 DEF DeadLoopOwesNothing
<1>. QED BY <1>2, ServerIsSound, PTL

\* What a status says of its request.
LEMMA StatusSays ==
  ASSUME GatewayInv, NEW i \in DOMAIN http
  PROVE  /\ http[i].status = "200" =>
              /\ seqs[http[i].seq].finish_reason \in {"stop", "length"}
              /\ SentTheOutput(http[i].seq)
              /\ calls[http[i].seq].decoders \subseteq {http[i].encoded_by, runner}
         /\ http[i].status \in {"500", "cut"} => seqs[http[i].seq].finish_reason = "error"
         /\ http[i].status = "503" => ~Submitted(i)
<1>1. PICK r \in Response : r = http[i] /\ Responded(r) /\ Accounted(r)
  BY ResponseAt DEF GatewayInv, AllAccounted
<1>2. CASE r.seq = 0
  BY <1>1, <1>2 DEF Responded, Submitted
<1>3. CASE r.seq # 0
  <2> DEFINE s == seqs[r.seq]
             c == calls[r.seq]
  <2>1. r.seq \in Ids /\ Answers(r.status, c.outcome) /\ r.status # "503"
    BY <1>1, <1>3 DEF Responded
  <2>2. Served(s, c)
    BY <2>1, EngineInvAt DEF GatewayInv
  <2>3. c.outcome \notin {"pending", "left"} => Told(s, c) /\ c.outcome = s.finish_reason
    BY <2>2 DEF Served, Told
  <2>4. r.status \in {"200", "500", "cut"} => Told(s, c) /\ c.outcome = s.finish_reason
    BY <2>1, <2>3 DEF Answers
  <2>5. r.status = "200" => SentTheOutput(r.seq)
    BY <2>1, <2>4, ToldIsSent DEF GatewayInv
  <2>6. c.decoders \subseteq {r.encoded_by, runner}
    BY <1>1, <1>3 DEF Accounted
  <2>. HIDE DEF s, c
  <2>7. /\ r.status = "200" => s.finish_reason \in {"stop", "length"}
        /\ r.status \in {"500", "cut"} => s.finish_reason = "error"
    BY <2>1, <2>4 DEF Answers
  <2>. QED BY <1>1, <2>1, <2>5, <2>6, <2>7 DEF s, c
<1>. QED BY <1>2, <1>3

\* A 200 has a verdict OpenAI knows and the text of its output, a 500 or a torn
\* stream really failed, a 503 was never submitted (main.py:41, :216).  Which text:
\* all of what the one runner makes of it that decoded it, and if there were two,
\* then the mock tokenized the request and the text covers that of one of them.
THEOREM WireIsTrue == GatewaySpec => []TruthfulStatus
<1>1. GatewayInv => TruthfulStatus
  BY StatusSays DEF TruthfulStatus
<1>. QED BY <1>1, ServerIsSound, PTL

-----------------------------------------------------------------------------
(* The server implements ModelProcess *)

\* What a probe of /health can tell.
Life == IF load = "failed" THEN "stuck"
        ELSE IF load # "done" THEN "starting"
        ELSE IF LoopIsDead THEN "dead" ELSE "ready"

\* It starts before it is ready.
LEMMA LifeInit == GatewayInit => Process!Start
  BY DEF GatewayInit, Process!Start

\* A loop task that is over, and was not replaced, stays so once the load is done.
LEMMA DeadStays ==
  ASSUME LoadOrder, load = "done", [GatewayNext]_gatewayVars
  PROVE  load' = "done" /\ (LoopIsDead => LoopIsDead')
<1>. ~swapping
  BY DEF LoadOrder
<1>1. load' = "done"
  BY DEF GatewayNext, GatewayHandlerStep, Refuse, Generate, RespondStreaming, OpenStream,
         ReadToken, Answer, EndStream, Disconnect, Unwind, LoopTask, OldLoopEnds, SwapRunner,
         LoadFails, LoadDone, gatewayVars, serverVars
<1>2. swapping' = swapping
  BY DEF GatewayNext, GatewayHandlerStep, Refuse, Generate, RespondStreaming, OpenStream,
         ReadToken, Answer, EndStream, Disconnect, Unwind, LoopTask, OldLoopEnds, SwapRunner,
         LoadFails, LoadDone, gatewayVars, serverVars
<1>3. pc = "dead" => pc' = pc
  <2>1. ASSUME NEW id, NEW by,
               GetToken(id, by) \/ ReturnCompletion(id, by) \/ YieldTerminal(id) \/ HangUp(id)
               \/ Finally(id)
        PROVE  pc' = pc
    BY <2>1 DEF GetToken, ReturnCompletion, YieldTerminal, HangUp, Finally, Cancel, vars, loopVars
  <2>2. ASSUME NEW stream, NEW eos, Start(stream, eos) PROVE pc' = pc
    BY <2>2 DEF Start, Submit, loopVars
  <2>3. ASSUME UNCHANGED engineVars PROVE pc' = pc
    BY <2>3 DEF engineVars, vars, loopVars
  <2>4. ASSUME LoopTask PROVE pc # "dead"
    BY <2>4 DEF LoopTask, Sleep, Wake, Reset, Dispatch, MockTick, RealTick, ExecReturns, Tick,
                AwaitRaises
  <2>. QED BY <2>1, <2>2, <2>3, <2>4
           DEF GatewayNext, GatewayHandlerStep, Refuse, Generate, RespondStreaming, OpenStream,
               ReadToken, Answer, EndStream, Disconnect, Unwind, OldLoopEnds, SwapRunner,
               LoadFails, LoadDone, gatewayVars
<1>. QED BY <1>1, <1>2, <1>3 DEF LoopIsDead

\* A load that raised is not tried again; otherwise a server that is not ready
\* stays so, gets stuck, or is done loading.
LEMMA LoadGoesOn ==
  ASSUME LoadOrder, [GatewayNext]_gatewayVars
  PROVE  /\ load = "failed" => load' = "failed"
         /\ load' \in {"loading", "sleeping", "done", "failed"}
<1>1. load' \in {"loading", "sleeping", "done", "failed"}
  BY LoadOrderNext DEF LoadOrder
<1>. QED BY <1>1 DEF GatewayNext, GatewayHandlerStep, Refuse, Generate, RespondStreaming,
         OpenStream, ReadToken, Answer, EndStream, Disconnect, Unwind, LoopTask, OldLoopEnds,
         SwapRunner, LoadFails, LoadDone, gatewayVars, serverVars, LoadOrder

\* Every step of the server is a step of ModelProcess, or none.
LEMMA LifeNext == LoadOrder /\ [GatewayNext]_gatewayVars => Process!Step \/ Life' = Life
<1>. SUFFICES ASSUME LoadOrder, [GatewayNext]_gatewayVars PROVE Process!Step \/ Life' = Life
  OBVIOUS
<1>1. load \in {"loading", "sleeping", "done", "failed"}
  BY DEF LoadOrder
<1>2. CASE load = "done"
  <2>1. load' = "done" /\ (LoopIsDead => LoopIsDead')
    BY <1>2, DeadStays
  <2>. QED BY <1>2, <2>1 DEF Life, Process!Step, Process!Die
<1>3. CASE load = "failed"
  BY <1>3, LoadGoesOn DEF Life
<1>4. CASE load \in {"loading", "sleeping"}
  BY <1>4, LoadGoesOn DEF Life, Process!Step, Process!BecomeReady, Process!GetStuck, Process!Die
<1>. QED BY <1>1, <1>2, <1>3, <1>4

\* A pod becomes ready at most once, what is lost is lost until the container is
\* restarted, and a load that raised is never ready (main.py:191).
THEOREM GatewayImplementsModelProcess == GatewaySpec => ImplementsModelProcess
<1>1. GatewayInv => LoadOrder
  BY DEF GatewayInv
<1>2. LoadOrder /\ [GatewayNext]_gatewayVars => [Process!Step]_Life
  BY LifeNext
<1>. QED BY <1>1, <1>2, LifeInit, ServerIsSound, PTL
         DEF GatewaySpec, ImplementsModelProcess, Process!Spec, Life
=============================================================================
