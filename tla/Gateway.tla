------------------------------- MODULE Gateway -------------------------------
(***************************************************************************)
(* The HTTP layer of model_server/main.py: /v1/completions in both forms,  *)
(* /health, and the background _load task that replaces the mock runner by *)
(* the real one and restarts the loop under it.                            *)
(*                                                                         *)
(* HTTP requests are numbered by arrival; one gets a Sequence only when    *)
(* its handler submits.  The one-shot handler checks the loop and submits  *)
(* without an await in between.  The streaming handler checks the loop and *)
(* returns a StreamingResponse; its generator submits when the framework   *)
(* first iterates it, in another turn of the event loop.                   *)
(***************************************************************************)
EXTENDS Engine

CONSTANT MockToken  \* the token MockRunner.execute returns for every row

ASSUME GatewayAssumption == MockToken \in Tokens

VARIABLES
  http,        \* per HTTP request: what the client has seen of its response
  configured,  \* which runner MODEL_ID asks for: "mock" | "real"
  runner,      \* engine.runner
  load,        \* the _load task: "loading" | "sleeping" | "done" | "failed"
  swapping     \* loop_task was cancelled and replaced, the old task not resumed yet

gatewayVars == <<engineVars, http, configured, runner, load, swapping>>
serverVars  == <<configured, runner, load, swapping>>

\* "200": a complete body, [DONE] for a stream.  "cut": a stream that ended
\* without [DONE].  "gone": the client left first.
Response ==
  [stream     : BOOLEAN,
   seq        : Nat,                         \* its Sequence's id, 0 before _submit
   encoded_by : {"", "mock", "real"},        \* the runner that tokenized it
   status     : {"", "200", "500", "503", "cut", "gone"}]

GatewayInit ==
  /\ EngineInit
  /\ http = <<>>
  /\ configured \in {"mock", "real"}
  /\ runner = "mock"
  /\ load = IF configured = "real" THEN "loading" ELSE "sleeping"
  /\ swapping = FALSE

\* task.done() of the current loop_task.
LoopIsDead == pc = "dead" /\ ~swapping

Health == IF load # "done" \/ LoopIsDead THEN "503" ELSE "200"

StopTokens == IF runner = "real" THEN EosIds ELSE {}

FatalFinishReasons == {"error", "cancelled"}

Open(i) == http[i].status = ""

-----------------------------------------------------------------------------
(* Handlers *)

Received(stream, seq, status) ==
  Append(http, [stream |-> stream, seq |-> seq, status |-> status,
                encoded_by |-> IF seq = 0 THEN "" ELSE runner])

\* completions, when nothing drains the scheduler.
Refuse(stream) ==
  /\ LoopIsDead
  /\ Len(http) < MaxRequests
  /\ http' = Received(stream, 0, "503")
  /\ UNCHANGED <<engineVars, serverVars>>

\* Slip: the dead loop is not noticed.
GenerateUnchecked ==
  /\ Len(http) < MaxRequests
  /\ Start(FALSE, StopTokens)
  /\ http' = Received(FALSE, Len(seqs'), "")
  /\ UNCHANGED serverVars

\* completions without stream, up to generate's first await.
Generate ==
  /\ ~LoopIsDead
  /\ Len(http) < MaxRequests
  /\ Start(FALSE, StopTokens)
  /\ http' = Received(FALSE, Len(seqs'), "")
  /\ UNCHANGED serverVars

\* completions with stream: only the response object exists.
RespondStreaming ==
  /\ EventLoopFree
  /\ ~LoopIsDead
  /\ Len(http) < MaxRequests
  /\ http' = Received(TRUE, 0, "")
  /\ UNCHANGED <<engineVars, serverVars>>

\* The framework iterates the body: _stream enters engine.stream, which submits.
OpenStream(i) ==
  /\ http[i].stream /\ http[i].seq = 0 /\ Open(i)
  /\ Start(TRUE, StopTokens)
  /\ http' = [http EXCEPT ![i].seq = Len(seqs'), ![i].encoded_by = runner]
  /\ UNCHANGED serverVars

Submitted(i) == http[i].seq # 0

\* Each wakeup of a stream decodes with engine.runner as it is then.
ReadToken(i) ==
  /\ Submitted(i)
  /\ GetToken(http[i].seq, runner)
  /\ UNCHANGED <<http, serverVars>>

\* Slip: every verdict is passed through as a success.
AnswerAlways200(i) ==
  /\ Submitted(i)
  /\ ReturnCompletion(http[i].seq, runner)
  /\ http' = [http EXCEPT ![i].status = "200"]
  /\ UNCHANGED serverVars

\* completions after generate: 500 for a fatal verdict, else the completion,
\* decoded by engine.runner as it is now.
Answer(i) ==
  /\ Submitted(i)
  /\ ReturnCompletion(http[i].seq, runner)
  /\ http' = [http EXCEPT ![i].status =
                IF calls'[http[i].seq].outcome \in FatalFinishReasons THEN "500" ELSE "200"]
  /\ UNCHANGED serverVars

\* Slip: the body ends with the terminal chunk, and the client waits on.
EndStreamWithoutDone(i) ==
  /\ Submitted(i)
  /\ YieldTerminal(http[i].seq)
  /\ UNCHANGED <<http, serverVars>>

\* _stream on the terminal chunk: raise for a fatal verdict, else pass it on
\* and send [DONE].
EndStream(i) ==
  /\ Submitted(i)
  /\ YieldTerminal(http[i].seq)
  /\ http' = [http EXCEPT ![i].status =
                IF calls'[http[i].seq].outcome \in FatalFinishReasons THEN "cut" ELSE "200"]
  /\ UNCHANGED serverVars

Disconnect(i) ==
  /\ Open(i)
  /\ http' = [http EXCEPT ![i].status = "gone"]
  /\ IF Submitted(i) THEN HangUp(http[i].seq)
     ELSE EventLoopFree /\ UNCHANGED engineVars
  /\ UNCHANGED serverVars

Unwind(i) ==
  /\ Submitted(i)
  /\ Finally(http[i].seq)
  /\ UNCHANGED <<http, serverVars>>

GatewayHandlerStep(i) ==
  OpenStream(i) \/ ReadToken(i) \/ Answer(i) \/ EndStream(i) \/ Unwind(i)

-----------------------------------------------------------------------------
(* The loop task and its replacement *)

\* MockRunner.execute never fails and always returns the same token.
MockTick == runner = "mock" /\ Tick([row \in DOMAIN batch |-> MockToken])
RealTick == runner = "real" /\ (ExecReturns \/ AwaitRaises)

LoopTask ==
  /\ ~swapping
  /\ Sleep \/ Wake \/ Reset \/ Dispatch \/ MockTick \/ RealTick
  /\ UNCHANGED <<calls, http, serverVars>>

\* Slip: a reload while the server is ready.
SwapRunnerAnytime ==
  /\ EventLoopFree
  /\ load \in {"loading", "done"}
  /\ runner' = "real"
  /\ swapping' = TRUE
  /\ UNCHANGED <<engineVars, http, configured, load>>

\* _load once load_qwen_runner returned: cancel the loop, replace the runner,
\* create the new loop task.
SwapRunner ==
  /\ EventLoopFree
  /\ load = "loading"
  /\ runner' = "real"
  /\ swapping' = TRUE
  /\ load' = "sleeping"
  /\ UNCHANGED <<engineVars, http, configured>>

\* The CancelledError reaches the old loop: on the worker thread it fails all
\* requests in flight, in the idle sleep and in a finished task it does not.
\* The new task has not run yet, which is like sleeping.
OldLoopEnds ==
  /\ swapping
  /\ IF pc = "exec" THEN FailAll ELSE UNCHANGED schedVars
  /\ pc' = "idle"
  /\ batch' = <<>>
  /\ is_prefill' = FALSE
  /\ members' = <<>>
  /\ cache' = NoCache
  /\ swapping' = FALSE
  /\ UNCHANGED <<calls, http, configured, runner, load>>

\* load_qwen_runner raises in the task nobody awaits: nothing else happens.
LoadFails ==
  /\ EventLoopFree
  /\ load = "loading"
  /\ load' = "failed"
  /\ UNCHANGED <<engineVars, http, configured, runner, swapping>>

\* Slip: ready as soon as the sleep is over, loaded or not.
LoadDoneEarly ==
  /\ EventLoopFree
  /\ ~swapping
  /\ load \in {"loading", "sleeping"}
  /\ load' = "done"
  /\ UNCHANGED <<engineVars, http, configured, runner, swapping>>

\* runtime["loaded"] = True after the sleep.  Even a sleep of 0 lets the tasks
\* that were made ready before it run first, the cancelled loop among them.
LoadDone ==
  /\ EventLoopFree
  /\ ~swapping
  /\ load = "sleeping"
  /\ load' = "done"
  /\ UNCHANGED <<engineVars, http, configured, runner, swapping>>

-----------------------------------------------------------------------------
GatewayNext ==
  \/ \E stream \in BOOLEAN : Refuse(stream)
  \/ Generate
  \/ RespondStreaming
  \/ \E i \in DOMAIN http : GatewayHandlerStep(i) \/ Disconnect(i)
  \/ LoopTask
  \/ OldLoopEnds
  \/ SwapRunner
  \/ LoadFails
  \/ LoadDone

\* As in Engine: a ready task is resumed, a forward pass ends, clients owe
\* nothing.  A model load need not end.
GatewaySpec ==
  /\ GatewayInit
  /\ [][GatewayNext]_gatewayVars
  /\ WF_gatewayVars(LoopTask \/ OldLoopEnds)
  /\ \A i \in 1 .. MaxRequests :
       SF_gatewayVars(i \in DOMAIN http /\ GatewayHandlerStep(i))

-----------------------------------------------------------------------------
(* Safety *)

\* Among the types: a response is that of an existing Sequence, and complete as
\* soon as its handler has told the outcome (main.py:279).
GatewayTypeOK ==
  /\ EngineTypeOK
  /\ http \in Seq(Response)
  /\ \A i \in DOMAIN http :
       Submitted(i) => /\ http[i].seq \in Ids
                       /\ Open(i) <=> calls[http[i].seq].outcome = "pending"
  /\ configured \in {"mock", "real"}
  /\ runner \in {"mock", "real"}
  /\ load \in {"loading", "sleeping", "done", "failed"}
  /\ swapping \in BOOLEAN

\* The wire tells the truth, then and later: a success has a verdict OpenAI
\* knows, a 500 or a torn stream is a request that really failed, and a request
\* the server refused has no Sequence (main.py:41, :216).  The text of a success
\* is what was generated; only a stream that two runners decoded may have less,
\* and that takes a request tokenized by the mock and a swap before its answer.
TruthfulStatus ==
  \A i \in DOMAIN http :
    LET s == seqs[http[i].seq]
    IN  /\ http[i].status = "200" =>
             /\ s.finish_reason \in {"stop", "length"}
             /\ SentTheOutput(http[i].seq)
             /\ calls[http[i].seq].decoders \subseteq {http[i].encoded_by, runner}
        /\ http[i].status \in {"500", "cut"} => s.finish_reason = "error"
        /\ http[i].status = "503" => ~Submitted(i)

\* Traffic is routed only to a pod that serves the configured model: while
\* /health says 200 the loop runs the runner MODEL_ID asks for, and no swap can
\* come to fail what it is serving (main.py:202).
ReadyMeansConfigured ==
  Health = "200" => runner = configured /\ load = "done" /\ ~swapping

\* The queue of a loop that died is empty unless a stream got in after the
\* check: everybody in flight was failed, one-shot requests are refused.
DeadLoopOwesNothing ==
  LoopIsDead => \A i \in DOMAIN http : http[i].seq \in InFlight => http[i].stream

\* What a probe of /health can tell of this process.  A loop that is dead while
\* the model loads is nobody's business: the swap replaces it.
Process == INSTANCE ModelProcess WITH
  life <- IF load = "failed" THEN "stuck"
          ELSE IF load # "done" THEN "starting"
          ELSE IF LoopIsDead THEN "dead" ELSE "ready"

\* Once ready, a pod that fails /health never passes it again, and one whose load
\* raised never does: only a restart of the container brings it back, and no
\* request can find it half alive (main.py:191).
ImplementsModelProcess == Process!Spec

\* Every one-shot request gets a response, whatever happens to the loop and the
\* runner meanwhile, and every stream that got as far as submitting to a live
\* loop ends as well.
EveryRequestEnds ==
  \A i \in 1 .. MaxRequests :
    (i \in DOMAIN http /\ (~http[i].stream \/ (Submitted(i) /\ ~LoopIsDead)))
      ~> (i \in DOMAIN http /\ ~Open(i))

-----------------------------------------------------------------------------
(* What the comments say, and the code does not do *)

\* main.py:213: "Fail fast rather than accept work nobody will do".  A stream
\* accepted before the loop died is submitted after it, and never answered.
EveryStreamAnswered ==
  \A i \in 1 .. MaxRequests :
    (i \in DOMAIN http /\ http[i].stream) ~> (i \in DOMAIN http /\ ~Open(i))

\* engines.py:118: "Decode the WHOLE output each time and yield only the new
\* suffix."  The runner may be another one each time, whose text of the same
\* output is another: a stream that ended well then carried what no runner makes
\* of its output.
StreamSendsTheOutput ==
  \A i \in DOMAIN http :
    http[i].stream /\ http[i].status = "200" =>
      \E by \in Runners :
        calls[http[i].seq].text = DecodeBy(by, seqs[http[i].seq].output_ids)
=============================================================================
