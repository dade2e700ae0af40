------------------------------- MODULE Engine --------------------------------
(***************************************************************************)
(* BatchingEngine of model_server/engines.py: the request handlers that    *)
(* submit a Sequence, read its queue until the sentinel, and cancel it in  *)
(* a finally, both one-shot (generate) and streaming (stream), next to the *)
(* loop of RunLoop.                                                        *)
(*                                                                         *)
(* A handler is a coroutine that awaits its own queue.  Its client may go  *)
(* away at any time; the handler learns of it later, when an exception is  *)
(* delivered at its await or yield and its finally runs, so hanging up and *)
(* cancelling are two steps with ticks of the loop between them.           *)
(*                                                                         *)
(* A handler decodes with engine.runner as it is at that moment.  Here it  *)
(* is the real one throughout; Gateway replaces it under the handlers.     *)
(***************************************************************************)
EXTENDS RunLoop

CONSTANTS
  PartialIds,      \* tokens that end inside a character, which later ones complete
  ReplacementChar, \* U+FFFD
  MockWord         \* the characters of MOCK_WORD

ASSUME EngineAssumption ==
  /\ PartialIds \subseteq Tokens \ EosIds
  /\ MockWord \in Seq(Range(MockWord)) \ {<<>>}

Runners == {"mock", "real"}

Chars == Tokens \cup {ReplacementChar} \cup Range(MockWord)

VARIABLE calls  \* per request: its handler, and what its client has got

Call ==
  [stream   : BOOLEAN,
   at       : {"await", "closing", "done"},  \* in queue.get, before the finally, over
   read     : Nat,                  \* how much of the queue was taken
   text     : Seq(Chars),           \* what the client has received
   decoders : SUBSET Runners,       \* history: the runners that decoded it
   outcome  : FinishReasons \cup {"pending", "left"}]

engineVars == <<vars, calls>>

\* runner.decode: special tokens are stripped; a character goes by the token
\* that completes it, and bytes with no such token yet are one U+FFFD.  That is
\* what the tokenizer does with a token alone (engines.py:120), and an output
\* that begins with such a token is no different from it.
Decode(output_ids) ==
  LET bytes == Retain(output_ids, {k \in DOMAIN output_ids : output_ids[k] \notin EosIds})
      chars == Retain(bytes, {k \in DOMAIN bytes : bytes[k] \notin PartialIds})
  IN  IF bytes # <<>> /\ bytes[Len(bytes)] \in PartialIds
      THEN Append(chars, ReplacementChar) ELSE chars

\* The mock's decode is MOCK_WORD * len(token_ids), so that its text of an output
\* and the real runner's have different characters and different lengths.
DecodeBy(runner, output_ids) ==
  IF runner = "mock"
  THEN [k \in 1 .. Len(output_ids) * Len(MockWord) |-> MockWord[((k - 1) % Len(MockWord)) + 1]]
  ELSE Decode(output_ids)

EngineInit == Init /\ calls = <<>>

-----------------------------------------------------------------------------
(* Handlers *)

\* generate and stream up to their first await: _submit.
Start(stream, eos) ==
  /\ Submit(eos)
  /\ calls' = Append(calls, [stream |-> stream, at |-> "await", read |-> 0,
                             text |-> <<>>, decoders |-> {}, outcome |-> "pending"])

Awaiting(id, item(_)) ==
  /\ EventLoopFree
  /\ calls[id].at = "await"
  /\ calls[id].read < Len(seqs[id].queue)
  /\ item(seqs[id].queue[calls[id].read + 1])

\* Only a stream decodes before it is at the end.
Decoders(id, runner) == calls[id].decoders \cup IF calls[id].stream THEN {runner} ELSE {}

\* Slips: each token decoded alone; the whole text sent again every time.
GetTokenDecodedAlone(id, runner) ==
  /\ Awaiting(id, LAMBDA item : item # None)
  /\ LET item == seqs[id].queue[calls[id].read + 1]
         piece == IF calls[id].stream THEN DecodeBy(runner, <<item>>) ELSE <<>>
     IN  calls' = [calls EXCEPT ![id].read = @ + 1,
                                ![id].text = @ \o piece,
                                ![id].decoders = Decoders(id, runner)]
  /\ UNCHANGED vars
GetTokenResends(id, runner) ==
  /\ Awaiting(id, LAMBDA item : item # None)
  /\ LET text == DecodeBy(runner, seqs[id].output_ids)
         piece == IF calls[id].stream THEN text ELSE <<>>
     IN  calls' = [calls EXCEPT ![id].read = @ + 1,
                                ![id].text = @ \o piece,
                                ![id].decoders = Decoders(id, runner)]
  /\ UNCHANGED vars

\* A token is only a wakeup: the text comes from output_ids.  A stream sends
\* what is new in its runner's decoding of the whole output.
GetToken(id, runner) ==
  /\ Awaiting(id, LAMBDA item : item # None)
  /\ LET text == DecodeBy(runner, seqs[id].output_ids)
         sent == Len(calls[id].text)
         piece == IF calls[id].stream /\ Len(text) > sent
                  THEN SubSeq(text, sent + 1, Len(text)) ELSE <<>>
     IN  calls' = [calls EXCEPT ![id].read = @ + 1,
                                ![id].text = @ \o piece,
                                ![id].decoders = Decoders(id, runner)]
  /\ UNCHANGED vars

\* Slip: generate returns on the first item, not on the sentinel.
ReturnAtFirstToken(id, runner) ==
  /\ ~calls[id].stream
  /\ Awaiting(id, LAMBDA item : TRUE)
  /\ Abort(id, "cancelled")
  /\ calls' = [calls EXCEPT ![id].read = @ + 1,
                            ![id].at = "done",
                            ![id].text = DecodeBy(runner, seqs'[id].output_ids),
                            ![id].decoders = {runner},
                            ![id].outcome = seqs'[id].finish_reason]
  /\ UNCHANGED loopVars

\* generate after the sentinel: the finally cancels, then the Completion is
\* built from the sequence.
ReturnCompletion(id, runner) ==
  /\ ~calls[id].stream
  /\ Awaiting(id, LAMBDA item : item = None)
  /\ Abort(id, "cancelled")
  /\ calls' = [calls EXCEPT ![id].read = @ + 1,
                            ![id].at = "done",
                            ![id].text = DecodeBy(runner, seqs'[id].output_ids),
                            ![id].decoders = {runner},
                            ![id].outcome = seqs'[id].finish_reason]
  /\ UNCHANGED loopVars

\* Slip: the terminal chunk does not say why it ended.
YieldTerminalUnexplained(id) ==
  /\ calls[id].stream
  /\ Awaiting(id, LAMBDA item : item = None)
  /\ calls' = [calls EXCEPT ![id].read = @ + 1, ![id].at = "closing"]
  /\ UNCHANGED vars

\* stream after the sentinel: one terminal chunk, no text, the reason.
YieldTerminal(id) ==
  /\ calls[id].stream
  /\ Awaiting(id, LAMBDA item : item = None)
  /\ calls' = [calls EXCEPT ![id].read = @ + 1,
                            ![id].at = "closing",
                            ![id].outcome = seqs[id].finish_reason]
  /\ UNCHANGED vars

\* The client disconnects.
HangUp(id) ==
  /\ EventLoopFree
  /\ calls[id].at = "await"
  /\ calls' = [calls EXCEPT ![id].at = "closing", ![id].outcome = "left"]
  /\ UNCHANGED vars

\* Slip: no finally, the sequence is left behind.
FinallyForgotten(id) ==
  /\ EventLoopFree
  /\ calls[id].at = "closing"
  /\ calls' = [calls EXCEPT ![id].at = "done"]
  /\ UNCHANGED vars

\* The finally clause, on exit by exception or at the end of the generator.
Finally(id) ==
  /\ calls[id].at = "closing"
  /\ Cancel(id)
  /\ calls' = [calls EXCEPT ![id].at = "done"]

HandlerStep(id, runner) ==
  GetToken(id, runner) \/ ReturnCompletion(id, runner) \/ YieldTerminal(id) \/ Finally(id)

EngineNext ==
  \/ \E stream \in BOOLEAN : Start(stream, EosIds)
  \/ \E id \in Ids : HandlerStep(id, "real") \/ HangUp(id)
  \/ LoopStep /\ UNCHANGED calls

\* Strong fairness for handlers: while the loop holds the event loop none can
\* run, but asyncio's ready queue is first in, first out, so whenever the loop
\* awaits, the handlers that were ready get their turn before it resumes.
\* Clients owe nothing.  loop_task.cancel() is Gateway's business.
EngineSpec ==
  /\ EngineInit
  /\ [][EngineNext]_engineVars
  /\ WF_engineVars(LoopStep /\ UNCHANGED calls)
  /\ \A id \in 1 .. MaxRequests : SF_engineVars(id \in Ids /\ HandlerStep(id, "real"))

-----------------------------------------------------------------------------
(* Safety *)

\* Among the types: a handler that has left its await has an outcome to show,
\* and none has before (StreamChunk, engines.py:36).
EngineTypeOK ==
  /\ TypeOK
  /\ calls \in Seq(Call)
  /\ Len(calls) = Len(seqs)
  /\ \A id \in Ids :
       /\ calls[id].read <= Len(seqs[id].queue)
       /\ calls[id].at = "await" <=> calls[id].outcome = "pending"

\* A client that stayed is never told "cancelled": abort only ever hits the
\* request of the client that left (main.py:45).
CancelledMeansGone ==
  \A id \in Ids : seqs[id].finish_reason = "cancelled" => calls[id].outcome = "left"

\* The text a handler sent and the output it was made of.  Every character is one
\* that a runner has at that place, or a U+FFFD that stood for it while it was
\* incomplete; and if one runner decoded throughout, nothing is missing and
\* nothing there twice.  Two runners that took turns at a stream have texts of
\* different lengths, of which only one is sure to be covered: what was sent of
\* the first is taken for the beginning of the second (engines.py:123).
SentTheOutput(id) ==
  LET text(runner) == DecodeBy(runner, seqs[id].output_ids)
      sent == calls[id].text
  IN  /\ \A k \in DOMAIN sent : \E runner \in calls[id].decoders :
           /\ k \in DOMAIN text(runner)
           /\ \/ sent[k] = text(runner)[k]
              \/ calls[id].stream /\ sent[k] = ReplacementChar
      /\ \A runner \in Runners :
           calls[id].decoders \subseteq {runner} => Len(sent) = Len(text(runner))
      /\ \E runner \in Runners : Len(sent) >= Len(text(runner))

\* What a client was told stays true: the outcome is the verdict, and the text
\* the decoding of the output, in the answer and ever after.  For a stream that
\* means that every character was sent before the terminal chunk and none twice,
\* whatever the queue and the output were at each wakeup.
AnswerIsTheOutput ==
  \A id \in Ids :
    calls[id].outcome \notin {"pending", "left"} =>
      calls[id].outcome = seqs[id].finish_reason /\ SentTheOutput(id)

\* No handler leaves a live sequence behind: once a handler is over, however it
\* ended, nothing generates for its client any more (engines.py:99).
NoOrphans == \A id \in Ids : calls[id].at = "done" => IsFinished(seqs[id])

\* The promise to each client, all others forgotten.
Service ==
  INSTANCE CompletionService WITH
    Chars <- Chars, Budgets <- MaxNews, MaxCalls <- MaxRequests,
    requests <- [id \in Ids |-> [budget |-> seqs[id].max_new,
                                 text |-> calls[id].text,
                                 outcome |-> calls[id].outcome]]

ImplementsService == Service!Spec

-----------------------------------------------------------------------------
(* Liveness *)

\* Whoever is waiting while the loop is alive gets an outcome, also when the
\* loop dies in between: fail_all reaches every request, admitted or not.
EveryCallReturns ==
  \A id \in 1 .. MaxRequests :
    (id \in Ids /\ pc # "dead") ~> (id \in Ids /\ calls[id].at = "done")
-----------------------------------------------------------------------------
(* What a comment says, and the code does not do *)

\* engines.py:121: "An incomplete character contributes no characters, so it
\* simply produces no yield that round and appears once complete."  So a stream
\* that ended carried the text a one-shot request would have been answered with.
StreamIsTheAnswer ==
  \A id \in Ids :
    calls[id].stream /\ calls[id].outcome \in {"stop", "length"} =>
      calls[id].text = Decode(seqs[id].output_ids)
=============================================================================
