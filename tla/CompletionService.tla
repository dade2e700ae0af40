-------------------------- MODULE CompletionService --------------------------
(***************************************************************************)
(* What one client of the inference server is promised, with no batch, no  *)
(* scheduler and no queue in sight: text arrives in pieces that only ever  *)
(* extend it, then exactly one outcome, and after the outcome nothing      *)
(* changes.  Engine implements this, and every other request sharing the   *)
(* batch is invisible in it.                                               *)
(***************************************************************************)
EXTENDS Naturals, Sequences

CONSTANTS
  Chars,       \* what text is made of
  Budgets,     \* values of max_tokens
  MaxCalls     \* bound: how many requests ever arrive

VARIABLE requests

Outcomes == {"stop", "length", "error", "left"}

Request == [budget : Budgets, text : Seq(Chars), outcome : Outcomes \cup {"pending"}]

TextsUpTo(n) == UNION {[1 .. k -> Chars] : k \in 0 .. n}

Pending(i) == requests[i].outcome = "pending"

Init == requests = <<>>

Ask ==
  /\ Len(requests) < MaxCalls
  /\ \E b \in Budgets :
       requests' = Append(requests, [budget |-> b, text |-> <<>>, outcome |-> "pending"])

\* More text, never past the budget and never a correction of earlier text.
Deliver(i) ==
  /\ Pending(i)
  /\ \E more \in TextsUpTo(requests[i].budget - Len(requests[i].text)) :
       /\ more # <<>>
       /\ requests' = [requests EXCEPT ![i].text = @ \o more]

\* The end, with whatever text was still missing.  A stop token was part of
\* the budget and is not part of the text.
Conclude(i, outcome) ==
  /\ Pending(i)
  /\ \E more \in TextsUpTo(requests[i].budget - Len(requests[i].text)) :
       /\ outcome = "stop" => Len(requests[i].text \o more) < requests[i].budget
       /\ requests' = [requests EXCEPT ![i].text = @ \o more, ![i].outcome = outcome]

Leave(i) ==
  /\ Pending(i)
  /\ requests' = [requests EXCEPT ![i].outcome = "left"]

Next ==
  \/ Ask
  \/ \E i \in DOMAIN requests :
       \/ Deliver(i)
       \/ \E outcome \in {"stop", "length", "error"} : Conclude(i, outcome)
       \/ Leave(i)

Spec == Init /\ [][Next]_requests
=============================================================================
