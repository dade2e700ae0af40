---------------------------- MODULE ModelProcess ----------------------------
(***************************************************************************)
(* What a container of the model server looks like through /health: it     *)
(* starts, becomes ready at most once, and what is lost is lost for good.  *)
(* Gateway implements this; PodLifecycle relies on it.                     *)
(***************************************************************************)
VARIABLE life

Lives == {"starting", "stuck", "ready", "dead"}

Start == life = "starting"

\* The model is loaded, and the loop alive.
BecomeReady == life = "starting" /\ life' = "ready"

\* The load raised; the mock goes on, but never as a ready server.
GetStuck == life = "starting" /\ life' = "stuck"

\* The loop died, before or after the server was ready.
Die == life \in {"starting", "ready"} /\ life' = "dead"

Step == BecomeReady \/ GetStuck \/ Die

Spec == Start /\ [][Step]_life
=============================================================================
