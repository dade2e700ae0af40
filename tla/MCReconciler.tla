---------------------------- MODULE MCReconciler ----------------------------
(* Small instances of Reconciler: what may happen outside in each run. *)
EXTENDS Reconciler

\* Nobody else touches the owned objects.
MCAlone == {"edit", "delete", "recreate", "pods", "fail", "restart"}

\* Others edit and delete the owned objects, and wedge the Service; the spec
\* stays as it is.
MCDrift == {"pods", "drift", "stray", "fail", "restart"}

MCEdit == {"edit", "pods"}
=============================================================================
