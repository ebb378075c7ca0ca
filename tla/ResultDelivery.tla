--------------------------- MODULE ResultDelivery ---------------------------
(***************************************************************************)
(* What the pipeline promises about one sync request's parse result,       *)
(* whatever happens to the jobs, messages and processes that produce it:   *)
(* it is stored once, its records take effect at most once and only after  *)
(* it was stored, and its event is closed for good - as delivered only     *)
(* when they took effect.                                                  *)
(***************************************************************************)
EXTENDS Naturals

CONSTANT Requests

VARIABLES
    phase,      \* how far the result of each request has come
    effects     \* how often its records were applied

vars == <<phase, effects>>

Phase == {"none", "stored", "applied", "delivered", "rejected"}

Init ==
    /\ phase   = [r \in Requests |-> "none"]
    /\ effects = [r \in Requests |-> 0]

Store(r) ==
    /\ phase[r] = "none"
    /\ phase' = [phase EXCEPT ![r] = "stored"]
    /\ UNCHANGED effects

Apply(r) ==
    /\ phase[r] = "stored"
    /\ phase'   = [phase   EXCEPT ![r] = "applied"]
    /\ effects' = [effects EXCEPT ![r] = @ + 1]

Deliver(r) ==
    /\ phase[r] = "applied"
    /\ phase' = [phase EXCEPT ![r] = "delivered"]
    /\ UNCHANGED effects

\* The event is given up: the records could not be applied, or they were but
\* the event could not be closed.
Reject(r) ==
    /\ phase[r] \in {"stored", "applied"}
    /\ phase' = [phase EXCEPT ![r] = "rejected"]
    /\ UNCHANGED effects

Next == \E r \in Requests : Store(r) \/ Apply(r) \/ Deliver(r) \/ Reject(r)

Spec == Init /\ [][Next]_vars

\* A stored result is decided some day.
FairSpec == Spec /\ \A r \in Requests : WF_vars(Apply(r) \/ Deliver(r) \/ Reject(r))

=============================================================================
