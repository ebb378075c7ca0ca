-------------------------- MODULE ChannelDispatch --------------------------
(***************************************************************************)
(* Deliveries to a user's channels (rows of channel_deliveries).  External *)
(* dispatchers claim pending ones for the time of a lease, post the        *)
(* message, and report the outcome with the token of their claim.  A       *)
(* dispatcher may be slower than its lease or die.                         *)
(*                                                                         *)
(* The token of a claim is drawn at random; here it is the number of the   *)
(* attempt.  A callback token is handed out when a delivery is reported    *)
(* as sent, and the receiver's client acknowledges with it.                *)
(***************************************************************************)
EXTENDS Integers, FiniteSets

CONSTANTS
    Deliveries,     \* delivery ids
    Dispatchers,
    MaxAttempts     \* bound: claims of a delivery

ASSUME MaxAttemptsAssumption == MaxAttempts \in Nat \ {0}

VARIABLES
    delivery,   \* channel_deliveries
    hand,       \* claims a dispatcher works on
    posted,     \* history: claims of a delivery whose message went out
    lapses      \* history: leases of a delivery that ran out

dispatchVars == <<delivery, hand, posted, lapses>>

\* `lease` is the state of the lease of the latest claim.
NoDelivery == [status |-> "none"]
Delivery == [status: {"PENDING", "SENT", "ACKNOWLEDGED", "FAILED"}, attempts: 0 .. MaxAttempts,
             lease: {"none", "live", "lapsed"}]

Recorded == {d \in Deliveries : delivery[d] # NoDelivery}

DispatchInit ==
    /\ delivery = [d \in Deliveries |-> NoDelivery]
    /\ hand = [p \in Dispatchers |-> {}]
    /\ posted = [d \in Deliveries |-> {}]
    /\ lapses = [d \in Deliveries |-> 0]

\* record_channel_delivery
RecordChannelDelivery ==
    /\ \E d \in Deliveries \ Recorded :
         delivery' = [delivery EXCEPT ![d] =
             [status |-> "PENDING", attempts |-> 0, lease |-> "none"]]
    /\ UNCHANGED <<hand, posted, lapses>>

\* Mutant: a delivery is handed out although its lease has not run out.
ClaimableAnyway(d) == delivery[d].status = "PENDING"

Claimable(d) == delivery[d].status = "PENDING" /\ delivery[d].lease # "live"

\* claim_pending_deliveries: up to `limit` deliveries; those another claim has
\* locked are skipped.
ClaimPendingDeliveries(p) ==
    \E S \in SUBSET {d \in Recorded : Claimable(d) /\ delivery[d].attempts < MaxAttempts} :
        /\ S # {}
        /\ delivery' = [d \in Deliveries |->
               IF d \in S
               THEN [status |-> "PENDING", attempts |-> delivery[d].attempts + 1, lease |-> "live"]
               ELSE delivery[d]]
        /\ hand' = [hand EXCEPT ![p] = @ \cup {<<d, delivery[d].attempts + 1>> : d \in S}]
        /\ UNCHANGED <<posted, lapses>>

\* The dispatcher posts the message of a claim, once.
PostMessage(p) ==
    \E claim \in hand[p] :
        /\ claim[2] \notin posted[claim[1]]
        /\ posted' = [posted EXCEPT ![claim[1]] = @ \cup {claim[2]}]
        /\ UNCHANGED <<delivery, hand, lapses>>

\* Mutant: the token of the claim is not compared.
HoldsAny(claim) == delivery[claim[1]].status = "PENDING" /\ delivery[claim[1]].lease = "live"

\* _require_claimed_delivery
Holds(claim) ==
    LET row == delivery[claim[1]]
    IN  row.status = "PENDING" /\ row.attempts = claim[2] /\ row.lease = "live"

\* mark_delivery_sent and mark_delivery_failed; a report that is turned away ends
\* the dispatcher's work on the claim.
Report(p, claim, status) ==
    /\ claim \in hand[p]
    /\ hand' = [hand EXCEPT ![p] = @ \ {claim}]
    /\ delivery' = IF Holds(claim)
                   THEN [delivery EXCEPT ![claim[1]] =
                            [status |-> status, attempts |-> @.attempts, lease |-> "none"]]
                   ELSE delivery
    /\ UNCHANGED <<posted, lapses>>

MarkDeliverySent(p) ==
    \E claim \in hand[p] : claim[2] \in posted[claim[1]] /\ Report(p, claim, "SENT")
MarkDeliveryFailed(p) ==
    \E claim \in hand[p] : claim[2] \notin posted[claim[1]] /\ Report(p, claim, "FAILED")

\* acknowledge_delivery, before the callback token runs out.
AcknowledgeDelivery(d) ==
    /\ delivery[d].status = "SENT"
    /\ delivery' = [delivery EXCEPT ![d].status = "ACKNOWLEDGED"]
    /\ UNCHANGED <<hand, posted, lapses>>

\* Time passes.
LeaseLapses(d) ==
    /\ delivery[d].status = "PENDING"
    /\ delivery[d].lease = "live"
    /\ delivery' = [delivery EXCEPT ![d].lease = "lapsed"]
    /\ lapses' = [lapses EXCEPT ![d] = @ + 1]
    /\ UNCHANGED <<hand, posted>>

DispatcherDies(p) ==
    /\ hand[p] # {}
    /\ hand' = [hand EXCEPT ![p] = {}]
    /\ UNCHANGED <<delivery, posted, lapses>>

DispatchNext ==
    \/ RecordChannelDelivery
    \/ \E p \in Dispatchers :
         \/ ClaimPendingDeliveries(p) \/ PostMessage(p)
         \/ MarkDeliverySent(p) \/ MarkDeliveryFailed(p) \/ DispatcherDies(p)
    \/ \E d \in Deliveries : AcknowledgeDelivery(d) \/ LeaseLapses(d)

DispatchSpec == DispatchInit /\ [][DispatchNext]_dispatchVars

(***************************************************************************)
(* Properties.                                                             *)
(***************************************************************************)
\* Rows, claims and histories keep the shape the code gives them.
DispatchTypeOK ==
    /\ delivery \in [Deliveries -> Delivery \cup {NoDelivery}]
    /\ hand \in [Dispatchers -> SUBSET (Deliveries \X (1 .. MaxAttempts))]
    /\ posted \in [Deliveries -> SUBSET (1 .. MaxAttempts)]
    /\ lapses \in [Deliveries -> 0 .. MaxAttempts]

\* The recorded outcome is the one of the latest claim: a delivery counts as sent
\* only if this claim posted it, and as failed only if it did not.  A dispatcher
\* whose lease was taken over cannot report for the one that took it.
OutcomeOfLatestClaim ==
    \A d \in Recorded :
        /\ delivery[d].status \in {"SENT", "ACKNOWLEDGED"} => delivery[d].attempts \in posted[d]
        /\ delivery[d].status = "FAILED" => delivery[d].attempts \notin posted[d]

\* A message goes out again only when a lease ran out, so never while the first
\* dispatcher still works in time.
RepeatedAfterLapse == \A d \in Deliveries : Cardinality(posted[d]) <= 1 + lapses[d]
=============================================================================
