----------------------- MODULE ChannelDispatchProofs -----------------------
(***************************************************************************)
(* Proofs about ChannelDispatch, for any number of deliveries, dispatchers *)
(* and attempts.                                                           *)
(***************************************************************************)
EXTENDS ChannelDispatch, FiniteSetTheorems, TLAPS

LEMMA NoDeliveryDiffers == NoDelivery \notin Delivery
  BY DEF NoDelivery, Delivery

\* A row that is there is a delivery.
LEMMA RecordedRow ==
  ASSUME DispatchTypeOK, NEW d \in Recorded
  PROVE  d \in Deliveries /\ delivery[d] \in Delivery
  BY DEF DispatchTypeOK, Recorded

-----------------------------------------------------------------------------
(* What a claim and a report do to a row.                                  *)

\* The rows a claim changes, and how.
LEMMA ClaimRows ==
  ASSUME DispatchTypeOK, NEW p \in Dispatchers, ClaimPendingDeliveries(p)
  PROVE  \E S \in SUBSET Recorded :
           /\ \A d \in S : /\ Claimable(d) /\ d \in Deliveries /\ delivery[d] \in Delivery
                           /\ delivery[d].attempts + 1 \in 1 .. MaxAttempts
                           /\ delivery'[d] = [status |-> "PENDING",
                                  attempts |-> delivery[d].attempts + 1, lease |-> "live"]
                           /\ delivery'[d] \in Delivery
           /\ \A d \in Deliveries : d \notin S => delivery'[d] = delivery[d]
           /\ delivery' \in [Deliveries -> Delivery \cup {NoDelivery}]
           /\ hand' = [hand EXCEPT ![p] = @ \cup {<<d, delivery[d].attempts + 1>> : d \in S}]
  <1>1. PICK S \in SUBSET {d \in Recorded : Claimable(d) /\ delivery[d].attempts < MaxAttempts} :
          /\ delivery' = [d \in Deliveries |->
                 IF d \in S
                 THEN [status |-> "PENDING", attempts |-> delivery[d].attempts + 1, lease |-> "live"]
                 ELSE delivery[d]]
          /\ hand' = [hand EXCEPT ![p] = @ \cup {<<d, delivery[d].attempts + 1>> : d \in S}]
    BY DEF ClaimPendingDeliveries
  <1>2. ASSUME NEW d \in S
        PROVE  /\ d \in Deliveries /\ Claimable(d) /\ delivery[d] \in Delivery
               /\ delivery[d].attempts + 1 \in 1 .. MaxAttempts
               /\ [status |-> "PENDING", attempts |-> delivery[d].attempts + 1,
                   lease |-> "live"] \in Delivery
    <2>1. /\ d \in Recorded /\ Claimable(d) /\ delivery[d].attempts < MaxAttempts
      BY <1>1
    <2>2. d \in Deliveries /\ delivery[d] \in Delivery
      BY <2>1, RecordedRow
    <2>3. delivery[d].attempts \in 0 .. MaxAttempts
      BY <2>2 DEF Delivery
    <2>4. delivery[d].attempts + 1 \in 1 .. MaxAttempts /\ delivery[d].attempts + 1 \in 0 .. MaxAttempts
      BY <2>1, <2>3, MaxAttemptsAssumption
    <2>5. [status |-> "PENDING", attempts |-> delivery[d].attempts + 1, lease |-> "live"] \in Delivery
      BY <2>4 DEF Delivery
    <2> QED  BY <2>1, <2>2, <2>4, <2>5
  <1>3. \A d \in S : /\ delivery'[d] = [status |-> "PENDING",
                           attempts |-> delivery[d].attempts + 1, lease |-> "live"]
                     /\ delivery'[d] \in Delivery
    BY <1>1, <1>2
  <1>4. \A d \in Deliveries : d \notin S => delivery'[d] = delivery[d]
    BY <1>1
  <1>5. delivery' \in [Deliveries -> Delivery \cup {NoDelivery}]
    <2>1. \A d \in Deliveries : delivery'[d] \in Delivery \cup {NoDelivery}
      BY <1>3, <1>4 DEF DispatchTypeOK
    <2>2. delivery' = [d \in Deliveries |-> delivery'[d]]
      BY <1>1
    <2> QED  BY <2>1, <2>2
  <1>6. S \in SUBSET Recorded
    BY <1>1
  <1> QED  BY <1>1, <1>2, <1>3, <1>4, <1>5, <1>6

\* The row a report changes, if the claim still holds.
LEMMA ReportRows ==
  ASSUME DispatchTypeOK, NEW p \in Dispatchers, NEW claim \in hand[p], NEW status \in {"SENT", "FAILED"},
         Report(p, claim, status)
  PROVE  /\ claim \in hand[p] /\ claim[1] \in Deliveries
         /\ \A d \in Deliveries : d # claim[1] \/ ~Holds(claim) => delivery'[d] = delivery[d]
         /\ Holds(claim) =>
              /\ delivery[claim[1]] \in Delivery
              /\ delivery'[claim[1]] = [status |-> status,
                     attempts |-> delivery[claim[1]].attempts, lease |-> "none"]
              /\ delivery'[claim[1]] \in Delivery
         /\ delivery' \in [Deliveries -> Delivery \cup {NoDelivery}]
         /\ hand' = [hand EXCEPT ![p] = @ \ {claim}]
  <1>1. claim \in hand[p] /\ claim[1] \in Deliveries
    BY DEF Report, DispatchTypeOK
  <1>2. Holds(claim) => delivery[claim[1]] \in Delivery
    BY <1>1 DEF Holds, DispatchTypeOK, NoDelivery
  <1>3. CASE Holds(claim)
    <2> DEFINE row == [status |-> status, attempts |-> delivery[claim[1]].attempts, lease |-> "none"]
    <2>2. row \in Delivery
      BY <1>2, <1>3 DEF Delivery
    <2>3. delivery' = [delivery EXCEPT ![claim[1]] = row]
      BY <1>1, <1>3 DEF Report, DispatchTypeOK
    <2> HIDE DEF row
    <2>4. /\ delivery'[claim[1]] = row
          /\ \A d \in Deliveries : d # claim[1] => delivery'[d] = delivery[d]
          /\ delivery' \in [Deliveries -> Delivery \cup {NoDelivery}]
      BY <2>2, <2>3, <1>1 DEF DispatchTypeOK
    <2>5. hand' = [hand EXCEPT ![p] = @ \ {claim}]
      BY DEF Report
    <2> QED  BY <1>1, <1>2, <1>3, <2>2, <2>4, <2>5 DEF row
  <1>4. CASE ~Holds(claim)
    BY <1>1, <1>4 DEF Report, DispatchTypeOK
  <1> QED  BY <1>3, <1>4

LEMMA InitDispatchTypes == DispatchInit => DispatchTypeOK
  BY MaxAttemptsAssumption DEF DispatchInit, DispatchTypeOK

\* A delivery has been claimed once for each lease that ran out, and once more while
\* one runs and after it was reported on.
Leases ==
    \A d \in Deliveries :
        /\ d \notin Recorded => lapses[d] = 0
        /\ d \in Recorded =>
             /\ delivery[d].lease = "none" /\ delivery[d].status = "PENDING" =>
                  delivery[d].attempts = 0 /\ lapses[d] = 0
             /\ delivery[d].lease = "lapsed" => delivery[d].attempts = lapses[d]
             /\ delivery[d].lease = "live" \/ delivery[d].status # "PENDING" =>
                  delivery[d].attempts = lapses[d] + 1
             /\ delivery[d].lease # "none" => delivery[d].status = "PENDING"

LEMMA InitLeases == DispatchInit => Leases
  BY DEF DispatchInit, Leases, Recorded

LEMMA StepDispatchTypes ==
  DispatchTypeOK /\ Leases /\ [DispatchNext]_dispatchVars => DispatchTypeOK' /\ Leases'
  <1> SUFFICES ASSUME DispatchTypeOK, Leases, [DispatchNext]_dispatchVars
               PROVE  DispatchTypeOK' /\ Leases'
    OBVIOUS
  <1> USE MaxAttemptsAssumption
  <1>1. ASSUME RecordChannelDelivery PROVE DispatchTypeOK' /\ Leases'
    <2>1. PICK d \in Deliveries \ Recorded :
            delivery' = [delivery EXCEPT ![d] =
                [status |-> "PENDING", attempts |-> 0, lease |-> "none"]]
      BY <1>1 DEF RecordChannelDelivery
    <2>2. [status |-> "PENDING", attempts |-> 0, lease |-> "none"] \in Delivery
      BY DEF Delivery
    <2>3. DispatchTypeOK'
      BY <1>1, <2>1, <2>2 DEF RecordChannelDelivery, DispatchTypeOK
    <2>4. /\ delivery'[d] = [status |-> "PENDING", attempts |-> 0, lease |-> "none"]
          /\ \A e \in Deliveries : e # d => delivery'[e] = delivery[e]
          /\ lapses' = lapses
      BY <1>1, <2>1 DEF RecordChannelDelivery, DispatchTypeOK
    <2> QED  BY <2>1, <2>3, <2>4 DEF Leases, Recorded, NoDelivery
  <1>2. ASSUME NEW p \in Dispatchers, ClaimPendingDeliveries(p) PROVE DispatchTypeOK' /\ Leases'
    <2>1. PICK S \in SUBSET Recorded :
           /\ \A d \in S : /\ Claimable(d) /\ d \in Deliveries /\ delivery[d] \in Delivery
                           /\ delivery[d].attempts + 1 \in 1 .. MaxAttempts
                           /\ delivery'[d] = [status |-> "PENDING",
                                  attempts |-> delivery[d].attempts + 1, lease |-> "live"]
                           /\ delivery'[d] \in Delivery
           /\ \A d \in Deliveries : d \notin S => delivery'[d] = delivery[d]
           /\ delivery' \in [Deliveries -> Delivery \cup {NoDelivery}]
           /\ hand' = [hand EXCEPT ![p] = @ \cup {<<d, delivery[d].attempts + 1>> : d \in S}]
      BY <1>2, ClaimRows
    <2>2. {<<d, delivery[d].attempts + 1>> : d \in S} \subseteq Deliveries \X (1 .. MaxAttempts)
      <3>1. \A d \in S : d \in Deliveries /\ delivery[d].attempts + 1 \in 1 .. MaxAttempts
        BY <2>1
      <3> QED  BY <3>1
    <2>3. hand' \in [Dispatchers -> SUBSET (Deliveries \X (1 .. MaxAttempts))]
      BY <2>1, <2>2 DEF DispatchTypeOK
    <2>4. posted' = posted /\ lapses' = lapses
      BY <1>2 DEF ClaimPendingDeliveries
    <2>5. DispatchTypeOK'
      BY <2>1, <2>3, <2>4 DEF DispatchTypeOK
    <2>6. ASSUME NEW d \in S
          PROVE  /\ d \in Recorded' /\ delivery'[d].lease = "live" /\ delivery'[d].status = "PENDING"
                 /\ delivery'[d].attempts = lapses[d] + 1
      <3>1. d \in Recorded /\ d \in Deliveries /\ delivery[d] \in Delivery
        BY <2>1
      <3>2. delivery[d].status = "PENDING" /\ delivery[d].lease \in {"none", "lapsed"}
        BY <2>1, <3>1 DEF Claimable, Delivery
      <3>3. delivery[d].attempts = lapses[d]
        BY <3>1, <3>2 DEF Leases
      <3>0. delivery'[d] = [status |-> "PENDING", attempts |-> delivery[d].attempts + 1,
                            lease |-> "live"]
        BY <2>1
      <3>4. /\ delivery'[d].lease = "live" /\ delivery'[d].status = "PENDING"
            /\ delivery'[d].attempts = delivery[d].attempts + 1
        BY <3>0
      <3>5. delivery'[d] # NoDelivery
        BY <2>1, NoDeliveryDiffers
      <3> QED  BY <3>1, <3>3, <3>4, <3>5 DEF Recorded
    <2>7. ASSUME NEW d \in Deliveries, d \notin S
          PROVE  delivery'[d] = delivery[d] /\ (d \in Recorded' <=> d \in Recorded)
      BY <2>1, <2>7 DEF Recorded
    <2> QED
      <3>1. SUFFICES ASSUME NEW d \in Deliveries
                     PROVE  /\ d \notin Recorded' => lapses'[d] = 0
                            /\ d \in Recorded' =>
                                 /\ delivery'[d].lease = "none" /\ delivery'[d].status = "PENDING" =>
                                      delivery'[d].attempts = 0 /\ lapses'[d] = 0
                                 /\ delivery'[d].lease = "lapsed" => delivery'[d].attempts = lapses'[d]
                                 /\ delivery'[d].lease = "live" \/ delivery'[d].status # "PENDING" =>
                                      delivery'[d].attempts = lapses'[d] + 1
                                 /\ delivery'[d].lease # "none" => delivery'[d].status = "PENDING"
        BY <2>5 DEF Leases
      <3>2. CASE d \in S
        BY <2>4, <2>6, <3>2
      <3>3. CASE d \notin S
        BY <2>4, <2>7, <3>3 DEF Leases
      <3> QED  BY <3>2, <3>3
  <1>3. ASSUME NEW p \in Dispatchers, PostMessage(p) PROVE DispatchTypeOK' /\ Leases'
    <2>1. PICK claim \in hand[p] :
            posted' = [posted EXCEPT ![claim[1]] = @ \cup {claim[2]}]
      BY <1>3 DEF PostMessage
    <2>2. claim[1] \in Deliveries /\ claim[2] \in 1 .. MaxAttempts
      BY <2>1 DEF DispatchTypeOK
    <2>3. posted' \in [Deliveries -> SUBSET (1 .. MaxAttempts)]
      BY <2>1, <2>2 DEF DispatchTypeOK
    <2> QED  BY <1>3, <2>3 DEF PostMessage, DispatchTypeOK, Leases, Recorded
  <1>4. ASSUME NEW p \in Dispatchers, MarkDeliverySent(p) \/ MarkDeliveryFailed(p)
        PROVE  DispatchTypeOK' /\ Leases'
    <2>1. PICK claim \in hand[p], status \in {"SENT", "FAILED"} : Report(p, claim, status)
      BY <1>4 DEF MarkDeliverySent, MarkDeliveryFailed
    <2>2. hand' \in [Dispatchers -> SUBSET (Deliveries \X (1 .. MaxAttempts))]
      BY <2>1 DEF Report, DispatchTypeOK
    <2>3. posted' = posted /\ lapses' = lapses
      BY <2>1 DEF Report
    <2>4. DispatchTypeOK'
      BY <2>1, <2>2, <2>3, ReportRows DEF DispatchTypeOK
    <2>5. CASE Holds(claim)
      <3>1. /\ claim[1] \in Deliveries
            /\ \A d \in Deliveries : d # claim[1] => delivery'[d] = delivery[d]
            /\ delivery[claim[1]] \in Delivery /\ delivery'[claim[1]] \in Delivery
            /\ delivery'[claim[1]].status = status /\ delivery'[claim[1]].lease = "none"
            /\ delivery'[claim[1]].attempts = delivery[claim[1]].attempts
        <4>1. /\ claim[1] \in Deliveries
              /\ \A d \in Deliveries : d # claim[1] => delivery'[d] = delivery[d]
              /\ delivery[claim[1]] \in Delivery /\ delivery'[claim[1]] \in Delivery
          BY <2>1, <2>5, ReportRows
        <4>2. delivery'[claim[1]] = [status |-> status,
                  attempts |-> delivery[claim[1]].attempts, lease |-> "none"]
          BY <2>1, <2>5, ReportRows
        <4> QED  BY <4>1, <4>2
      <3>2. delivery[claim[1]].attempts = lapses[claim[1]] + 1
        BY <2>5, <3>1, NoDeliveryDiffers DEF Holds, Leases, Recorded
      <3> QED  BY <2>3, <2>4, <3>1, <3>2, NoDeliveryDiffers DEF Leases, Recorded
    <2>6. CASE ~Holds(claim)
      <3>1. \A d \in Deliveries : delivery'[d] = delivery[d]
        BY <2>1, <2>6, ReportRows
      <3> QED  BY <2>3, <2>4, <3>1 DEF Leases, Recorded
    <2> QED  BY <2>5, <2>6
  <1>5. ASSUME NEW d \in Deliveries, AcknowledgeDelivery(d) PROVE DispatchTypeOK' /\ Leases'
    <2>1. delivery[d] \in Delivery /\ delivery[d].status = "SENT"
      BY <1>5 DEF AcknowledgeDelivery, DispatchTypeOK, NoDelivery
    <2>2. [delivery[d] EXCEPT !.status = "ACKNOWLEDGED"] \in Delivery
      BY <2>1 DEF Delivery
    <2>3. DispatchTypeOK'
      BY <1>5, <2>2 DEF AcknowledgeDelivery, DispatchTypeOK
    <2>4. /\ \A e \in Deliveries : e # d => delivery'[e] = delivery[e]
          /\ delivery'[d] \in Delivery /\ delivery'[d].status = "ACKNOWLEDGED"
          /\ delivery'[d].lease = delivery[d].lease /\ delivery'[d].attempts = delivery[d].attempts
          /\ lapses' = lapses
      BY <1>5, <2>1, <2>2 DEF AcknowledgeDelivery, DispatchTypeOK, Delivery
    <2> QED  BY <2>1, <2>3, <2>4, NoDeliveryDiffers DEF Leases, Recorded
  <1>6. ASSUME NEW d \in Deliveries, LeaseLapses(d) PROVE DispatchTypeOK' /\ Leases'
    <2>1. delivery[d] \in Delivery /\ delivery[d].status = "PENDING" /\ delivery[d].lease = "live"
      BY <1>6 DEF LeaseLapses, DispatchTypeOK, NoDelivery
    <2>2. delivery[d].attempts = lapses[d] + 1
      BY <2>1, NoDeliveryDiffers DEF Leases, Recorded
    <2>3. lapses[d] + 1 \in 0 .. MaxAttempts
      BY <2>1, <2>2 DEF Delivery
    <2>4. [delivery[d] EXCEPT !.lease = "lapsed"] \in Delivery
      BY <2>1 DEF Delivery
    <2>5. /\ \A e \in Deliveries : e # d => delivery'[e] = delivery[e] /\ lapses'[e] = lapses[e]
          /\ delivery'[d] \in Delivery /\ delivery'[d].status = "PENDING"
          /\ delivery'[d].lease = "lapsed" /\ delivery'[d].attempts = delivery[d].attempts
          /\ lapses'[d] = lapses[d] + 1
      BY <1>6, <2>1, <2>4 DEF LeaseLapses, DispatchTypeOK, Delivery
    <2>6. DispatchTypeOK'
      BY <1>6, <2>3, <2>4 DEF LeaseLapses, DispatchTypeOK
    <2> QED  BY <2>2, <2>5, <2>6, NoDeliveryDiffers DEF Leases, Recorded
  <1>7. ASSUME NEW p \in Dispatchers, DispatcherDies(p) PROVE DispatchTypeOK' /\ Leases'
    BY <1>7 DEF DispatcherDies, DispatchTypeOK, Leases, Recorded
  <1>8. ASSUME UNCHANGED dispatchVars PROVE DispatchTypeOK' /\ Leases'
    BY <1>8 DEF dispatchVars, DispatchTypeOK, Leases, Recorded
  <1> QED  BY <1>1, <1>2, <1>3, <1>4, <1>5, <1>6, <1>7, <1>8 DEF DispatchNext

\* Rows, claims and histories keep their shape; a lease runs out at most once for each
\* attempt.
THEOREM DispatchTypeCorrect == DispatchSpec => []DispatchTypeOK
  BY InitDispatchTypes, InitLeases, StepDispatchTypes, PTL DEF DispatchSpec

-----------------------------------------------------------------------------
(* Whose outcome a delivery records.                                       *)

Attempts == 1 .. MaxAttempts

\* Only claims that were made are in a hand or posted.
ClaimsMade ==
    /\ \A d \in Deliveries : d \notin Recorded => posted[d] = {}
    /\ \A d \in Recorded : \A n \in posted[d] : n <= delivery[d].attempts
    /\ \A p \in Dispatchers : \A d \in Deliveries : \A n \in Attempts :
         <<d, n>> \in hand[p] => d \in Recorded /\ n <= delivery[d].attempts

\* A claim is one dispatcher's.
ClaimsApart ==
    \A p \in Dispatchers : \A q \in Dispatchers : p # q =>
        \A d \in Deliveries : \A n \in Attempts : ~(<<d, n>> \in hand[p] /\ <<d, n>> \in hand[q])

\* What a row that was reported on says of its latest claim, which nobody can post
\* any more if it failed.
Reported ==
    \A d \in Recorded :
        /\ delivery[d].status \in {"SENT", "ACKNOWLEDGED"} => delivery[d].attempts \in posted[d]
        /\ delivery[d].status = "FAILED" =>
             /\ delivery[d].attempts \notin posted[d]
             /\ \A p \in Dispatchers : <<d, delivery[d].attempts>> \notin hand[p]

ClaimInv == ClaimsMade /\ ClaimsApart /\ Reported

LEMMA InitClaims == DispatchInit => ClaimInv
  BY DEF DispatchInit, ClaimInv, ClaimsMade, ClaimsApart, Reported, Recorded

LEMMA RecordKeepsClaims ==
  ASSUME DispatchTypeOK, ClaimInv, RecordChannelDelivery PROVE ClaimInv'
  <1>1. PICK d \in Deliveries \ Recorded :
          delivery' = [delivery EXCEPT ![d] =
              [status |-> "PENDING", attempts |-> 0, lease |-> "none"]]
    BY DEF RecordChannelDelivery
  <1>2. /\ delivery'[d] = [status |-> "PENDING", attempts |-> 0, lease |-> "none"]
        /\ \A e \in Deliveries : e # d => delivery'[e] = delivery[e]
        /\ hand' = hand /\ posted' = posted
    BY <1>1 DEF RecordChannelDelivery, DispatchTypeOK
  <1>3. \A e \in Recorded : e # d /\ e \in Recorded' /\ delivery'[e] = delivery[e]
    BY <1>1, <1>2 DEF Recorded
  <1>4. \A e \in Recorded' : e = d \/ (e \in Recorded /\ delivery'[e] = delivery[e])
    BY <1>2 DEF Recorded
  <1>5. d \in Deliveries /\ posted[d] = {}
    BY <1>1 DEF ClaimInv, ClaimsMade
  <1>6. Recorded \subseteq Deliveries
    BY DEF Recorded
  <1>7. ClaimsMade'
    BY <1>2, <1>3, <1>4, <1>5 DEF ClaimInv, ClaimsMade
  <1>8. ClaimsApart'
    BY <1>2 DEF ClaimInv, ClaimsApart
  <1>9. Reported'
    <2>1. ASSUME NEW e \in Recorded', e # d
          PROVE  /\ delivery'[e].status \in {"SENT", "ACKNOWLEDGED"} =>
                      delivery'[e].attempts \in posted'[e]
                 /\ delivery'[e].status = "FAILED" =>
                      /\ delivery'[e].attempts \notin posted'[e]
                      /\ \A p \in Dispatchers : <<e, delivery'[e].attempts>> \notin hand'[p]
      BY <1>2, <1>4, <2>1 DEF ClaimInv, Reported
    <2>2. delivery'[d].status = "PENDING"
      BY <1>2
    <2> QED  BY <2>1, <2>2 DEF Reported
  <1> QED  BY <1>7, <1>8, <1>9 DEF ClaimInv

LEMMA ClaimKeepsClaims ==
  ASSUME DispatchTypeOK, ClaimInv, NEW p \in Dispatchers, ClaimPendingDeliveries(p) PROVE ClaimInv'
  <1>1. PICK S \in SUBSET Recorded :
          /\ \A d \in S : /\ Claimable(d) /\ d \in Deliveries /\ delivery[d] \in Delivery
                          /\ delivery[d].attempts + 1 \in 1 .. MaxAttempts
                          /\ delivery'[d] = [status |-> "PENDING",
                                 attempts |-> delivery[d].attempts + 1, lease |-> "live"]
                          /\ delivery'[d] \in Delivery
          /\ \A d \in Deliveries : d \notin S => delivery'[d] = delivery[d]
          /\ delivery' \in [Deliveries -> Delivery \cup {NoDelivery}]
          /\ hand' = [hand EXCEPT ![p] = @ \cup {<<d, delivery[d].attempts + 1>> : d \in S}]
    BY ClaimRows
  <1>2. posted' = posted
    BY DEF ClaimPendingDeliveries
  <1>3. /\ \A q \in Dispatchers : q # p => hand'[q] = hand[q]
        /\ \A d \in Deliveries : \A n \in Attempts : <<d, n>> \in hand'[p] =>
             <<d, n>> \in hand[p] \/ (d \in S /\ n = delivery[d].attempts + 1)
    BY <1>1 DEF DispatchTypeOK
  <1>4. \A d \in S : /\ d \in Recorded /\ d \in Recorded' /\ d \in Deliveries
                     /\ delivery'[d].status = "PENDING"
                     /\ delivery'[d].attempts = delivery[d].attempts + 1
    <2>2. \A d \in S : d \in Recorded /\ d \in Recorded' /\ d \in Deliveries
      BY <1>1, NoDeliveryDiffers DEF Recorded
    <2>3. ASSUME NEW d \in S
          PROVE  delivery'[d].status = "PENDING" /\ delivery'[d].attempts = delivery[d].attempts + 1
      <3>1. delivery'[d] = [status |-> "PENDING", attempts |-> delivery[d].attempts + 1,
                            lease |-> "live"]
        BY <1>1
      <3> QED  BY <3>1
    <2> QED  BY <2>2, <2>3
  <1>5. \A d \in Deliveries : d \notin S => delivery'[d] = delivery[d] /\ (d \in Recorded' <=> d \in Recorded)
    BY <1>1 DEF Recorded
  <1>6. \A d \in Recorded : d \in Deliveries /\ delivery[d].attempts \in 0 .. MaxAttempts
    BY RecordedRow DEF Delivery
  <1>7. \A d \in Recorded' : d \in Deliveries
    BY DEF Recorded
  <1>8. \A d \in Deliveries : posted[d] \subseteq Attempts
    BY DEF DispatchTypeOK, Attempts
  <1>9. ClaimsMade'
    <2>1. \A d \in Deliveries : d \notin Recorded' => posted'[d] = {}
      BY <1>2, <1>4, <1>5 DEF ClaimInv, ClaimsMade
    <2>2. ASSUME NEW d \in Recorded', NEW n \in posted'[d] PROVE n <= delivery'[d].attempts
      <3>1. CASE d \in S
        BY <1>2, <1>4, <1>6, <1>8, <3>1 DEF ClaimInv, ClaimsMade, Attempts
      <3>2. CASE d \notin S
        BY <1>2, <1>5, <1>7, <3>2 DEF ClaimInv, ClaimsMade
      <3> QED  BY <3>1, <3>2
    <2>3. ASSUME NEW q \in Dispatchers, NEW d \in Deliveries, NEW n \in Attempts, <<d, n>> \in hand'[q]
          PROVE  d \in Recorded' /\ n <= delivery'[d].attempts
      <3>1. <<d, n>> \in hand[q] \/ (d \in S /\ n = delivery[d].attempts + 1)
        BY <1>3, <2>3
      <3>2. CASE d \in S
        <4>1. n <= delivery[d].attempts \/ n = delivery[d].attempts + 1
          BY <3>1 DEF ClaimInv, ClaimsMade
        <4> QED  BY <1>4, <1>6, <3>2, <4>1 DEF Attempts
      <3>3. CASE d \notin S
        BY <1>5, <3>1, <3>3 DEF ClaimInv, ClaimsMade
      <3> QED  BY <3>2, <3>3
    <2> QED  BY <2>1, <2>2, <2>3 DEF ClaimsMade
  <1>10. ClaimsApart'
    <2>1. SUFFICES ASSUME NEW q \in Dispatchers, q # p, NEW d \in Deliveries, NEW n \in Attempts,
                          <<d, n>> \in hand'[p], <<d, n>> \in hand'[q]
                   PROVE  FALSE
      BY <1>3 DEF ClaimInv, ClaimsApart
    <2>2. <<d, n>> \in hand[q]
      BY <1>3, <2>1
    <2>3. d \in Recorded /\ n <= delivery[d].attempts /\ <<d, n>> \notin hand[p]
      BY <2>1, <2>2 DEF ClaimInv, ClaimsMade, ClaimsApart
    <2>4. n = delivery[d].attempts + 1
      BY <1>3, <2>1, <2>3
    <2> QED  BY <1>6, <2>3, <2>4 DEF Attempts
  <1>11. Reported'
    <2>1. ASSUME NEW d \in Recorded', delivery'[d].status # "PENDING"
          PROVE  d \notin S /\ d \in Recorded /\ delivery'[d] = delivery[d]
      BY <1>4, <1>5, <1>7, <2>1
    <2>2. ASSUME NEW d \in Recorded', delivery'[d].status \in {"SENT", "ACKNOWLEDGED"}
          PROVE  delivery'[d].attempts \in posted'[d]
      <3>1. d \in Recorded /\ delivery'[d] = delivery[d]
        BY <2>1, <2>2
      <3> QED  BY <1>2, <2>2, <3>1 DEF ClaimInv, Reported
    <2>3. ASSUME NEW d \in Recorded', delivery'[d].status = "FAILED"
          PROVE  /\ delivery'[d].attempts \notin posted'[d]
                 /\ \A q \in Dispatchers : <<d, delivery'[d].attempts>> \notin hand'[q]
      <3>1. d \notin S /\ d \in Recorded /\ delivery'[d] = delivery[d]
        BY <2>1, <2>3
      <3>2. /\ delivery[d].attempts \notin posted[d]
            /\ \A q \in Dispatchers : <<d, delivery[d].attempts>> \notin hand[q]
        BY <2>3, <3>1 DEF ClaimInv, Reported
      <3>3. <<d, delivery[d].attempts>> \notin {<<e, delivery[e].attempts + 1>> : e \in S}
        BY <3>1
      <3>4. \A q \in Dispatchers : <<d, delivery[d].attempts>> \notin hand'[q]
        BY <1>1, <3>2, <3>3 DEF DispatchTypeOK
      <3> QED  BY <1>2, <3>1, <3>2, <3>4
    <2>4. ASSUME NEW d \in Recorded'
          PROVE  /\ delivery'[d].status \in {"SENT", "ACKNOWLEDGED"} =>
                      delivery'[d].attempts \in posted'[d]
                 /\ delivery'[d].status = "FAILED" =>
                      /\ delivery'[d].attempts \notin posted'[d]
                      /\ \A q \in Dispatchers : <<d, delivery'[d].attempts>> \notin hand'[q]
      BY <2>2, <2>3
    <2> QED  BY <2>4 DEF Reported
  <1> QED  BY <1>9, <1>10, <1>11 DEF ClaimInv

LEMMA PostKeepsClaims ==
  ASSUME DispatchTypeOK, ClaimInv, NEW p \in Dispatchers, PostMessage(p) PROVE ClaimInv'
  <1>1. PICK claim \in hand[p] : posted' = [posted EXCEPT ![claim[1]] = @ \cup {claim[2]}]
    BY DEF PostMessage
  <1>2. delivery' = delivery /\ hand' = hand
    BY DEF PostMessage
  <1>3. PICK d \in Deliveries, n \in Attempts : claim = <<d, n>>
    BY <1>1 DEF DispatchTypeOK, Attempts
  <1>4. /\ posted'[d] = posted[d] \cup {n}
        /\ \A e \in Deliveries : e # d => posted'[e] = posted[e]
    BY <1>1, <1>3 DEF DispatchTypeOK
  <1>5. <<d, n>> \in hand[p] /\ d \in Recorded /\ n <= delivery[d].attempts
    BY <1>1, <1>3 DEF ClaimInv, ClaimsMade
  <1>6. Recorded' = Recorded /\ Recorded \subseteq Deliveries
    BY <1>2 DEF Recorded
  <1>7. ClaimsMade'
    BY <1>2, <1>4, <1>5, <1>6 DEF ClaimInv, ClaimsMade
  <1>8. ClaimsApart'
    BY <1>2 DEF ClaimInv, ClaimsApart
  <1>9. Reported'
    <2>1. delivery[d].status = "FAILED" => n # delivery[d].attempts
      BY <1>5 DEF ClaimInv, Reported
    <2> QED  BY <1>2, <1>4, <1>6, <2>1 DEF ClaimInv, Reported
  <1> QED  BY <1>7, <1>8, <1>9 DEF ClaimInv

LEMMA ReportKeepsClaims ==
  ASSUME DispatchTypeOK, ClaimInv, NEW p \in Dispatchers, MarkDeliverySent(p) \/ MarkDeliveryFailed(p)
  PROVE  ClaimInv'
  <1>1. PICK claim \in hand[p], status \in {"SENT", "FAILED"} :
          /\ Report(p, claim, status)
          /\ status = "SENT" => claim[2] \in posted[claim[1]]
          /\ status = "FAILED" => claim[2] \notin posted[claim[1]]
    BY DEF MarkDeliverySent, MarkDeliveryFailed
  <1>2. PICK d \in Deliveries, n \in Attempts : claim = <<d, n>>
    BY <1>1 DEF DispatchTypeOK, Attempts
  <1>3. posted' = posted
    BY <1>1 DEF Report
  <1>4. \A q \in Dispatchers : hand'[q] = IF q = p THEN hand[p] \ {<<d, n>>} ELSE hand[q]
    BY <1>1, <1>2 DEF Report, DispatchTypeOK
  <1>5. \A e \in Deliveries : e # d \/ ~Holds(claim) => delivery'[e] = delivery[e]
    BY <1>1, <1>2, ReportRows
  <1>6. <<d, n>> \in hand[p] /\ d \in Recorded
    BY <1>1, <1>2 DEF ClaimInv, ClaimsMade
  <1>7. ASSUME Holds(claim)
        PROVE  /\ delivery[d].attempts = n
               /\ delivery'[d] = [status |-> status, attempts |-> delivery[d].attempts, lease |-> "none"]
               /\ delivery'[d] # NoDelivery
    BY <1>1, <1>2, <1>7, ReportRows, NoDeliveryDiffers DEF Holds
  <1>8. ASSUME NEW e \in Deliveries
        PROVE  /\ e \in Recorded' <=> e \in Recorded
               /\ e \in Recorded => delivery'[e].attempts = delivery[e].attempts
    <2>1. CASE e = d /\ Holds(claim)
      <3>1. delivery'[d] = [status |-> status, attempts |-> delivery[d].attempts, lease |-> "none"]
        BY <1>7, <2>1
      <3>2. delivery'[d].attempts = delivery[d].attempts
        BY <3>1
      <3> QED  BY <1>6, <1>7, <2>1, <3>2 DEF Recorded
    <2>2. CASE e # d \/ ~Holds(claim)
      BY <1>5, <2>2 DEF Recorded
    <2> QED  BY <2>1, <2>2
  <1>9. Recorded' \subseteq Deliveries /\ Recorded \subseteq Deliveries
    BY DEF Recorded
  <1>10. ClaimsMade'
    BY <1>3, <1>4, <1>8, <1>9 DEF ClaimInv, ClaimsMade
  <1>11. ClaimsApart'
    BY <1>4 DEF ClaimInv, ClaimsApart
  <1>12. ASSUME NEW e \in Recorded'
         PROVE  /\ delivery'[e].status \in {"SENT", "ACKNOWLEDGED"} =>
                     delivery'[e].attempts \in posted'[e]
                /\ delivery'[e].status = "FAILED" =>
                     /\ delivery'[e].attempts \notin posted'[e]
                     /\ \A q \in Dispatchers : <<e, delivery'[e].attempts>> \notin hand'[q]
    <2>1. CASE e = d /\ Holds(claim)
      <3>1. delivery'[d] = [status |-> status, attempts |-> delivery[d].attempts, lease |-> "none"]
        BY <1>7, <2>1
      <3>2. delivery'[d].status = status /\ delivery'[d].attempts = n
        BY <1>7, <2>1, <3>1
      <3>3. status = "SENT" => n \in posted[d]
        BY <1>1, <1>2
      <3>4. status = "FAILED" => n \notin posted[d]
        BY <1>1, <1>2
      <3>5. \A q \in Dispatchers : <<d, n>> \notin hand'[q]
        BY <1>4, <1>6 DEF ClaimInv, ClaimsApart
      <3> QED  BY <1>3, <2>1, <3>2, <3>3, <3>4, <3>5
    <2>2. CASE e # d \/ ~Holds(claim)
      <3>1. e \in Recorded /\ delivery'[e] = delivery[e]
        BY <1>5, <1>8, <1>9, <2>2
      <3> QED  BY <1>3, <1>4, <3>1 DEF ClaimInv, Reported
    <2> QED  BY <2>1, <2>2
  <1> QED  BY <1>10, <1>11, <1>12 DEF ClaimInv, Reported

LEMMA AcknowledgeKeepsClaims ==
  ASSUME DispatchTypeOK, ClaimInv, NEW d \in Deliveries, AcknowledgeDelivery(d) PROVE ClaimInv'
  <1>1. delivery[d] \in Delivery /\ delivery[d].status = "SENT" /\ d \in Recorded
    BY DEF AcknowledgeDelivery, DispatchTypeOK, NoDelivery, Recorded
  <1>2. [delivery[d] EXCEPT !.status = "ACKNOWLEDGED"] \in Delivery
    BY <1>1 DEF Delivery
  <1>3. /\ \A e \in Deliveries : e # d => delivery'[e] = delivery[e]
        /\ delivery'[d] \in Delivery /\ delivery'[d].status = "ACKNOWLEDGED"
        /\ delivery'[d].attempts = delivery[d].attempts
        /\ hand' = hand /\ posted' = posted
    BY <1>1, <1>2 DEF AcknowledgeDelivery, DispatchTypeOK, Delivery
  <1>4. Recorded' = Recorded /\ Recorded \subseteq Deliveries
    BY <1>1, <1>3, NoDeliveryDiffers DEF Recorded
  <1>5. ClaimsMade'
    BY <1>3, <1>4 DEF ClaimInv, ClaimsMade
  <1>6. ClaimsApart'
    BY <1>3 DEF ClaimInv, ClaimsApart
  <1>7. Reported'
    BY <1>1, <1>3, <1>4 DEF ClaimInv, Reported
  <1> QED  BY <1>5, <1>6, <1>7 DEF ClaimInv

LEMMA LapseKeepsClaims ==
  ASSUME DispatchTypeOK, ClaimInv, NEW d \in Deliveries, LeaseLapses(d) PROVE ClaimInv'
  <1>1. delivery[d] \in Delivery /\ d \in Recorded
    BY DEF LeaseLapses, DispatchTypeOK, NoDelivery, Recorded
  <1>2. [delivery[d] EXCEPT !.lease = "lapsed"] \in Delivery
    BY <1>1 DEF Delivery
  <1>3. /\ \A e \in Deliveries : e # d => delivery'[e] = delivery[e]
        /\ delivery'[d] \in Delivery /\ delivery'[d].status = delivery[d].status
        /\ delivery'[d].attempts = delivery[d].attempts
        /\ hand' = hand /\ posted' = posted
    BY <1>1, <1>2 DEF LeaseLapses, DispatchTypeOK, Delivery
  <1>4. Recorded' = Recorded /\ Recorded \subseteq Deliveries
    BY <1>1, <1>3, NoDeliveryDiffers DEF Recorded
  <1>5. ClaimsMade'
    BY <1>3, <1>4 DEF ClaimInv, ClaimsMade
  <1>6. ClaimsApart'
    BY <1>3 DEF ClaimInv, ClaimsApart
  <1>7. Reported'
    BY <1>3, <1>4 DEF ClaimInv, Reported
  <1> QED  BY <1>5, <1>6, <1>7 DEF ClaimInv

LEMMA DeathKeepsClaims ==
  ASSUME DispatchTypeOK, ClaimInv, NEW p \in Dispatchers, DispatcherDies(p) PROVE ClaimInv'
  <1>1. delivery' = delivery /\ posted' = posted /\ Recorded' = Recorded /\ Recorded \subseteq Deliveries
    BY DEF DispatcherDies, Recorded
  <1>2. \A q \in Dispatchers : hand'[q] \subseteq hand[q]
    BY DEF DispatcherDies, DispatchTypeOK
  <1>3. ClaimsMade'
    BY <1>1, <1>2 DEF ClaimInv, ClaimsMade
  <1>4. ClaimsApart'
    BY <1>2 DEF ClaimInv, ClaimsApart
  <1>5. Reported'
    BY <1>1, <1>2 DEF ClaimInv, Reported
  <1> QED  BY <1>3, <1>4, <1>5 DEF ClaimInv

LEMMA StepClaims == DispatchTypeOK /\ ClaimInv /\ [DispatchNext]_dispatchVars => ClaimInv'
  <1> SUFFICES ASSUME DispatchTypeOK, ClaimInv, [DispatchNext]_dispatchVars PROVE ClaimInv'
    OBVIOUS
  <1>1. CASE UNCHANGED dispatchVars
    BY <1>1 DEF dispatchVars, ClaimInv, ClaimsMade, ClaimsApart, Reported, Recorded
  <1> QED
    BY <1>1, RecordKeepsClaims, ClaimKeepsClaims, PostKeepsClaims, ReportKeepsClaims,
       AcknowledgeKeepsClaims, LapseKeepsClaims, DeathKeepsClaims DEF DispatchNext

\* The outcome a delivery records is the one of its latest claim.
THEOREM LatestClaimIsReported == DispatchSpec => []OutcomeOfLatestClaim
  <1>1. ClaimInv => OutcomeOfLatestClaim
    BY DEF ClaimInv, Reported, OutcomeOfLatestClaim
  <1> QED  BY InitDispatchTypes, InitLeases, StepDispatchTypes, InitClaims, StepClaims, <1>1, PTL DEF DispatchSpec

-----------------------------------------------------------------------------
(* How often a message goes out.                                           *)

LEMMA UpTo ==
  ASSUME NEW n \in Nat
  PROVE  /\ IsFiniteSet(1 .. n)
         /\ Cardinality(1 .. n) = IF 1 > n THEN 0 ELSE n - 1 + 1
  <1>1. 1 \in Int /\ n \in Int
    OBVIOUS
  <1>2. \A a, b \in Int : /\ IsFiniteSet(a .. b)
                         /\ Cardinality(a .. b) = IF a > b THEN 0 ELSE b - a + 1
    BY FS_Interval
  <1> QED  BY <1>1, <1>2

\* A message goes out again only after a lease ran out.
THEOREM RepeatsNeedLapses == DispatchSpec => []RepeatedAfterLapse
  <1>1. ASSUME DispatchTypeOK, Leases, ClaimInv, NEW d \in Deliveries
        PROVE  Cardinality(posted[d]) <= 1 + lapses[d]
    <2>1. lapses[d] \in Nat
      BY MaxAttemptsAssumption, <1>1 DEF DispatchTypeOK
    <2>2. CASE d \notin Recorded
      <3>1. posted[d] = {}
        BY <1>1, <2>2 DEF ClaimInv, ClaimsMade
      <3>2. Cardinality(posted[d]) = 0
        BY <3>1, FS_EmptySet
      <3> QED  BY <2>1, <3>2
    <2>3. CASE d \in Recorded
      <3>1. delivery[d] \in Delivery
        BY <1>1, <2>3, RecordedRow
      <3>2. delivery[d].attempts \in Nat /\ delivery[d].attempts <= lapses[d] + 1
        BY <1>1, <2>1, <2>3, <3>1, MaxAttemptsAssumption DEF Leases, Delivery
      <3>3. posted[d] \subseteq 1 .. delivery[d].attempts
        BY <1>1, <2>3, <3>2 DEF DispatchTypeOK, ClaimInv, ClaimsMade
      <3>4. /\ IsFiniteSet(1 .. delivery[d].attempts)
            /\ Cardinality(1 .. delivery[d].attempts) =
                 IF 1 > delivery[d].attempts THEN 0 ELSE delivery[d].attempts - 1 + 1
        BY <3>2, UpTo
      <3>5. Cardinality(1 .. delivery[d].attempts) <= delivery[d].attempts
        BY <3>2, <3>4
      <3>6. /\ IsFiniteSet(posted[d])
            /\ Cardinality(posted[d]) <= Cardinality(1 .. delivery[d].attempts)
        BY <3>3, <3>4, FS_Subset
      <3>7. Cardinality(posted[d]) \in Nat /\ Cardinality(1 .. delivery[d].attempts) \in Nat
        BY <3>4, <3>6, FS_CardinalityType
      <3> QED  BY <2>1, <3>2, <3>5, <3>6, <3>7
    <2> QED  BY <2>2, <2>3
  <1>2. DispatchTypeOK /\ Leases /\ ClaimInv => RepeatedAfterLapse
    BY <1>1 DEF RepeatedAfterLapse
  <1> QED  BY InitDispatchTypes, InitLeases, StepDispatchTypes, InitClaims, StepClaims, <1>2, PTL DEF DispatchSpec

=============================================================================
