---------------------- MODULE CrewmatePurchaseProofs ----------------------
(***************************************************************************)
(* The theorems of OffchainPurchase carried over to the purchase of a      *)
(* crewmate: its steps are those of OffchainPurchase, and RefuseCrew.      *)
(***************************************************************************)
EXTENDS CrewmatePurchase, OffchainPurchaseProofs

\* Every step of a crewmate purchase is one of OffchainPurchase or RefuseCrew.
LEMMA CrewmateStep == CrewmateNext => Next \/ \E r \in Requests : RefuseCrew(r)
  BY DEF CrewmateNext, CrewmateWebhook, ReceiveRequest, StoreRequest, ClaimPurchase,
         SubmitGrant, ConfirmCrewmate, Next, RequestStep, Proceed

\* RefuseCrew ends one request and leaves the others alone.
LEMMA RefuseCrewEnds ==
    ASSUME TypeOK, NEW r \in Requests, RefuseCrew(r)
    PROVE  /\ request' \in [Requests -> Request]
           /\ request'[r].pc = "done"
           /\ \A q \in Requests \ {r} : request'[q] = request[q]
           /\ UNCHANGED <<payment, doc, webhook, grants, indexed, failures, overruled>>
<1>1. request' = [request EXCEPT ![r].pc = "done"]
  BY DEF RefuseCrew
<1> QED
  BY <1>1, GotoType DEF RefuseCrew

LEMMA RefuseCrewInv ==
    ASSUME PurchaseInv, NEW r \in Requests, RefuseCrew(r)
    PROVE  PurchaseInv'
<1>1. TypeOK /\ Customized /\ PaidFirst
  BY DEF PurchaseInv
<1>2. TypeOK'
  BY <1>1, RefuseCrewEnds DEF TypeOK
<1>3. Customized'
  BY <1>1, RefuseCrewEnds DEF Customized
<1>4. PaidFirst'
  BY <1>1, RefuseCrewEnds DEF PaidFirst, Running
<1> QED
  BY <1>2, <1>3, <1>4 DEF PurchaseInv

LEMMA RefuseCrewOpen ==
    ASSUME TypeOK, CheckoutOpen, NEW r \in Requests, RefuseCrew(r)
    PROVE  CheckoutOpen'
  BY RefuseCrewEnds DEF CheckoutOpen, Running

LEMMA RefuseCrewGuarded ==
    ASSUME TypeOK, Guarded, NEW r \in Requests, RefuseCrew(r)
    PROVE  Guarded'
<1>1. request[r].pc = "store" /\ request' = [request EXCEPT ![r].pc = "done"]
  BY DEF RefuseCrew, At
<1>2. request'[r].txHash = request[r].txHash /\ request'[r].pc = "done"
  BY <1>1 DEF TypeOK, Request
<1>3. \A q \in Requests : request'[q].txHash = request[q].txHash
                          /\ (request'[q].pc = request[q].pc \/ request'[q].pc = "done")
  BY <1>2, RefuseCrewEnds
<1>4. UNCHANGED <<doc, grants, overruled>>
  BY RefuseCrewEnds
<1>5. Unopened => Unopened'
  BY <1>3, <1>4 DEF Unopened, Running
<1>6. Ungranted => Ungranted'
  BY <1>3, <1>4 DEF Ungranted, Holds
<1>7. Granted => Granted'
  BY <1>3, <1>4 DEF Granted
<1> QED
  BY <1>4, <1>5, <1>6, <1>7 DEF Guarded

LEMMA CrewmateNextInv == PurchaseInv /\ [CrewmateNext]_vars => PurchaseInv'
<1>1. CrewmateNext /\ PurchaseInv => PurchaseInv'
  BY CrewmateStep, PurchaseNext, RefuseCrewInv
<1>2. UNCHANGED vars /\ PurchaseInv => PurchaseInv'
  BY PurchaseNext
<1> QED
  BY <1>1, <1>2

LEMMA CrewmateInvariant == CrewmateSpec => []PurchaseInv
<1>1. CrewmateInit => PurchaseInv
  BY PurchaseInit DEF CrewmateInit
<1> QED
  BY <1>1, CrewmateNextInv, PTL DEF CrewmateSpec

LEMMA CrewmateOpen == CrewmateSpec => []CheckoutOpen
<1>1. CrewmateInit => CheckoutOpen
  BY DEF CrewmateInit, Init, CheckoutOpen, Running
<1>2. PurchaseInv /\ CheckoutOpen /\ [CrewmateNext]_vars => CheckoutOpen'
  <2>1. PurchaseInv /\ CheckoutOpen /\ [Next]_vars => CheckoutOpen'
    BY OpenNext
  <2>2. ASSUME PurchaseInv, CheckoutOpen, NEW r \in Requests, RefuseCrew(r)
        PROVE  CheckoutOpen'
    BY <2>2, RefuseCrewOpen DEF PurchaseInv
  <2> QED
    BY <2>1, <2>2, CrewmateStep
<1> QED
  BY <1>1, <1>2, CrewmateInvariant, PTL DEF CrewmateSpec

-----------------------------------------------------------------------------

\* A crewmate purchase in progress goes back to paid_pending_customization only by
\* a delivery that another one has overtaken, whether or not the player turns out
\* to control the crew.
THEOREM CrewmatePaidOnce == CrewmateSpec => PaidOnce
<1> DEFINE Step == doc.status \notin {"checkout_created", "paid_pending_customization"}
                     /\ doc'.status = "paid_pending_customization"
                     => \E w \in Webhooks : SaveEvent(w) /\ webhook[w].overtaken
<1>1. PurchaseInv /\ CheckoutOpen /\ [CrewmateNext]_vars => [Step]_vars
  <2>1. PurchaseInv /\ CheckoutOpen /\ [Next]_vars => [Step]_vars
    BY PaidStep
  <2>2. ASSUME PurchaseInv, NEW r \in Requests, RefuseCrew(r)
        PROVE  Step
    BY <2>2 DEF RefuseCrew, PurchaseInv, TypeOK
  <2> QED
    BY <2>1, <2>2, CrewmateStep
<1> QED
  BY <1>1, CrewmateOpen, CrewmateInvariant, PTL DEF CrewmateSpec, PaidOnce

\* The grant of a crewmate is claimed once, unless the purchase was overruled, also
\* when requests overlap, or one is refused for its crew after an earlier one has
\* submitted or failed.
THEOREM CrewmateClaimedOnce == CrewmateSpec => ClaimedOnce
<1> DEFINE Step ==
      ~overruled /\ doc.status # "grant_submitting" /\ doc'.status = "grant_submitting"
        => grants = <<>>
<1>1. CrewmateInit => Guarded
  BY GuardedInit DEF CrewmateInit
<1>2. ClaimInv /\ [CrewmateNext]_vars => Guarded'
  <2>1. ClaimInv /\ [Next]_vars => Guarded'
    BY GuardedNext
  <2>2. ASSUME ClaimInv, NEW r \in Requests, RefuseCrew(r)
        PROVE  Guarded'
    BY <2>2, RefuseCrewGuarded DEF ClaimInv, PurchaseInv
  <2> QED
    BY <2>1, <2>2, CrewmateStep
<1>3. ClaimInv /\ [CrewmateNext]_vars => [Step]_vars
  <2>1. ClaimInv /\ [Next]_vars => [Step]_vars
    BY ClaimedStep
  <2>2. ASSUME ClaimInv, NEW r \in Requests, RefuseCrew(r)
        PROVE  Step
    BY <2>2 DEF RefuseCrew
  <2> QED
    BY <2>1, <2>2, CrewmateStep
<1>4. ClaimInv <=> PurchaseInv /\ Guarded
  BY DEF ClaimInv
<1> QED
  BY <1>1, <1>2, <1>3, <1>4, CrewmateInvariant, PTL DEF CrewmateSpec, ClaimedOnce
=============================================================================
