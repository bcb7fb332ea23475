----------------------- MODULE OffchainPurchaseProofs -----------------------
(***************************************************************************)
(* Proofs about OffchainPurchase, for every value of its constants.        *)
(***************************************************************************)
EXTENDS OffchainPurchase, TLAPS

\* A request past its first save finds a customization in the purchase, and
\* submits one.
Customized ==
    /\ \A r \in Requests :
         request[r].pc \in {"claim", "current", "execute", "record", "fail"}
           => doc.choice \in Choices
    /\ \A r \in Requests :
         request[r].pc \in {"store", "execute"} => request[r].choice \in Choices

\* Whatever left the open checkout behind did so after the payment.
PaidFirst ==
    /\ doc.status # "checkout_created" => payment = "paid"
    /\ \A r \in Requests : Running(r) => payment = "paid"
    /\ grants # <<>> => payment = "paid"

PurchaseInv == TypeOK /\ Customized /\ PaidFirst

-----------------------------------------------------------------------------
(* Lemmas about the operators the steps are built from.                    *)

\* The webhook saves a status, and leaves the open checkout only when paid.
LEMMA PaidStatusType ==
    ASSUME NEW read \in Status, NEW current \in Status
    PROVE  /\ PaidStatus(read, current) \in Status
           /\ PaidStatus(read, current) # current => payment = "paid"
  BY DEF PaidStatus, Status

\* A save of a request writes a purchase, and never its customization.
LEMMA WriteType ==
    ASSUME TypeOK, NEW r \in Requests, NEW status \in Status
    PROVE  /\ Write(status, r) \in Purchase
           /\ Write(status, r).choice = doc.choice
<1>1. doc \in Purchase /\ request[r] \in Request
  BY DEF TypeOK
<1>2. (IF request[r].status = status THEN doc.status ELSE status) \in Status
  BY <1>1 DEF Purchase
<1>3. (doc.txHash \/ request[r].txHash) \in BOOLEAN
  BY <1>1 DEF Purchase, Request
<1> QED
  BY <1>1, <1>2, <1>3 DEF Write, Purchase

\* A request goes on with the document it has read back.
LEMMA HoldingType ==
    ASSUME TypeOK, NEW r \in Requests, NEW purchase \in Purchase
    PROVE  /\ Holding(r, purchase) \in [Requests -> Request]
           /\ Holding(r, purchase)[r].pc = "execute"
           /\ Holding(r, purchase)[r].choice = purchase.choice
           /\ \A q \in Requests \ {r} : Holding(r, purchase)[q] = request[q]
<1>1. request \in [Requests -> Request]
  BY DEF TypeOK
<1>2. [pc |-> "execute", choice |-> purchase.choice, status |-> purchase.status,
       txHash |-> FALSE] \in Request
  BY DEF Purchase, Request
<1> QED
  BY <1>1, <1>2 DEF Holding

\* A request that only moves on keeps its record.
LEMMA GotoType ==
    ASSUME TypeOK, NEW r \in Requests,
           NEW pc \in {"start", "store", "claim", "current", "execute", "record", "fail",
                       "done", "cut"},
           request' = [request EXCEPT ![r].pc = pc]
    PROVE  /\ request' \in [Requests -> Request]
           /\ request'[r].pc = pc
           /\ request'[r].choice = request[r].choice
           /\ \A q \in Requests \ {r} : request'[q] = request[q]
<1>1. request \in [Requests -> Request]
  BY DEF TypeOK
<1>2. [request[r] EXCEPT !.pc = pc] \in Request
  BY <1>1 DEF Request
<1> QED
  BY <1>1, <1>2 DEF Request

-----------------------------------------------------------------------------
(* The invariant is inductive.                                             *)

LEMMA PurchaseInit == Init => PurchaseInv
<1> SUFFICES ASSUME Init PROVE PurchaseInv
  OBVIOUS
<1>1. TypeOK
  <2>1. doc \in Purchase
    BY DEF Init, Purchase, Status
  <2>2. webhook \in [Webhooks -> Delivery]
    BY DEF Init, Delivery, Status
  <2>3. request \in [Requests -> Request]
    BY DEF Init, Request, Status
  <2>4. grants \in Seq(Choices)
    BY DEF Init
  <2>5. failures \in 0..MaxFailures
    BY PurchaseAssumption DEF Init
  <2> QED
    BY <2>1, <2>2, <2>3, <2>4, <2>5 DEF Init, TypeOK
<1>2. Customized /\ PaidFirst
  BY DEF Init, Customized, PaidFirst, Running
<1> QED
  BY <1>1, <1>2 DEF PurchaseInv

LEMMA WebhookStep ==
    ASSUME PurchaseInv, NEW w \in Webhooks, Handle(w) \/ Redeliver(w)
    PROVE  PurchaseInv'
<1> USE DEF PurchaseInv
<1>1. webhook \in [Webhooks -> Delivery] /\ doc \in Purchase /\ doc.status \in Status
  BY DEF TypeOK, Purchase
<1>2. CASE ReadPurchase(w)
  <2>1. [pc |-> "save", status |-> doc.status, overtaken |-> FALSE] \in Delivery
    BY <1>1 DEF Delivery
  <2> QED
    BY <1>1, <1>2, <2>1 DEF ReadPurchase, TypeOK, Customized, PaidFirst, Running
<1>3. CASE SaveEvent(w)
  <2>1. webhook[w] \in Delivery /\ webhook[w].status \in Status
    BY <1>1 DEF Delivery
  <2> DEFINE status == PaidStatus(webhook[w].status, doc.status)
  <2>2. status \in Status /\ (status # doc.status => payment = "paid")
    BY <1>1, <2>1, PaidStatusType
  <2>3. doc' = [doc EXCEPT !.status = status]
    BY <1>3 DEF SaveEvent
  <2> HIDE DEF status
  <2>4. doc' \in Purchase /\ doc'.choice = doc.choice /\ doc'.status = status
    BY <1>1, <2>2, <2>3 DEF Purchase
  <2>5. webhook' \in [Webhooks -> Delivery]
    BY <1>1, <1>3, <2>1 DEF SaveEvent, Delivery
  <2> QED
    BY <1>3, <2>2, <2>4, <2>5 DEF SaveEvent, Overrules, TypeOK, Customized, PaidFirst, Running
<1>4. CASE Answer(w) \/ Redeliver(w)
  <2>1. webhook' \in [Webhooks -> Delivery]
    BY <1>1, <1>4 DEF Answer, Redeliver, Delivery
  <2>2. failures' \in 0..MaxFailures
    BY <1>4, PurchaseAssumption DEF Answer, Redeliver, Fail, TypeOK
  <2> QED
    BY <1>4, <2>1, <2>2 DEF Answer, Redeliver, TypeOK, Customized, PaidFirst, Running
<1> QED
  BY <1>2, <1>3, <1>4 DEF Handle

LEMMA RequestInv ==
    ASSUME PurchaseInv, NEW r \in Requests, RequestStep(r)
    PROVE  PurchaseInv'
<1> USE DEF PurchaseInv
<1>1. request \in [Requests -> Request] /\ request[r] \in Request
  BY DEF TypeOK
<1>2. doc \in Purchase /\ doc.status \in Status /\ grants \in Seq(Choices)
  BY DEF TypeOK, Purchase
<1>3. CASE Accept(r)
  <2>1. PICK choice \in Choices :
          request' = [request EXCEPT ![r] = [pc |-> "store", choice |-> choice,
                                             status |-> doc.status, txHash |-> FALSE]]
    BY <1>3 DEF Accept
  <2>2. [pc |-> "store", choice |-> choice, status |-> doc.status, txHash |-> FALSE]
          \in Request
    BY <1>2 DEF Request
  <2>3. /\ request' \in [Requests -> Request]
        /\ request'[r].pc = "store" /\ request'[r].choice = choice
        /\ \A q \in Requests \ {r} : request'[q] = request[q]
    BY <1>1, <2>1, <2>2
  <2>4. payment = "paid"
    BY <1>3 DEF Accept, Claimable, PaidFirst
  <2> QED
    BY <1>3, <2>3, <2>4 DEF Accept, TypeOK, Customized, PaidFirst, Running
<1>4. CASE Refuse(r)
  <2>1. /\ request' \in [Requests -> Request]
        /\ request'[r].pc = "done"
        /\ \A q \in Requests \ {r} : request'[q] = request[q]
    BY <1>4, GotoType DEF Refuse
  <2> QED
    BY <1>4, <2>1 DEF Refuse, TypeOK, Customized, PaidFirst, Running
<1>5. CASE StoreChoice(r)
  <2>1. /\ request' \in [Requests -> Request]
        /\ request'[r].pc = "claim" /\ request[r].choice \in Choices
        /\ \A q \in Requests \ {r} : request'[q] = request[q]
    BY <1>5, GotoType DEF StoreChoice, At, Customized
  <2>2. doc' \in Purchase /\ doc'.status = doc.status /\ doc'.choice = request[r].choice
    BY <1>1, <1>2, <1>5 DEF StoreChoice, Purchase, Request
  <2> QED
    BY <1>5, <2>1, <2>2 DEF StoreChoice, At, TypeOK, Customized, PaidFirst, Running
<1>6. CASE Claim(r)
  <2>1. /\ doc' \in Purchase /\ doc'.choice = doc.choice
        /\ doc'.status = "grant_submitting"
    BY <1>2, <1>6 DEF Claim, Purchase, Status
  <2>2. /\ request' \in [Requests -> Request]
        /\ request'[r].pc = "execute"
        /\ request'[r].choice = doc'.choice
        /\ \A q \in Requests \ {r} : request'[q] = request[q]
    BY <1>6, <2>1, HoldingType DEF Claim
  <2>3. doc.choice \in Choices /\ payment = "paid"
    BY <1>6 DEF Claim, At, Customized, PaidFirst, Running
  <2> QED
    BY <1>6, <2>1, <2>2, <2>3 DEF Claim, TypeOK, Customized, PaidFirst, Running
<1>7. CASE LoseClaim(r)
  <2>1. /\ request' \in [Requests -> Request]
        /\ request'[r].pc = "current"
        /\ \A q \in Requests \ {r} : request'[q] = request[q]
    BY <1>7, GotoType DEF LoseClaim
  <2> QED
    BY <1>7, <2>1 DEF LoseClaim, At, TypeOK, Customized, PaidFirst, Running
<1>8. CASE ReadCurrent(r)
  <2>1. /\ request' \in [Requests -> Request]
        /\ \/ request'[r].pc = "done"
           \/ request'[r].pc = "execute" /\ request'[r].choice = doc.choice
        /\ \A q \in Requests \ {r} : request'[q] = request[q]
    <3>1. CASE doc.status \in Submitted
      BY <1>2, <1>8, <3>1, HoldingType DEF ReadCurrent
    <3>2. CASE doc.status \notin Submitted
      BY <1>8, <3>2, GotoType DEF ReadCurrent
    <3> QED
      BY <3>1, <3>2
  <2> QED
    BY <1>8, <2>1 DEF ReadCurrent, At, TypeOK, Customized, PaidFirst, Running
<1>9. CASE Execute(r)
  <2>1. /\ request' \in [Requests -> Request]
        /\ request'[r].pc = "record"
        /\ \A q \in Requests \ {r} : request'[q] = request[q]
    BY <1>9, GotoType DEF Execute
  <2>2. request[r].choice \in Choices /\ payment = "paid"
    BY <1>9 DEF Execute, At, Customized, PaidFirst, Running
  <2>3. grants' \in Seq(Choices)
    BY <1>2, <1>9, <2>2 DEF Execute
  <2> QED
    BY <1>9, <2>1, <2>2, <2>3 DEF Execute, At, TypeOK, Customized, PaidFirst, Running
<1>10. CASE ExecuteFails(r)
  <2>1. /\ request' \in [Requests -> Request]
        /\ request'[r].pc = "fail"
        /\ \A q \in Requests \ {r} : request'[q] = request[q]
    BY <1>10, GotoType DEF ExecuteFails
  <2>2. request[r].choice \in Choices /\ payment = "paid"
    BY <1>10 DEF ExecuteFails, At, Customized, PaidFirst, Running
  <2>3. Append(grants, request[r].choice) \in Seq(Choices)
    BY <1>2, <2>2
  <2>4. grants' \in Seq(Choices)
    BY <1>2, <1>10, <2>3 DEF ExecuteFails
  <2>5. failures' \in 0..MaxFailures
    BY <1>10, PurchaseAssumption DEF ExecuteFails, Fail, TypeOK
  <2> QED
    BY <1>10, <2>1, <2>2, <2>4, <2>5
    DEF ExecuteFails, Overrules, At, TypeOK, Customized, PaidFirst, Running
<1>11. CASE Record(r)
  <2>1. Write("grant_submitted", r) \in Purchase
        /\ Write("grant_submitted", r).choice = doc.choice
    BY WriteType DEF Status
  <2>2. doc' \in Purchase /\ doc'.choice = doc.choice
    BY <1>11, <2>1 DEF Record, Purchase
  <2>3. /\ request' \in [Requests -> Request]
        /\ request'[r].pc = "done"
        /\ \A q \in Requests \ {r} : request'[q] = request[q]
    BY <1>11, GotoType DEF Record
  <2>4. payment = "paid"
    BY <1>11 DEF Record, At, PaidFirst, Running
  <2> QED
    BY <1>11, <2>2, <2>3, <2>4 DEF Record, TypeOK, Customized, PaidFirst, Running
<1>12. CASE RecordFails(r)
  <2>1. [request[r] EXCEPT !.pc = "fail", !.txHash = TRUE] \in Request
    BY <1>1 DEF Request
  <2>2. /\ request' \in [Requests -> Request]
        /\ request'[r].pc = "fail"
        /\ \A q \in Requests \ {r} : request'[q] = request[q]
    BY <1>1, <1>12, <2>1 DEF RecordFails, Request
  <2>3. failures' \in 0..MaxFailures
    BY <1>12, PurchaseAssumption DEF RecordFails, Fail, TypeOK
  <2> QED
    BY <1>12, <2>2, <2>3 DEF RecordFails, At, TypeOK, Customized, PaidFirst, Running
<1>13. CASE SaveFailed(r)
  <2>1. doc' \in Purchase /\ doc'.choice = doc.choice
    BY <1>13, WriteType DEF SaveFailed, Status
  <2>2. /\ request' \in [Requests -> Request]
        /\ request'[r].pc = "done"
        /\ \A q \in Requests \ {r} : request'[q] = request[q]
    BY <1>13, GotoType DEF SaveFailed
  <2>3. payment = "paid"
    BY <1>13 DEF SaveFailed, At, PaidFirst, Running
  <2> QED
    BY <1>13, <2>1, <2>2, <2>3 DEF SaveFailed, TypeOK, Customized, PaidFirst, Running
<1>14. CASE CutShort(r)
  <2>1. /\ request' \in [Requests -> Request]
        /\ request'[r].pc = "cut"
        /\ \A q \in Requests \ {r} : request'[q] = request[q]
    BY <1>14, GotoType DEF CutShort
  <2>2. failures' \in 0..MaxFailures
    BY <1>14, PurchaseAssumption DEF CutShort, Fail, TypeOK
  <2> QED
    BY <1>14, <2>1, <2>2 DEF CutShort, TypeOK, Customized, PaidFirst, Running
<1> QED
  BY <1>3, <1>4, <1>5, <1>6, <1>7, <1>8, <1>9, <1>10, <1>11, <1>12, <1>13, <1>14
  DEF RequestStep, Proceed

LEMMA PurchaseNext == PurchaseInv /\ [Next]_vars => PurchaseInv'
<1> SUFFICES ASSUME PurchaseInv, [Next]_vars PROVE PurchaseInv'
  OBVIOUS
<1>1. CASE Complete
  BY <1>1 DEF Complete, PurchaseInv, TypeOK, Customized, PaidFirst, Running
<1>2. ASSUME NEW w \in Webhooks, Handle(w) \/ Redeliver(w)
      PROVE  PurchaseInv'
  BY <1>2, WebhookStep
<1>3. ASSUME NEW r \in Requests, RequestStep(r)
      PROVE  PurchaseInv'
  BY <1>3, RequestInv
<1>4. CASE Confirm
  <2>1. doc' \in Purchase /\ doc'.choice = doc.choice
    BY <1>4 DEF Confirm, PurchaseInv, TypeOK, Purchase, Status
  <2>2. payment = "paid"
    BY <1>4 DEF Confirm, PurchaseInv, PaidFirst
  <2> QED
    BY <1>4, <2>1, <2>2 DEF Confirm, PurchaseInv, TypeOK, Customized, PaidFirst, Running
<1>5. CASE UNCHANGED vars
  BY <1>5 DEF vars, PurchaseInv, TypeOK, Customized, PaidFirst, Running
<1> QED
  BY <1>1, <1>2, <1>3, <1>4, <1>5 DEF Next

LEMMA PurchaseInvariant == Spec => []PurchaseInv
  BY PurchaseInit, PurchaseNext, PTL DEF Spec

-----------------------------------------------------------------------------

\* Every grant submitted is one of the customizations a player may submit,
\* and every variable keeps its type.
THEOREM PurchaseTypeCorrect == Spec => []TypeOK
<1>1. PurchaseInv => TypeOK
  BY DEF PurchaseInv
<1> QED
  BY <1>1, PurchaseInvariant, PTL

\* No grant before the payment, whatever the number of deliveries and of
\* requests, however they overlap, fail or are cut short.
THEOREM PaidBeforeGrantCorrect == Spec => []PaidBeforeGrant
<1>1. PurchaseInv => PaidBeforeGrant
  BY DEF PurchaseInv, PaidFirst, PaidBeforeGrant
<1> QED
  BY <1>1, PurchaseInvariant, PTL

-----------------------------------------------------------------------------
(* A payment is recorded once.                                             *)

\* A delivery that has read an open checkout finds it open, unless another one has
\* saved since; an open checkout has neither a request nor a grant.
CheckoutOpen ==
    /\ \A w \in Webhooks :
         webhook[w].pc = "save" /\ webhook[w].status = "checkout_created"
           /\ ~webhook[w].overtaken => doc.status = "checkout_created"
    /\ doc.status = "checkout_created" => grants = <<>> /\ \A r \in Requests : ~Running(r)

\* What a request may do to the status: never back to the checkout or to paid.
LEMMA RequestStatus ==
    ASSUME TypeOK, NEW r \in Requests, RequestStep(r)
    PROVE  /\ doc'.status \in {doc.status, "grant_submitting", "grant_submitted",
                                "grant_failed"}
           /\ UNCHANGED <<webhook, payment>>
<1>1. doc \in Purchase
  BY DEF TypeOK
<1>2. CASE Accept(r) \/ Refuse(r) \/ LoseClaim(r) \/ ReadCurrent(r) \/ Execute(r)
           \/ ExecuteFails(r) \/ RecordFails(r) \/ CutShort(r)
  BY <1>2 DEF Accept, Refuse, LoseClaim, ReadCurrent, Execute, ExecuteFails, RecordFails,
              CutShort
<1>3. CASE StoreChoice(r) \/ Claim(r)
  BY <1>1, <1>3 DEF StoreChoice, Claim, Purchase
<1>4. CASE Record(r)
  <2>1. Write("grant_submitted", r) \in Purchase
    BY WriteType DEF Status
  <2>2. doc'.status = Write("grant_submitted", r).status
    BY <1>4, <2>1 DEF Record, Purchase
  <2>3. Write("grant_submitted", r).status \in {doc.status, "grant_submitted"}
    BY <1>1 DEF Write, Purchase
  <2> QED
    BY <1>4, <2>2, <2>3 DEF Record
<1>5. CASE SaveFailed(r)
  <2>1. Write("grant_failed", r).status \in {doc.status, "grant_failed"}
    BY <1>1 DEF Write, Purchase
  <2> QED
    BY <1>5, <2>1 DEF SaveFailed
<1> QED
  BY <1>2, <1>3, <1>4, <1>5 DEF RequestStep, Proceed

\* A request runs only on a purchase that has left the checkout.
LEMMA RequestOpen ==
    ASSUME TypeOK, CheckoutOpen, NEW r \in Requests, RequestStep(r)
    PROVE  CheckoutOpen'
<1>1. doc'.status \in {doc.status, "grant_submitting", "grant_submitted", "grant_failed"}
      /\ UNCHANGED webhook
  BY RequestStatus
<1>2. CASE Running(r)
  BY <1>1, <1>2 DEF CheckoutOpen
<1>3. CASE ~Running(r)
  <2>1. Accept(r) \/ Refuse(r)
    BY <1>3 DEF RequestStep, Proceed, Running, At, StoreChoice, Claim, LoseClaim, ReadCurrent,
                Execute, Record, SaveFailed, ExecuteFails, RecordFails, CutShort
  <2>2. CASE Accept(r)
    BY <2>2 DEF Accept, Claimable, CheckoutOpen
  <2>3. CASE Refuse(r)
    <3>1. /\ request'[r].pc = "done"
          /\ \A q \in Requests \ {r} : request'[q] = request[q]
      BY <2>3, GotoType DEF Refuse
    <3> QED
      BY <2>3, <3>1 DEF Refuse, CheckoutOpen, Running
  <2> QED
    BY <2>1, <2>2, <2>3
<1> QED
  BY <1>2, <1>3

LEMMA DeliveryOpen ==
    ASSUME TypeOK, CheckoutOpen, NEW w \in Webhooks, Handle(w) \/ Redeliver(w)
    PROVE  /\ CheckoutOpen'
           /\ doc'.status = doc.status
              \/ doc.status = "checkout_created" \/ (SaveEvent(w) /\ webhook[w].overtaken)
<1>1. webhook \in [Webhooks -> Delivery] /\ doc \in Purchase
  BY DEF TypeOK
<1>2. CASE ReadPurchase(w)
  <2>1. webhook'[w].status = doc.status /\ UNCHANGED <<doc, request, grants>>
    BY <1>1, <1>2 DEF ReadPurchase
  <2>2. \A v \in Webhooks \ {w} : webhook'[v] = webhook[v]
    BY <1>1, <1>2 DEF ReadPurchase
  <2> QED
    BY <2>1, <2>2 DEF CheckoutOpen, Running
<1>3. CASE SaveEvent(w)
  <2>1. /\ doc'.status = PaidStatus(webhook[w].status, doc.status)
        /\ UNCHANGED <<request, grants>> /\ webhook[w].pc = "save"
    BY <1>1, <1>3 DEF SaveEvent, Purchase
  <2>2. \A v \in Webhooks : webhook'[v].pc = "save" => webhook'[v].overtaken
    BY <1>1, <1>3 DEF SaveEvent, Delivery
  <2>3. doc'.status = "checkout_created" => doc.status = "checkout_created"
    BY <2>1 DEF PaidStatus
  <2>4. doc'.status = doc.status \/ webhook[w].status = "checkout_created"
    BY <2>1 DEF PaidStatus
  <2> QED
    BY <1>3, <2>1, <2>2, <2>3, <2>4 DEF CheckoutOpen, Running
<1>4. CASE Answer(w) \/ Redeliver(w)
  <2>1. webhook'[w].pc # "save" /\ UNCHANGED <<doc, request, grants>>
    BY <1>1, <1>4 DEF Answer, Redeliver, Delivery
  <2>2. \A v \in Webhooks \ {w} : webhook'[v] = webhook[v]
    BY <1>1, <1>4 DEF Answer, Redeliver
  <2> QED
    BY <2>1, <2>2 DEF CheckoutOpen, Running
<1> QED
  BY <1>2, <1>3, <1>4 DEF Handle

LEMMA OpenNext == PurchaseInv /\ CheckoutOpen /\ [Next]_vars => CheckoutOpen'
<1> SUFFICES ASSUME PurchaseInv, CheckoutOpen, [Next]_vars PROVE CheckoutOpen'
  OBVIOUS
<1>1. TypeOK
  BY DEF PurchaseInv
<1>2. CASE Complete
  BY <1>2 DEF Complete, CheckoutOpen, Running
<1>3. ASSUME NEW w \in Webhooks, Handle(w) \/ Redeliver(w)
      PROVE  CheckoutOpen'
  BY <1>1, <1>3, DeliveryOpen
<1>4. ASSUME NEW r \in Requests, RequestStep(r)
      PROVE  CheckoutOpen'
  BY <1>1, <1>4, RequestOpen
<1>5. CASE Confirm
  <2>1. doc'.status = "grant_confirmed"
    BY <1>1, <1>5 DEF Confirm, TypeOK, Purchase
  <2> QED
    BY <1>5, <2>1 DEF Confirm, CheckoutOpen
<1>6. CASE UNCHANGED vars
  BY <1>6 DEF vars, CheckoutOpen, Running
<1> QED
  BY <1>2, <1>3, <1>4, <1>5, <1>6 DEF Next

LEMMA OpenInvariant == Spec => []CheckoutOpen
<1>1. Init => CheckoutOpen
  BY DEF Init, CheckoutOpen, Running
<1> QED
  BY <1>1, OpenNext, PurchaseInvariant, PTL DEF Spec

\* A step back to paid_pending_customization is that of a delivery overtaken by
\* another.
LEMMA PaidStep ==
    PurchaseInv /\ CheckoutOpen /\ [Next]_vars
      => [doc.status \notin {"checkout_created", "paid_pending_customization"}
            /\ doc'.status = "paid_pending_customization"
            => \E w \in Webhooks : SaveEvent(w) /\ webhook[w].overtaken]_vars
<1> DEFINE Step == doc.status \notin {"checkout_created", "paid_pending_customization"}
                     /\ doc'.status = "paid_pending_customization"
                     => \E w \in Webhooks : SaveEvent(w) /\ webhook[w].overtaken
<1> SUFFICES ASSUME PurchaseInv, CheckoutOpen, Next PROVE Step
  OBVIOUS
<1>1. TypeOK
  BY DEF PurchaseInv
<1>2. CASE Complete
  BY <1>2 DEF Complete
<1>3. ASSUME NEW w \in Webhooks, Handle(w) \/ Redeliver(w)
      PROVE  Step
  BY <1>1, <1>3, DeliveryOpen
<1>4. ASSUME NEW r \in Requests, RequestStep(r)
      PROVE  Step
  BY <1>1, <1>4, RequestStatus
<1>5. CASE Confirm
  BY <1>1, <1>5 DEF Confirm, TypeOK, Purchase
<1> QED
  BY <1>2, <1>3, <1>4, <1>5 DEF Next

\* Stripe may deliver an event as often, and as much at once, as it likes: a
\* purchase in progress goes back to paid_pending_customization only by a delivery
\* that another one has overtaken, whatever its requests do.
THEOREM PaidOnceCorrect == Spec => PaidOnce
  BY PaidStep, OpenInvariant, PurchaseInvariant, PTL DEF Spec, PaidOnce

-----------------------------------------------------------------------------
(* A purchase is claimed once.                                             *)

\* The requests between a claim and what they save of it.
Holds(r) == request[r].pc \in {"execute", "record", "fail"}

\* Before any grant one request at most has claimed the purchase, no hash is
\* known, and nothing says that a grant was submitted.
Ungranted ==
    /\ ~doc.txHash /\ doc.status \notin Submitted
    /\ \A r \in Requests : request[r].pc # "record" /\ ~request[r].txHash
    /\ \A r \in Requests : Holds(r) => doc.status = "grant_submitting"
    /\ \A q, r \in Requests : Holds(q) /\ Holds(r) => q = r

\* After it the hash or the status keeps the purchase from being claimed, and
\* what a request is about to save as failed has the hash with it.
Granted ==
    doc.txHash \/ /\ doc.status \in {"grant_submitting"} \cup Submitted
                  /\ \A r \in Requests : request[r].pc = "fail" => request[r].txHash

\* The open checkout has neither a request nor a grant.
Unopened == doc.status = "checkout_created" => grants = <<>> /\ \A r \in Requests : ~Running(r)

Guarded == Unopened /\ (~overruled => IF grants = <<>> THEN Ungranted ELSE Granted)

ClaimInv == PurchaseInv /\ Guarded

LEMMA UnopenedRequest ==
    ASSUME TypeOK, Unopened, NEW r \in Requests, RequestStep(r)
    PROVE  Unopened'
<1>1. doc'.status \in {doc.status, "grant_submitting", "grant_submitted", "grant_failed"}
  BY RequestStatus
<1>2. CASE Running(r)
  BY <1>1, <1>2 DEF Unopened
<1>3. CASE ~Running(r)
  <2>1. Accept(r) \/ Refuse(r)
    BY <1>3 DEF RequestStep, Proceed, Running, At, StoreChoice, Claim, LoseClaim, ReadCurrent,
                Execute, Record, SaveFailed, ExecuteFails, RecordFails, CutShort
  <2>2. CASE Accept(r)
    BY <2>2 DEF Accept, Claimable, Unopened
  <2>3. CASE Refuse(r)
    <3>1. /\ request'[r].pc = "done"
          /\ \A q \in Requests \ {r} : request'[q] = request[q]
      BY <2>3, GotoType DEF Refuse
    <3> QED
      BY <2>3, <3>1 DEF Refuse, Unopened, Running
  <2> QED
    BY <2>1, <2>2, <2>3
<1> QED
  BY <1>2, <1>3

\* A request that neither claims nor submits nor saves leaves both as they are.
LEMMA GuardedAside ==
    ASSUME ~overruled => IF grants = <<>> THEN Ungranted ELSE Granted,
           UNCHANGED <<grants, overruled>>,
           doc'.status = doc.status, doc'.txHash = doc.txHash,
           NEW r \in Requests,
           request'[r].pc \notin {"execute", "record", "fail"},
           grants = <<>> => ~request'[r].txHash,
           \A q \in Requests \ {r} : request'[q] = request[q]
    PROVE  (~overruled => IF grants = <<>> THEN Ungranted ELSE Granted)'
<1>1. CASE grants = <<>>
  BY <1>1 DEF Ungranted, Holds
<1>2. CASE grants # <<>>
  BY <1>2 DEF Granted
<1> QED
  BY <1>1, <1>2

LEMMA GuardedRequest ==
    ASSUME ClaimInv, NEW r \in Requests, RequestStep(r)
    PROVE  Guarded'
<1>1. /\ TypeOK /\ Unopened /\ (~overruled => IF grants = <<>> THEN Ungranted ELSE Granted)
      /\ doc \in Purchase /\ request \in [Requests -> Request] /\ request[r] \in Request
      /\ grants \in Seq(Choices)
  BY DEF ClaimInv, PurchaseInv, Guarded, TypeOK
<1>2. Unopened'
  BY <1>1, UnopenedRequest
<1> SUFFICES (~overruled => IF grants = <<>> THEN Ungranted ELSE Granted)'
  BY <1>2 DEF Guarded
<1>3. CASE Accept(r)
  <2>1. PICK choice \in Choices :
          request' = [request EXCEPT ![r] = [pc |-> "store", choice |-> choice,
                                             status |-> doc.status, txHash |-> FALSE]]
    BY <1>3 DEF Accept
  <2>2. /\ request'[r].pc = "store" /\ request'[r].txHash = FALSE
        /\ \A q \in Requests \ {r} : request'[q] = request[q]
    BY <1>1, <2>1
  <2> QED
    BY <1>1, <1>3, <2>2, GuardedAside DEF Accept
<1>4. CASE Refuse(r) \/ LoseClaim(r) \/ CutShort(r) \/ StoreChoice(r)
  <2>1. PICK pc \in {"done", "cut", "current", "claim"} : request' = [request EXCEPT ![r].pc = pc]
    BY <1>4 DEF Refuse, LoseClaim, CutShort, StoreChoice
  <2>2. /\ request'[r].pc = pc /\ request'[r].txHash = request[r].txHash
        /\ \A q \in Requests \ {r} : request'[q] = request[q]
    BY <1>1, <2>1
  <2>3. UNCHANGED <<grants, overruled>> /\ doc'.status = doc.status /\ doc'.txHash = doc.txHash
    BY <1>1, <1>4 DEF Refuse, LoseClaim, CutShort, StoreChoice, Purchase
  <2>4. CASE overruled
    BY <2>3, <2>4
  <2>5. CASE ~overruled /\ grants = <<>>
    <3>1. ~request'[r].txHash
      BY <1>1, <2>2, <2>5 DEF Ungranted
    <3> QED
      BY <1>1, <2>2, <2>3, <3>1, GuardedAside
  <2>6. CASE ~overruled /\ grants # <<>>
    BY <1>1, <2>2, <2>3, <2>6, GuardedAside
  <2> QED
    BY <2>4, <2>5, <2>6
<1>5. CASE Claim(r)
  <2>1. /\ doc' \in Purchase /\ doc'.status = "grant_submitting" /\ doc'.txHash = doc.txHash
        /\ doc.status \in Claimable /\ ~doc.txHash /\ UNCHANGED <<grants, overruled>>
    BY <1>1, <1>5 DEF Claim, MayClaim, Purchase, Status
  <2>2. /\ request'[r].pc = "execute" /\ request'[r].txHash = FALSE
        /\ \A q \in Requests \ {r} : request'[q] = request[q]
    <3>1. request' = Holding(r, doc')
      BY <1>5 DEF Claim
    <3> QED
      BY <1>1, <3>1 DEF Holding
  <2>3. CASE ~overruled
    <3>1. grants = <<>> /\ Ungranted
      BY <1>1, <2>1, <2>3 DEF Granted, Claimable, Submitted
    <3>2. \A q \in Requests : ~Holds(q)
      BY <2>1, <3>1 DEF Ungranted, Claimable
    <3>3. \A q \in Requests \ {r} : ~Holds(q)'
      BY <2>2, <3>2 DEF Holds
    <3>4. Ungranted'
      BY <2>1, <2>2, <3>1, <3>3 DEF Ungranted, Submitted, Holds
    <3> QED
      BY <2>1, <3>1, <3>4
  <2> QED
    BY <2>1, <2>3
<1>6. CASE ReadCurrent(r)
  <2>1. UNCHANGED <<doc, grants, overruled>>
    BY <1>6 DEF ReadCurrent
  <2>2. CASE doc.status \notin Submitted /\ ~overruled
    <3>1. /\ request'[r].pc = "done" /\ request'[r].txHash = request[r].txHash
          /\ \A q \in Requests \ {r} : request'[q] = request[q]
      BY <1>1, <1>6, <2>2 DEF ReadCurrent
    <3>2. grants = <<>> => ~request'[r].txHash
      BY <1>1, <2>2, <3>1 DEF Ungranted
    <3> QED
      BY <1>1, <2>1, <3>1, <3>2, GuardedAside
  <2>3. CASE doc.status \in Submitted
    <3>1. /\ request'[r].pc = "execute"
          /\ \A q \in Requests \ {r} : request'[q] = request[q]
      <4>1. request' = Holding(r, doc)
        BY <1>6, <2>3 DEF ReadCurrent
      <4> QED
        BY <1>1, <4>1 DEF Holding
    <3>2. ~overruled => grants # <<>> /\ Granted
      BY <1>1, <2>3 DEF Ungranted
    <3>3. ~overruled => Granted'
      BY <2>1, <3>1, <3>2 DEF Granted
    <3> QED
      BY <2>1, <3>2, <3>3
  <2> QED
    BY <2>1, <2>2, <2>3
<1>7. CASE Execute(r)
  <2>1. /\ request'[r].pc = "record"
        /\ \A q \in Requests \ {r} : request'[q] = request[q]
        /\ UNCHANGED <<doc, overruled>> /\ request[r].pc = "execute"
    BY <1>1, <1>7, GotoType DEF Execute, At
  <2>2. grants' # <<>>
    BY <1>1, <1>7 DEF Execute
  <2>3. ~overruled => Granted'
    <3>1. CASE grants = <<>> /\ ~overruled
      <4>1. doc.status = "grant_submitting" /\ \A q \in Requests \ {r} : ~Holds(q)
        BY <1>1, <2>1, <3>1 DEF Ungranted, Holds
      <4> QED
        BY <2>1, <4>1 DEF Granted, Holds
    <3>2. CASE grants # <<>> /\ ~overruled
      BY <1>1, <2>1, <3>2 DEF Granted
    <3> QED
      BY <3>1, <3>2
  <2> QED
    BY <2>1, <2>2, <2>3
<1>8. CASE ExecuteFails(r)
  <2>1. /\ request'[r].pc = "fail" /\ request'[r].txHash = request[r].txHash
        /\ \A q \in Requests \ {r} : request'[q] = request[q]
        /\ doc' = doc /\ request[r].pc = "execute"
        /\ overruled' = (overruled \/ (grants' # <<>> /\ ~doc.txHash))
    BY <1>1, <1>8 DEF ExecuteFails, At, Overrules
  <2>2. CASE grants' = <<>>
    <3>1. grants = <<>>
      BY <1>1, <1>8, <2>2 DEF ExecuteFails
    <3>2. ~overruled => Ungranted'
      BY <1>1, <2>1, <3>1 DEF Ungranted, Holds
    <3> QED
      BY <2>1, <2>2, <3>2
  <2>3. CASE grants' # <<>>
    BY <2>1, <2>3 DEF Granted
  <2> QED
    BY <2>2, <2>3
<1>9. CASE Record(r)
  <2>1. Write("grant_submitted", r) \in Purchase
    BY <1>1, WriteType DEF Status
  <2>2. doc'.txHash /\ UNCHANGED <<grants, overruled>> /\ request[r].pc = "record"
    BY <1>9, <2>1 DEF Record, Purchase, At
  <2>3. ~overruled => grants # <<>>
    BY <1>1, <2>2 DEF Ungranted
  <2> QED
    BY <2>2, <2>3 DEF Granted
<1>10. CASE RecordFails(r)
  <2>1. /\ request'[r].pc = "fail" /\ request'[r].txHash
        /\ \A q \in Requests \ {r} : request'[q] = request[q]
        /\ UNCHANGED <<doc, grants, overruled>> /\ request[r].pc = "record"
    BY <1>1, <1>10 DEF RecordFails, Request, At
  <2>2. ~overruled => grants # <<>> /\ Granted
    BY <1>1, <2>1 DEF Ungranted
  <2>3. ~overruled => Granted'
    BY <2>1, <2>2 DEF Granted
  <2> QED
    BY <2>1, <2>2, <2>3
<1>11. CASE SaveFailed(r)
  <2>1. /\ doc'.txHash = (doc.txHash \/ request[r].txHash)
        /\ doc'.status \in {doc.status, "grant_failed"}
        /\ UNCHANGED <<grants, overruled>> /\ request[r].pc = "fail"
    BY <1>1, <1>11 DEF SaveFailed, Write, Purchase, At
  <2>2. /\ request'[r].pc = "done" /\ request'[r].txHash = request[r].txHash
        /\ \A q \in Requests \ {r} : request'[q] = request[q]
    BY <1>1, <1>11 DEF SaveFailed
  <2>3. CASE grants = <<>> /\ ~overruled
    <3>1. Ungranted /\ \A q \in Requests \ {r} : ~Holds(q)
      BY <1>1, <2>1, <2>3 DEF Ungranted, Holds
    <3>2. \A q \in Requests : ~Holds(q)'
      BY <2>2, <3>1 DEF Holds
    <3>3. Ungranted'
      BY <2>1, <2>2, <3>1, <3>2 DEF Ungranted, Submitted, Holds
    <3> QED
      BY <2>1, <2>3, <3>3
  <2>4. CASE grants # <<>> /\ ~overruled
    <3>1. doc'.txHash
      BY <1>1, <2>1, <2>4 DEF Granted
    <3> QED
      BY <2>1, <2>4, <3>1 DEF Granted
  <2> QED
    BY <2>1, <2>3, <2>4
<1> QED
  BY <1>2, <1>3, <1>4, <1>5, <1>6, <1>7, <1>8, <1>9, <1>10, <1>11
  DEF RequestStep, Proceed

\* A delivery that changes the status leaves the checkout, or puts back a purchase
\* that has failed before any grant or has its hash saved; or it overrules.
LEMMA GuardedDelivery ==
    ASSUME ClaimInv, NEW w \in Webhooks, Handle(w) \/ Redeliver(w)
    PROVE  Guarded'
<1>1. /\ TypeOK /\ Unopened /\ (~overruled => IF grants = <<>> THEN Ungranted ELSE Granted)
      /\ doc \in Purchase
  BY DEF ClaimInv, PurchaseInv, Guarded, TypeOK
<1>2. UNCHANGED <<grants, request>>
  BY DEF Handle, ReadPurchase, SaveEvent, Answer, Redeliver
<1>3. CASE SaveEvent(w)
  <2> DEFINE back == /\ doc'.status # doc.status
                     /\ doc.status \notin Claimable \cup {"checkout_created"}
  <2>1. /\ doc'.status = PaidStatus(webhook[w].status, doc.status)
        /\ doc'.txHash = doc.txHash
        /\ overruled' = (overruled \/ (back /\ ~doc.txHash))
    BY <1>1, <1>3 DEF SaveEvent, Purchase, Overrules
  <2>2. doc'.status = doc.status \/ doc'.status = "paid_pending_customization"
    BY <2>1 DEF PaidStatus
  <2>3. Unopened'
    BY <1>1, <1>2, <2>2 DEF Unopened, Running
  <2>4. CASE grants = <<>> /\ ~overruled'
    <3>1. Ungranted /\ ~doc.txHash /\ ~back
      BY <1>1, <2>1, <2>4 DEF Ungranted
    <3>2. doc'.status = doc.status \/ \A r \in Requests : ~Holds(r)
      BY <3>1 DEF Ungranted, Claimable
    <3>3. Ungranted'
      BY <1>2, <2>1, <2>2, <3>1, <3>2 DEF Ungranted, Holds, Submitted
    <3> QED
      BY <1>2, <2>3, <2>4, <3>3 DEF Guarded
  <2>5. CASE grants # <<>> /\ ~overruled'
    <3>1. Granted /\ (doc.txHash \/ ~back)
      BY <1>1, <2>1, <2>5
    <3>2. doc.txHash \/ doc'.status = doc.status
      BY <3>1 DEF Granted, Claimable, Submitted
    <3>3. Granted'
      BY <1>2, <2>1, <3>1, <3>2 DEF Granted
    <3> QED
      BY <1>2, <2>3, <2>5, <3>3 DEF Guarded
  <2> QED
    BY <2>3, <2>4, <2>5 DEF Guarded
<1>4. CASE ~SaveEvent(w)
  <2>1. UNCHANGED <<doc, overruled>>
    BY <1>4 DEF Handle, ReadPurchase, Answer, Redeliver
  <2> QED
    BY <1>1, <1>2, <2>1 DEF Guarded, Unopened, Ungranted, Granted, Running, Holds
<1> QED
  BY <1>3, <1>4

LEMMA GuardedNext == ClaimInv /\ [Next]_vars => Guarded'
<1> SUFFICES ASSUME ClaimInv, [Next]_vars PROVE Guarded'
  OBVIOUS
<1>1. TypeOK /\ Guarded
  BY DEF ClaimInv, PurchaseInv
<1> USE DEF Guarded, Unopened, Ungranted, Granted, Running, Holds
<1>2. CASE Complete
  BY <1>1, <1>2 DEF Complete
<1>3. ASSUME NEW w \in Webhooks, Handle(w) \/ Redeliver(w)
      PROVE  Guarded'
  BY <1>3, GuardedDelivery
<1>4. ASSUME NEW r \in Requests, RequestStep(r)
      PROVE  Guarded'
  BY <1>4, GuardedRequest
<1>5. CASE Confirm
  <2>1. /\ doc'.status = "grant_confirmed" /\ doc'.txHash = doc.txHash
        /\ UNCHANGED <<request, grants, overruled>> /\ grants # <<>>
    BY <1>1, <1>5 DEF Confirm, TypeOK, Purchase
  <2> QED
    BY <1>1, <2>1 DEF Submitted
<1>6. CASE UNCHANGED vars
  BY <1>1, <1>6 DEF vars
<1> QED
  BY <1>2, <1>3, <1>4, <1>5, <1>6 DEF Next

\* A step that claims a purchase finds no grant submitted.
LEMMA ClaimedStep ==
    ClaimInv /\ [Next]_vars
      => [~overruled /\ doc.status # "grant_submitting" /\ doc'.status = "grant_submitting"
            => grants = <<>>]_vars
<1> SUFFICES ASSUME ClaimInv, Next, ~overruled, doc.status # "grant_submitting",
                    doc'.status = "grant_submitting"
             PROVE  grants = <<>>
  OBVIOUS
<1>1. TypeOK /\ (IF grants = <<>> THEN Ungranted ELSE Granted) /\ doc \in Purchase
  BY DEF ClaimInv, PurchaseInv, Guarded, TypeOK
<1>2. CASE Complete
  BY <1>2 DEF Complete
<1>3. ASSUME NEW w \in Webhooks, Handle(w) \/ Redeliver(w)
      PROVE  FALSE
  BY <1>1, <1>3 DEF Handle, ReadPurchase, SaveEvent, Answer, Redeliver, PaidStatus, Purchase
<1>4. ASSUME NEW r \in Requests, RequestStep(r)
      PROVE  grants = <<>>
  <2>1. CASE Claim(r)
    BY <1>1, <2>1 DEF Claim, MayClaim, Granted, Claimable, Submitted
  <2>2. CASE Record(r)
    <3>1. Write("grant_submitted", r) \in Purchase
      BY <1>1, WriteType DEF Status
    <3>2. doc'.status \in {doc.status, "grant_submitted"}
      BY <1>1, <2>2, <3>1 DEF Record, Write, Purchase
    <3> QED
      BY <3>2
  <2>3. CASE SaveFailed(r)
    BY <1>1, <2>3 DEF SaveFailed, Write, Purchase
  <2>4. CASE StoreChoice(r)
    BY <1>1, <2>4 DEF StoreChoice, Purchase
  <2> QED
    BY <1>4, <2>1, <2>2, <2>3, <2>4
    DEF RequestStep, Proceed, Accept, Refuse, LoseClaim, ReadCurrent, Execute,
        ExecuteFails, RecordFails, CutShort
<1>5. CASE Confirm
  BY <1>1, <1>5 DEF Confirm, Purchase
<1> QED
  BY <1>2, <1>3, <1>4, <1>5 DEF Next

LEMMA GuardedInit == Init => Guarded
BY DEF Init, Guarded, Unopened, Ungranted, Submitted, Holds, Running

\* A purchase whose grant was submitted is not claimed again, however requests
\* overlap, fail, lose their answers or are cut short and whenever events are
\* delivered and the grant confirmed (claimPurchaseForSubmission, submitGrant),
\* unless the purchase was overruled before: by an execute that answers with an
\* error, or a late delivery, while a grant is on its way and its hash not saved.
THEOREM ClaimedOnceCorrect == Spec => ClaimedOnce
<1> DEFINE Step ==
      ~overruled /\ doc.status # "grant_submitting" /\ doc'.status = "grant_submitting"
        => grants = <<>>
<1>1. ClaimInv /\ [Next]_vars => [Step]_vars
  BY ClaimedStep
<1>2. ClaimInv <=> PurchaseInv /\ Guarded
  BY DEF ClaimInv
<1> QED
  BY GuardedInit, GuardedNext, <1>1, <1>2, PurchaseInvariant, PTL DEF Spec, ClaimedOnce
=============================================================================
