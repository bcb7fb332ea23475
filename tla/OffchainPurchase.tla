-------------------------- MODULE OffchainPurchase --------------------------
(***************************************************************************)
(* One starter pack purchase paid through Stripe, from the open checkout   *)
(* to the confirmed grant (services/StarterPackPurchase.js, and with the   *)
(* same handlers services/CrewmatePurchase.js).  Webhook deliveries,       *)
(* customization requests and the indexer update its document; a save of   *)
(* Mongoose writes the changed paths only, whatever the document holds.    *)
(* The checkout session is saved before its client secret is returned, so  *)
(* the payment of a purchase finds its session and its externalRef.        *)
(***************************************************************************)
EXTENDS Integers, Sequences

CONSTANTS
    Webhooks,       \* deliveries of checkout.session.completed handled at once
    Requests,       \* customization requests
    Choices,        \* customizations a player may submit
    Overlapping,    \* whether a request may start while another one runs
    Restarts,       \* whether a request may be cut short
    LostReplies,    \* whether a grant whose submission fails may be on its way
    MaxFailures,    \* bound: failures of saves, submissions and requests
    None

ASSUME PurchaseAssumption ==
    /\ Overlapping \in BOOLEAN
    /\ Restarts \in BOOLEAN
    /\ LostReplies \in BOOLEAN
    /\ MaxFailures \in Nat
    /\ None \notin Choices

VARIABLES
    payment,        \* payment_status of the completed checkout, "open" before
    doc,            \* the StarterPackPurchase document
    webhook,        \* the state of each delivery, and the status it has read; overtaken
                    \* is history: another delivery has saved since
    request,        \* the state of each request, and what it has read
    grants,         \* the customizations of the grants submitted to Starknet
    indexed,        \* whether OffchainStarterPackGranted has been processed
    failures,       \* failures so far
    overruled       \* history: see Overrules

vars == <<payment, doc, webhook, request, grants, indexed, failures, overruled>>

Status == {"checkout_created", "paid_pending_customization", "grant_submitting",
           "grant_submitted", "grant_confirmed", "grant_failed"}

\* The statuses a customization is accepted in, and a grant claimed from.
Claimable == {"paid_pending_customization", "grant_failed"}

\* The statuses of a purchase whose grant is on its way.
Submitted == {"grant_submitted", "grant_confirmed"}

Purchase == [status : Status, txHash : BOOLEAN, choice : Choices \cup {None}]

Delivery == [pc : {"waiting", "save", "answer", "acknowledged"}, status : Status,
             overtaken : BOOLEAN]

\* txHash says that the local document holds the hash of the grant submitted.
Request == [pc : {"start", "store", "claim", "current", "execute", "record", "fail", "done",
                  "cut"},
            choice : Choices \cup {None}, status : Status, txHash : BOOLEAN]

TypeOK ==
    /\ payment \in {"open", "unpaid", "paid"}
    /\ doc \in Purchase
    /\ webhook \in [Webhooks -> Delivery]
    /\ request \in [Requests -> Request]
    /\ grants \in Seq(Choices)
    /\ indexed \in BOOLEAN
    /\ failures \in 0..MaxFailures
    /\ overruled \in BOOLEAN

Init ==
    /\ payment = "open"
    /\ doc = [status |-> "checkout_created", txHash |-> FALSE, choice |-> None]
    /\ webhook = [w \in Webhooks |-> [pc |-> "waiting", status |-> "checkout_created",
                                      overtaken |-> FALSE]]
    /\ request = [r \in Requests |-> [pc |-> "start", choice |-> None,
                                      status |-> "checkout_created", txHash |-> FALSE]]
    /\ grants = <<>>
    /\ indexed = FALSE
    /\ failures = 0
    /\ overruled = FALSE

Fail ==
    /\ failures < MaxFailures
    /\ failures' = failures + 1

\* Whether a step has the server take a purchase for not submitted, against what
\* was done for it, while no hash of a grant is saved that would say otherwise.
Overrules(step) == overruled' = (overruled \/ (step /\ ~doc.txHash))

-----------------------------------------------------------------------------
\* Stripe and its webhook

\* The customer completes the checkout; a delayed payment method has yet to pay.
Complete ==
    /\ payment = "open"
    /\ payment' \in {"unpaid", "paid"}
    /\ UNCHANGED <<doc, webhook, request, grants, indexed, failures, overruled>>

\* handleCheckoutSessionCompleted up to listLineItems.
ReadPurchase(w) ==
    /\ payment # "open"
    /\ webhook[w].pc = "waiting"
    /\ webhook' = [webhook EXCEPT ![w] = [pc |-> "save", status |-> doc.status,
                                             overtaken |-> FALSE]]
    /\ UNCHANGED <<payment, doc, request, grants, indexed, failures, overruled>>

\* The save of the webhook: the status only if it was read as checkout_created.
PaidStatus_Unguarded(read, current) ==              \* mutant: whatever the status read
    IF payment = "paid" THEN "paid_pending_customization" ELSE current
PaidStatus_AnyPayment(read, current) ==             \* mutant: without the payment_status
    IF read = "checkout_created" THEN "paid_pending_customization" ELSE current
PaidStatus(read, current) ==
    IF payment = "paid" /\ read = "checkout_created"
    THEN "paid_pending_customization"
    ELSE current

SaveEvent(w) ==
    /\ webhook[w].pc = "save"
    /\ doc' = [doc EXCEPT !.status = PaidStatus(webhook[w].status, doc.status)]
    /\ webhook' = [v \in Webhooks |->
                     IF v = w THEN [webhook[v] EXCEPT !.pc = "answer"]
                     ELSE [webhook[v] EXCEPT !.overtaken = @ \/ webhook[v].pc = "save"]]
    /\ Overrules(doc'.status # doc.status
                   /\ doc.status \notin Claimable \cup {"checkout_created"})
    /\ UNCHANGED <<payment, request, grants, indexed, failures>>

Answer(w) ==
    /\ webhook[w].pc = "answer"
    /\ webhook' = [webhook EXCEPT ![w].pc = "acknowledged"]
    /\ UNCHANGED <<payment, doc, request, grants, indexed, failures, overruled>>

\* Without a 2xx answer, Stripe delivers the event again.
Redeliver_Never(w) ==                               \* mutant: the error answered with 200
    /\ webhook[w].pc \in {"save", "answer"}
    /\ Fail
    /\ webhook' = [webhook EXCEPT ![w].pc = "acknowledged"]
    /\ UNCHANGED <<payment, doc, request, grants, indexed, overruled>>
Redeliver(w) ==
    /\ webhook[w].pc \in {"save", "answer"}
    /\ Fail
    /\ webhook' = [webhook EXCEPT ![w].pc = "waiting"]
    /\ UNCHANGED <<payment, doc, request, grants, indexed, overruled>>

-----------------------------------------------------------------------------
\* completeGrantRequest and submitGrant

At(r, pc) == request[r].pc = pc

Running(r) == request[r].pc \notin {"start", "done", "cut"}

MayStart(r) ==
    /\ At(r, "start")
    /\ Overlapping \/ \A q \in Requests : ~Running(q)

Accept(r) ==
    /\ MayStart(r)
    /\ doc.status \in Claimable
    /\ \E choice \in Choices :
         request' = [request EXCEPT ![r] = [pc |-> "store", choice |-> choice,
                                            status |-> doc.status, txHash |-> FALSE]]
    /\ UNCHANGED <<payment, doc, webhook, grants, indexed, failures, overruled>>

\* Not paid, or submitted already.
Refuse(r) ==
    /\ MayStart(r)
    /\ doc.status \notin Claimable
    /\ request' = [request EXCEPT ![r].pc = "done"]
    /\ UNCHANGED <<payment, doc, webhook, grants, indexed, failures, overruled>>

StoreChoice_NotSaved(r) ==                          \* mutant: without the save
    /\ At(r, "store")
    /\ request' = [request EXCEPT ![r].pc = "claim"]
    /\ UNCHANGED <<payment, doc, webhook, grants, indexed, failures, overruled>>
StoreChoice(r) ==
    /\ At(r, "store")
    /\ doc' = [doc EXCEPT !.choice = request[r].choice]
    /\ request' = [request EXCEPT ![r].pc = "claim"]
    /\ UNCHANGED <<payment, webhook, grants, indexed, failures, overruled>>

\* The document as read back by a request that goes on to submit its grant.
Holding(r, purchase) ==
    [request EXCEPT ![r] = [pc |-> "execute", choice |-> purchase.choice,
                            status |-> purchase.status, txHash |-> FALSE]]

MayClaim == doc.status \in Claimable /\ ~doc.txHash

\* claimPurchaseForSubmission: findOneAndUpdate.
Claim(r) ==
    /\ At(r, "claim")
    /\ MayClaim
    /\ doc' = [doc EXCEPT !.status = "grant_submitting"]
    /\ request' = Holding(r, doc')
    /\ UNCHANGED <<payment, webhook, grants, indexed, failures, overruled>>

LoseClaim(r) ==
    /\ At(r, "claim")
    /\ ~MayClaim
    /\ request' = [request EXCEPT ![r].pc = "current"]
    /\ UNCHANGED <<payment, doc, webhook, grants, indexed, failures, overruled>>

\* findById: submitGrant goes on with a submitted purchase as with a claim.
ReadCurrent(r) ==
    /\ At(r, "current")
    /\ request' = IF doc.status \in Submitted THEN Holding(r, doc)
                  ELSE [request EXCEPT ![r].pc = "done"]
    /\ UNCHANGED <<payment, doc, webhook, grants, indexed, failures, overruled>>

Execute(r) ==
    /\ At(r, "execute")
    /\ grants' = Append(grants, request[r].choice)
    /\ request' = [request EXCEPT ![r].pc = "record"]
    /\ UNCHANGED <<payment, doc, webhook, indexed, failures, overruled>>

\* The account cannot be set up, or execute is answered with an error.
ExecuteFails(r) ==
    /\ At(r, "execute")
    /\ Fail
    /\ request' = [request EXCEPT ![r].pc = "fail"]
    /\ grants' \in {grants} \cup (IF LostReplies THEN {Append(grants, request[r].choice)} ELSE {})
    /\ Overrules(grants' # <<>>)
    /\ UNCHANGED <<payment, doc, webhook, indexed>>

\* The paths the local document has changed, written to the stored one.
Write(status, r) ==
    [doc EXCEPT !.status = IF request[r].status = status THEN doc.status ELSE status,
                !.txHash = doc.txHash \/ request[r].txHash]

Record(r) ==
    /\ At(r, "record")
    /\ doc' = [Write("grant_submitted", r) EXCEPT !.txHash = TRUE]
    /\ request' = [request EXCEPT ![r].pc = "done"]
    /\ UNCHANGED <<payment, webhook, grants, indexed, failures, overruled>>

\* The save fails: its changes stay in the local document.
RecordFails_HashLost(r) ==                          \* mutant: the hash is not kept
    /\ At(r, "record")
    /\ Fail
    /\ request' = [request EXCEPT ![r].pc = "fail"]
    /\ UNCHANGED <<payment, doc, webhook, grants, indexed, overruled>>
RecordFails(r) ==
    /\ At(r, "record")
    /\ Fail
    /\ request' = [request EXCEPT ![r].pc = "fail", ![r].txHash = TRUE]
    /\ UNCHANGED <<payment, doc, webhook, grants, indexed, overruled>>

\* The catch block.
SaveFailed_Skipped(r) ==                            \* mutant: the failure is not saved
    /\ At(r, "fail")
    /\ request' = [request EXCEPT ![r].pc = "done"]
    /\ UNCHANGED <<payment, doc, webhook, grants, indexed, failures, overruled>>
SaveFailed(r) ==
    /\ At(r, "fail")
    /\ doc' = Write("grant_failed", r)
    /\ request' = [request EXCEPT ![r].pc = "done"]
    /\ UNCHANGED <<payment, webhook, grants, indexed, failures, overruled>>

\* The server restarts, or a save outside the try block fails.
CutShort(r) ==
    /\ Restarts
    /\ Running(r)
    /\ Fail
    /\ request' = [request EXCEPT ![r].pc = "cut"]
    /\ UNCHANGED <<payment, doc, webhook, grants, indexed, overruled>>

-----------------------------------------------------------------------------

\* The indexer handles OffchainStarterPackGranted of the first grant.
Confirm ==
    /\ grants # <<>>
    /\ ~indexed
    /\ indexed' = TRUE
    /\ doc' = [doc EXCEPT !.status = "grant_confirmed"]
    /\ UNCHANGED <<payment, webhook, request, grants, failures, overruled>>

Handle(w) == ReadPurchase(w) \/ SaveEvent(w) \/ Answer(w)

Proceed(r) ==
    \/ StoreChoice(r)
    \/ Claim(r)
    \/ LoseClaim(r)
    \/ ReadCurrent(r)
    \/ Execute(r)
    \/ Record(r)
    \/ SaveFailed(r)

RequestStep(r) ==
    \/ Accept(r)
    \/ Refuse(r)
    \/ Proceed(r)
    \/ ExecuteFails(r)
    \/ RecordFails(r)
    \/ CutShort(r)

Next ==
    \/ Complete
    \/ \E w \in Webhooks : Handle(w) \/ Redeliver(w)
    \/ \E r \in Requests : RequestStep(r)
    \/ Confirm

Spec == Init /\ [][Next]_vars

\* Stripe delivers an event until it is answered, and the server carries on
\* with what it has begun; customers and Starknet may take for ever.
FairSpec ==
    /\ Spec
    /\ \A w \in Webhooks : WF_vars(Handle(w))
    /\ \A r \in Requests : WF_vars(Proceed(r))

-----------------------------------------------------------------------------

\* No grant is submitted for a checkout that has not been paid: neither while
\* it is open, nor when a delayed payment method completed it (the checks of
\* payment_status and of the status of the purchase, several requests apart).
PaidBeforeGrant == grants # <<>> => payment = "paid"

\* The grant of a purchase is submitted once.
GrantSubmittedOnce == Len(grants) <= 1

\* However often the player asks, however the requests overlap, and whatever
\* fails or is cut short on the way, a purchase is not claimed again once its
\* grant was submitted (the filter of claimPurchaseForSubmission, and txHash
\* saved with grant_failed).  Only two things make it: an execute that answers
\* with an error while a grant whose hash is not saved is on its way, be it its
\* own, and a delivery that puts a claimed purchase back to paid.
ClaimedOnce ==
    [][~overruled /\ doc.status # "grant_submitting" /\ doc'.status = "grant_submitting"
         => grants = <<>>]_vars

\* Once the server has come to rest, a purchase whose grant was indexed shows
\* grant_confirmed, the status the client waits for.
ConfirmedWhenIndexed ==
    indexed /\ (\A r \in Requests : ~Running(r)) => doc.status = "grant_confirmed"

\* A redelivered event leaves a purchase in progress alone, although the webhook
\* saves what it concluded from a status read before a call to Stripe: it puts the
\* purchase back to paid_pending_customization only where another delivery has
\* recorded the payment in the meantime.
PaidOnce ==
    [][doc.status \notin {"checkout_created", "paid_pending_customization"}
         /\ doc'.status = "paid_pending_customization"
         => \E w \in Webhooks : SaveEvent(w) /\ webhook[w].overtaken]_vars

\* A paid checkout is recorded, however often its event must be delivered.
PaidRecorded == payment = "paid" ~> doc.status # "checkout_created"

\* Unless a request is cut short, a submission leaves the purchase submitted or
\* failed, never waiting in grant_submitting, which no request is accepted in.
SubmissionEnds ==
    doc.status = "grant_submitting"
      ~> doc.status # "grant_submitting" \/ \E r \in Requests : At(r, "cut")
=============================================================================
