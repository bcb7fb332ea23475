-------------------------- MODULE CrewmatePurchase --------------------------
(***************************************************************************)
(* One crewmate purchase (services/CrewmatePurchase.js): the steps of       *)
(* OffchainPurchase on the document of another collection, except that a    *)
(* request waits for the ownership of its crew to be looked up before the   *)
(* customization is stored, and may end there.                              *)
(***************************************************************************)
EXTENDS OffchainPurchase

\* createCheckoutSession: the document is created, then the Stripe session,
\* whose identifiers are saved before the player gets its secret.
CrewmateInit == Init

\* handleCheckoutSessionCompleted, behind the handler of all webhooks.
CrewmateWebhook(w) == Handle(w) \/ Redeliver(w)

\* completeGrantRequest up to the validation of the request.
ReceiveRequest(r) == Accept(r) \/ Refuse(r)

\* validateCrewOwnership: the indexed owner of the crew is somebody else.
RefuseCrew(r) ==
    /\ At(r, "store")
    /\ request' = [request EXCEPT ![r].pc = "done"]
    /\ UNCHANGED <<payment, doc, webhook, grants, indexed, failures, overruled>>

\* The rest of completeGrantRequest up to submitGrant.
StoreRequest(r) == RefuseCrew(r) \/ StoreChoice(r)

\* claimPurchaseForSubmission.
ClaimPurchase(r) == Claim(r) \/ LoseClaim(r) \/ ReadCurrent(r)

\* submitGrant, from the claim to one of its two saves.
SubmitGrant(r) ==
    \/ Execute(r)
    \/ ExecuteFails(r)
    \/ Record(r)
    \/ RecordFails(r)
    \/ SaveFailed(r)

\* The indexer handles OffchainCrewmateGranted.
ConfirmCrewmate == Confirm

CrewmateNext ==
    \/ Complete
    \/ \E w \in Webhooks : CrewmateWebhook(w)
    \/ \E r \in Requests :
         ReceiveRequest(r) \/ StoreRequest(r) \/ ClaimPurchase(r) \/ SubmitGrant(r)
           \/ CutShort(r)
    \/ ConfirmCrewmate

CrewmateSpec == CrewmateInit /\ [][CrewmateNext]_vars

\* Fairness as of a starter pack; a request waiting for the owner of its crew gets
\* an answer, whichever it is.
CrewmateFairSpec ==
    /\ CrewmateSpec
    /\ \A w \in Webhooks : WF_vars(Handle(w))
    /\ \A r \in Requests : WF_vars(Proceed(r) \/ RefuseCrew(r))
=============================================================================
