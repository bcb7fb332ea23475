---------------------------- MODULE SystemHandlers ----------------------------
(***************************************************************************)
(* Handlers of the other events the game's systems emit: agreements,       *)
(* policies, whitelists, markets, sales, crews, messages and missions      *)
(* (handlers/starknet/Dispatcher/systems).  Most record the event as an    *)
(* activity and tell the rooms concerned.                                  *)
(***************************************************************************)
EXTENDS HandlerSteps

TellsCrew == Records({"callerCrew"})

(***************************************************************************)
(* Lots: agreements, policies, whitelists.                                 *)
(***************************************************************************)
AgreementParties == {"callerCrew", "permitted", "targetController"}

ContractAgreementAccepted == Records(AgreementParties)
LotLeased == TellsCrew
LotReclaimed == Records({"callerCrew", "asteroid"})
PrepaidAgreementAccepted == Once \o Tell(AgreementParties) \o Index({"target"})
PrepaidMerkleAgreementAccepted == PrepaidAgreementAccepted
PrepaidAgreementExtended == Once \o Tell(AgreementParties) \o Index({"target"})
\* The target is queued even if no agreement is found: a document more to write.
PrepaidAgreementCancelled ==
    Once \o SetStatus("CANCELLED") \o Index({"target"}) \o Tell(AgreementParties)
PrepaidAgreementTransferred ==
    Once \o SetStatus("TRANSFERRED") \o Index({"target"})
      \o Tell(AgreementParties \cup {"oldPermitted"})
PrepaidAgreementAuctionStarted == Once \o Index({"lot"}) \o Tell({"callerCrew"})
PrepaidAgreementAuctionCancelled == Once \o Index({"lot"}) \o Tell({"callerCrew"})
PrepaidAgreementAuctionConfigured == Once \o Index({"asteroid"}) \o Tell({"callerCrew"})

ContractPolicyAssigned == TellsCrew
PrepaidPolicyAssigned == TellsCrew
\* A policy on the lots of an asteroid makes all of them non-leaseable.
PrepaidPolicyRemoved ==
    Once \o Index({"entity"}) \o LeaseStatusOfAllLots \o Tell({"callerCrew"})
PublicPolicyAssigned == TellsCrew
PublicPolicyRemoved == TellsCrew

AddedToWhitelistV0 == TellsCrew
AddedToWhitelistV1 == Records({"callerCrew", "permitted"})
AddedAccountToWhitelist == Records({"callerCrew", "permitted"})
RemovedFromWhitelistV0 == TellsCrew
RemovedFromWhitelistV1 == TellsCrew
RemovedAccountFromWhitelist == Records({"callerCrew", "permitted"})

(***************************************************************************)
(* Markets, deposits and private sales.                                    *)
(***************************************************************************)
MarketPlaces == {"callerCrew", "exchangeAsteroid", "storageAsteroid"}

BuyOrderCreated == Once \o Tell(MarketPlaces) \o Update("orderInitialCaller")
BuyOrderCancelled == Records(MarketPlaces \cup {"buyerCrew"})
BuyOrderFilled == Records(MarketPlaces \cup {"buyerCrew"})
SellOrderCreated == Once \o Tell(MarketPlaces) \o Update("orderInitialCaller")
SellOrderCancelled == Records(MarketPlaces \cup {"sellerCrew"})
SellOrderFilled == Records(MarketPlaces \cup {"sellerCrew"})
OrderCreated == TellsCrew
ExchangeConfigured == Records({"callerCrew", "asteroid"})
DepositListedForSale == TellsCrew
DepositUnlistedForSale == TellsCrew
DepositPurchasedV0 == TellsCrew
DepositPurchasedV1 == Records({"callerCrew", "sellerCrew"})
PrivateSaleOffered == TellsCrew
PrivateSaleAccepted == TellsCrew
PrivateSaleRemoved == TellsCrew
\* The result of findOrCreateOne is not looked at.
SaleOffered == Ensure \o Tell({"callerCrew"})

(***************************************************************************)
(* Asteroids, crewmates and crews.                                         *)
(***************************************************************************)
\* The failures of the referral and of the sale are logged and forgotten.
Purchased == Update("referral") \o SaveNew("InternalSale")

AsteroidInitialized == Save("AsteroidProof") \o Index({"entity"})
AsteroidManaged == Records({"callerCrew", "asteroid"})
AsteroidPurchased == Once \o Tell({"callerCrew"}) \o Purchased
CrewmatePurchased == Once \o Tell({"caller"}) \o Purchased
CrewmateRecruitedV0 ==
    Once \o Tell({"callerCrew"}) \o Lot("hasCrew") \o SaveNew("InternalSale")
CrewmateRecruitedV1 ==
    Once \o Tell({"callerCrew", "caller"}) \o Lot("hasCrew") \o SaveNew("InternalSale")
CrewmateTransferred == TellsCrew
CrewmatesArrangedV0 == TellsCrew
CrewmatesArrangedV1 == TellsCrew
CrewmatesExchanged == Records({"crew1", "crew2", "caller"})
CrewDelegated == Records({"delegatedTo"})
CrewFormed == TellsCrew
NameChanged == TellsCrew
FoodSuppliedV0 == TellsCrew
FoodSuppliedV1 == TellsCrew
ShipCommandeered == TellsCrew
EmergencyActivated == TellsCrew
EmergencyDeactivated == TellsCrew
EmergencyPropellantCollected == TellsCrew
RandomEventResolved == Records({"actionTarget", "callerCrew"})

(***************************************************************************)
(* Rewards and missions.                                                   *)
(***************************************************************************)
ArrivalRewardClaimed ==
    Ensure \o Effect("tellIfCreated", {"callerCrew", "asteroid"}) \o Save("AsteroidReward")
PrepareForLaunchRewardClaimed == Once \o Tell({"asteroid"}) \o Save("AsteroidReward")
EarlyAdopterRewardClaimed == TellsCrew
TestnetSwayClaimed == Update("swayClaim")
\* createHandler, for MissionAccepted, MissionCompleted and MissionRewardClaimed.
MissionLifecycle == Ensure \o Tell({"subject", "recipient"})

(***************************************************************************)
(* Grants of offchain purchases confirm the purchase that paid for them.   *)
(***************************************************************************)
OffchainCrewmateGranted ==
    Ensure \o Update("crewmatePurchase") \o Index({"callerCrew", "crewmate"})
      \o Tell({"recipient", "callerCrew"})
OffchainStarterPackGranted ==
    Save("StarterPackCrewmate") \o Ensure \o Update("starterPackPurchase")
      \o Index({"crew", "crewmates"}) \o Tell({"recipient", "crew"})

(***************************************************************************)
(* Messages between players.                                               *)
(***************************************************************************)
DirectMessageSent == Records({"caller", "recipient"})
EventAnnotated == TellsCrew
RekeyedInbox == Once \o Tell({"caller"}) \o Update("messagingKeys")
=============================================================================
