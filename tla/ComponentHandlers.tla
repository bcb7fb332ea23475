-------------------------- MODULE ComponentHandlers ---------------------------
(***************************************************************************)
(* Handlers of ComponentUpdated events                                     *)
(* (handlers/starknet/Dispatcher/components): the component of an entity   *)
(* as the contracts store it is saved, unless what is stored is newer, and *)
(* whatever shows it is queued for the search index.                       *)
(***************************************************************************)
EXTENDS HandlerSteps

\* The shape of most of them.
Indexed(component) == Saved(component) \o Index({"entity"})

ComponentUpdated_Celestial ==
    Saved("Celestial") \o Tell({"asteroid"}) \o Index({"entity"})
ComponentUpdated_Building == Indexed("Building") \o Tell({"asteroid"})
\* The buildings and lots of an asteroid show who controls it.
ComponentUpdated_Control == Indexed("Control") \o Index({"buildings", "lots"})
\* Both read the crew first, save with it when it was ready before, and tell it
\* if its roster or delegate differ.
ComponentUpdated_CrewV0 == Saved("Crew") \o TellIfChanged({"entity"}) \o Index({"entity"})
ComponentUpdated_CrewV1 ==
    Saved("Crew") \o TellIfChanged({"entity"}) \o Notify("CrewReady") \o Index({"entity"})
ComponentUpdated_Crewmate == Indexed("Crewmate")
ComponentUpdated_Delivery == Saved("Delivery") \o Index({"entity", "origin", "dest"})
ComponentUpdated_Deposit == Indexed("Deposit")
ComponentUpdated_Dock == Indexed("Dock")
ComponentUpdated_DryDock == Indexed("DryDock")
ComponentUpdated_Exchange == Indexed("Exchange")
ComponentUpdated_Extractor == Indexed("Extractor")
ComponentUpdated_Inventory == Indexed("Inventory")
\* The crews aboard a ship are where the ship is.
ComponentUpdated_Location ==
    Indexed("Location") \o TellReplaced({"oldAsteroid"}) \o Tell({"asteroid"})
      \o Update("crewLocations")
ComponentUpdated_Mission == Saved("Mission") \o Tell({"subject"})
\* The name 0 takes a name away.
ComponentUpdated_Name == SavedOrRemoved("Name") \o Index({"entity", "related"})
ComponentUpdated_Orbit == Indexed("Orbit")
\* An order is a document of its own in the index.
ComponentUpdated_Order == Saved("Order") \o Index({"order"})
ComponentUpdated_PrivateSale == Indexed("PrivateSale")
ComponentUpdated_ProcessorV0 == Indexed("Processor")
ComponentUpdated_ProcessorV1 == Indexed("Processor")
ComponentUpdated_Ship == Indexed("Ship")
ComponentUpdated_StarterPack == Indexed("StarterPack")
ComponentUpdated_StarterPackBuildingFunding == Indexed("StarterPackBuildingFunding")
ComponentUpdated_StarterPackLotLease == Indexed("StarterPackLotLease")
ComponentUpdated_Station == Indexed("Station")
\* A tenancy that ends is kept as null, "so older events cannot restore it".
ComponentUpdated_Unique ==
    Saved("UseLot") \o Index({"lot"}) \o Tell({"lot", "asteroid"})
      \o TellReplaced({"oldTenant"}) \o Tell({"tenant"})
ComponentUpdated_AsteroidSale == Replace("AsteroidSale")

(***************************************************************************)
(* Agreements on a lot decide its lease status, and its buildings show it. *)
(***************************************************************************)
OnLot == Index({"buildings"}) \o Lot("leaseStatus")

ComponentUpdated_ContractAgreement ==
    SavedOrRemoved("ContractAgreement") \o Index({"entity"}) \o OnLot
\* A longer lease resets the status; shorter ones it supersedes are deleted.
ComponentUpdated_PrepaidAgreement ==
    SavedOrRemoved("PrepaidAgreement") \o ResetStatus \o Notify("LeaseExpiration")
      \o Index({"entity"}) \o Index({"buildings"}) \o Update("supersededLeases")
      \o Lot("leaseStatus")
ComponentUpdated_WhitelistAgreement ==
    SavedOrRemoved("WhitelistAgreement") \o Index({"entity"}) \o OnLot
ComponentUpdated_PrepaidAgreementAuction == Indexed("PrepaidAgreementAuction")

(***************************************************************************)
(* Policies on an asteroid make its lots leaseable, or no longer so.       *)
(***************************************************************************)
Policy(component) == SavedOrRemoved(component) \o Index({"entity"})

ComponentUpdated_ContractPolicy == Policy("ContractPolicy") \o LeaseStatusOfAllLots
ComponentUpdated_PrepaidPolicy == Policy("PrepaidPolicy") \o LeaseStatusOfAllLots
ComponentUpdated_PublicPolicy == Policy("PublicPolicy") \o LeaseStatusOfAllLots
ComponentUpdated_PrepaidMerklePolicy == Policy("PrepaidMerklePolicy")
ComponentUpdated_PrepaidAgreementAuctionSet == Indexed("PrepaidAgreementAuctionSet")
=============================================================================
