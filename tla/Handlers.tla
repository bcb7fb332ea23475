------------------------------ MODULE Handlers -------------------------------
(***************************************************************************)
(* The handlers the processor knows, by the events they are for            *)
(* (lib/events/processor/config.js finds them by address and event).       *)
(***************************************************************************)
EXTENDS Naturals, TaskHandlers, SystemHandlers, ComponentHandlers, BridgeHandlers

Programs == [
  \* Tasks, deliveries and journeys.
  ConstructionPlanned |-> ConstructionPlanned, ConstructionStarted |-> ConstructionStarted,
  ConstructionFinished |-> ConstructionFinished,
  ConstructionAbandoned |-> ConstructionAbandoned,
  ConstructionDeconstructed |-> ConstructionDeconstructed,
  MaterialProcessingStartedV0 |-> MaterialProcessingStartedV0,
  MaterialProcessingStartedV1 |-> MaterialProcessingStartedV1,
  MaterialProcessingFinished |-> MaterialProcessingFinished,
  ResourceExtractionStarted |-> ResourceExtractionStarted,
  ResourceExtractionFinished |-> ResourceExtractionFinished,
  ShipAssemblyStartedV0 |-> ShipAssemblyStartedV0,
  ShipAssemblyStartedV1 |-> ShipAssemblyStartedV1,
  ShipAssemblyFinished |-> ShipAssemblyFinished,
  SamplingDepositStartedV0 |-> SamplingDepositStartedV0,
  SamplingDepositStartedV1 |-> SamplingDepositStartedV1,
  SamplingDepositFinished |-> SamplingDepositFinished,
  ResourceScanStarted |-> ResourceScanStarted,
  ResourceScanFinished |-> ResourceScanFinished, SurfaceScanStarted |-> SurfaceScanStarted,
  SurfaceScanFinished |-> SurfaceScanFinished, DeliveryPackagedV0 |-> DeliveryPackagedV0,
  DeliveryPackagedV1 |-> DeliveryPackagedV1, DeliverySent |-> DeliverySent,
  DeliveryStarted |-> DeliveryStarted, DeliveryCancelled |-> DeliveryCancelled,
  DeliveryReceived |-> DeliveryReceived, DeliveryFinishedV0 |-> DeliveryFinishedV0,
  DeliveryFinishedV1 |-> DeliveryFinishedV1, DeliveryDumped |-> DeliveryDumped,
  BuildingRepossessed |-> BuildingRepossessed, TransitStarted |-> TransitStarted,
  TransitFinished |-> TransitFinished, CrewEjected |-> CrewEjected,
  CrewStationedV0 |-> CrewStationedV0, CrewStationedV1 |-> CrewStationedV1,
  ShipDocked |-> ShipDocked, ShipUndocked |-> ShipUndocked,
  \* The other events of the game's systems.
  ContractAgreementAccepted |-> ContractAgreementAccepted, LotLeased |-> LotLeased,
  LotReclaimed |-> LotReclaimed, PrepaidAgreementAccepted |-> PrepaidAgreementAccepted,
  PrepaidMerkleAgreementAccepted |-> PrepaidMerkleAgreementAccepted,
  PrepaidAgreementExtended |-> PrepaidAgreementExtended,
  PrepaidAgreementCancelled |-> PrepaidAgreementCancelled,
  PrepaidAgreementTransferred |-> PrepaidAgreementTransferred,
  PrepaidAgreementAuctionStarted |-> PrepaidAgreementAuctionStarted,
  PrepaidAgreementAuctionCancelled |-> PrepaidAgreementAuctionCancelled,
  PrepaidAgreementAuctionConfigured |-> PrepaidAgreementAuctionConfigured,
  ContractPolicyAssigned |-> ContractPolicyAssigned,
  PrepaidPolicyAssigned |-> PrepaidPolicyAssigned,
  PrepaidPolicyRemoved |-> PrepaidPolicyRemoved,
  PublicPolicyAssigned |-> PublicPolicyAssigned,
  PublicPolicyRemoved |-> PublicPolicyRemoved, AddedToWhitelistV0 |-> AddedToWhitelistV0,
  AddedToWhitelistV1 |-> AddedToWhitelistV1,
  AddedAccountToWhitelist |-> AddedAccountToWhitelist,
  RemovedFromWhitelistV0 |-> RemovedFromWhitelistV0,
  RemovedFromWhitelistV1 |-> RemovedFromWhitelistV1,
  RemovedAccountFromWhitelist |-> RemovedAccountFromWhitelist,
  BuyOrderCreated |-> BuyOrderCreated, BuyOrderCancelled |-> BuyOrderCancelled,
  BuyOrderFilled |-> BuyOrderFilled, SellOrderCreated |-> SellOrderCreated,
  SellOrderCancelled |-> SellOrderCancelled, SellOrderFilled |-> SellOrderFilled,
  OrderCreated |-> OrderCreated, ExchangeConfigured |-> ExchangeConfigured,
  DepositListedForSale |-> DepositListedForSale,
  DepositUnlistedForSale |-> DepositUnlistedForSale,
  DepositPurchasedV0 |-> DepositPurchasedV0, DepositPurchasedV1 |-> DepositPurchasedV1,
  PrivateSaleOffered |-> PrivateSaleOffered, PrivateSaleAccepted |-> PrivateSaleAccepted,
  PrivateSaleRemoved |-> PrivateSaleRemoved, SaleOffered |-> SaleOffered,
  AsteroidInitialized |-> AsteroidInitialized, AsteroidManaged |-> AsteroidManaged,
  AsteroidPurchased |-> AsteroidPurchased, CrewmatePurchased |-> CrewmatePurchased,
  CrewmateRecruitedV0 |-> CrewmateRecruitedV0, CrewmateRecruitedV1 |-> CrewmateRecruitedV1,
  CrewmateTransferred |-> CrewmateTransferred, CrewmatesArrangedV0 |-> CrewmatesArrangedV0,
  CrewmatesArrangedV1 |-> CrewmatesArrangedV1, CrewmatesExchanged |-> CrewmatesExchanged,
  CrewDelegated |-> CrewDelegated, CrewFormed |-> CrewFormed, NameChanged |-> NameChanged,
  FoodSuppliedV0 |-> FoodSuppliedV0, FoodSuppliedV1 |-> FoodSuppliedV1,
  ShipCommandeered |-> ShipCommandeered, EmergencyActivated |-> EmergencyActivated,
  EmergencyDeactivated |-> EmergencyDeactivated,
  EmergencyPropellantCollected |-> EmergencyPropellantCollected,
  RandomEventResolved |-> RandomEventResolved,
  ArrivalRewardClaimed |-> ArrivalRewardClaimed,
  PrepareForLaunchRewardClaimed |-> PrepareForLaunchRewardClaimed,
  EarlyAdopterRewardClaimed |-> EarlyAdopterRewardClaimed,
  TestnetSwayClaimed |-> TestnetSwayClaimed, MissionLifecycle |-> MissionLifecycle,
  OffchainCrewmateGranted |-> OffchainCrewmateGranted,
  OffchainStarterPackGranted |-> OffchainStarterPackGranted,
  DirectMessageSent |-> DirectMessageSent, EventAnnotated |-> EventAnnotated,
  RekeyedInbox |-> RekeyedInbox,
  \* ComponentUpdated events.
  ComponentUpdated_Celestial |-> ComponentUpdated_Celestial,
  ComponentUpdated_Building |-> ComponentUpdated_Building,
  ComponentUpdated_Control |-> ComponentUpdated_Control,
  ComponentUpdated_CrewV0 |-> ComponentUpdated_CrewV0,
  ComponentUpdated_CrewV1 |-> ComponentUpdated_CrewV1,
  ComponentUpdated_Crewmate |-> ComponentUpdated_Crewmate,
  ComponentUpdated_Delivery |-> ComponentUpdated_Delivery,
  ComponentUpdated_Deposit |-> ComponentUpdated_Deposit,
  ComponentUpdated_Dock |-> ComponentUpdated_Dock,
  ComponentUpdated_DryDock |-> ComponentUpdated_DryDock,
  ComponentUpdated_Exchange |-> ComponentUpdated_Exchange,
  ComponentUpdated_Extractor |-> ComponentUpdated_Extractor,
  ComponentUpdated_Inventory |-> ComponentUpdated_Inventory,
  ComponentUpdated_Location |-> ComponentUpdated_Location,
  ComponentUpdated_Mission |-> ComponentUpdated_Mission,
  ComponentUpdated_Name |-> ComponentUpdated_Name,
  ComponentUpdated_Orbit |-> ComponentUpdated_Orbit,
  ComponentUpdated_Order |-> ComponentUpdated_Order,
  ComponentUpdated_PrivateSale |-> ComponentUpdated_PrivateSale,
  ComponentUpdated_ProcessorV0 |-> ComponentUpdated_ProcessorV0,
  ComponentUpdated_ProcessorV1 |-> ComponentUpdated_ProcessorV1,
  ComponentUpdated_Ship |-> ComponentUpdated_Ship,
  ComponentUpdated_StarterPack |-> ComponentUpdated_StarterPack,
  ComponentUpdated_StarterPackBuildingFunding |-> ComponentUpdated_StarterPackBuildingFunding,
  ComponentUpdated_StarterPackLotLease |-> ComponentUpdated_StarterPackLotLease,
  ComponentUpdated_Station |-> ComponentUpdated_Station,
  ComponentUpdated_Unique |-> ComponentUpdated_Unique,
  ComponentUpdated_AsteroidSale |-> ComponentUpdated_AsteroidSale,
  ComponentUpdated_ContractAgreement |-> ComponentUpdated_ContractAgreement,
  ComponentUpdated_PrepaidAgreement |-> ComponentUpdated_PrepaidAgreement,
  ComponentUpdated_WhitelistAgreement |-> ComponentUpdated_WhitelistAgreement,
  ComponentUpdated_PrepaidAgreementAuction |-> ComponentUpdated_PrepaidAgreementAuction,
  ComponentUpdated_ContractPolicy |-> ComponentUpdated_ContractPolicy,
  ComponentUpdated_PrepaidPolicy |-> ComponentUpdated_PrepaidPolicy,
  ComponentUpdated_PublicPolicy |-> ComponentUpdated_PublicPolicy,
  ComponentUpdated_PrepaidMerklePolicy |-> ComponentUpdated_PrepaidMerklePolicy,
  ComponentUpdated_PrepaidAgreementAuctionSet |-> ComponentUpdated_PrepaidAgreementAuctionSet,
  \* Tokens, bridges and the game on Ethereum.
  Asteroid_Transfer |-> Asteroid_Transfer, Crew_Transfer |-> Crew_Transfer,
  Crewmate_Transfer |-> Crewmate_Transfer, Ship_Transfer |-> Ship_Transfer,
  Ship_SellOrderSet |-> Ship_SellOrderSet, Ship_SellOrderFilled |-> Ship_SellOrderFilled,
  AsteroidToken_Transfer |-> AsteroidToken_Transfer,
  EthereumCrew_Transfer |-> EthereumCrew_Transfer,
  CrewToken_Transfer |-> CrewToken_Transfer,
  CrewmateToken_Transfer |-> CrewmateToken_Transfer,
  EthereumShip_Transfer |-> EthereumShip_Transfer,
  Asteroid_BridgedToL1 |-> Asteroid_BridgedToL1, Crew_BridgedToL1 |-> Crew_BridgedToL1,
  Crewmate_BridgedToL1 |-> Crewmate_BridgedToL1, Ship_BridgedToL1 |-> Ship_BridgedToL1,
  WithdrawInitiated |-> WithdrawInitiated, LogMessageToL1 |-> LogMessageToL1,
  SwayLogMessageToL1 |-> SwayLogMessageToL1, ConsumedMessageToL1 |-> ConsumedMessageToL1,
  SwayConsumedMessageToL1 |-> SwayConsumedMessageToL1,
  AsteroidBridge_BridgeFromStarknet |-> AsteroidBridge_BridgeFromStarknet,
  CrewBridge_BridgeFromStarknet |-> CrewBridge_BridgeFromStarknet,
  CrewmateBridge_BridgeFromStarknet |-> CrewmateBridge_BridgeFromStarknet,
  ShipBridge_BridgeFromStarknet |-> ShipBridge_BridgeFromStarknet,
  AsteroidBridge_BridgeToStarknet |-> AsteroidBridge_BridgeToStarknet,
  CrewBridge_BridgeToStarknet |-> CrewBridge_BridgeToStarknet,
  CrewmateBridge_BridgeToStarknet |-> CrewmateBridge_BridgeToStarknet,
  ShipBridge_BridgeToStarknet |-> ShipBridge_BridgeToStarknet,
  LogMessageToL2 |-> LogMessageToL2, ConsumedMessageToL2 |-> ConsumedMessageToL2,
  Asteroid_BridgedFromL1 |-> Asteroid_BridgedFromL1,
  Crew_BridgedFromL1 |-> Crew_BridgedFromL1,
  Crewmate_BridgedFromL1 |-> Crewmate_BridgedFromL1,
  Ship_BridgedFromL1 |-> Ship_BridgedFromL1,
  AsteroidNames_NameChanged |-> AsteroidNames_NameChanged,
  CrewNames_NameChanged |-> CrewNames_NameChanged, AsteroidScanned |-> AsteroidScanned,
  ScanStarted |-> ScanStarted, AsteroidUsed |-> AsteroidUsed,
  AssignmentSwayClaimed |-> AssignmentSwayClaimed,
  TesterPhase1SwayClaimed |-> TesterPhase1SwayClaimed, SaleCreated |-> SaleCreated,
  SaleCancelled |-> SaleCancelled ]

(***************************************************************************)
(* The start events a finish looks for, by their base name: the versions   *)
(* of an event share it, and their hash keys are the same.                 *)
(***************************************************************************)
Versions(base) ==
    CASE base = "MaterialProcessingStarted" ->
           {"MaterialProcessingStartedV0", "MaterialProcessingStartedV1"}
      [] base = "ShipAssemblyStarted" -> {"ShipAssemblyStartedV0", "ShipAssemblyStartedV1"}
      [] base = "SamplingDepositStarted" ->
           {"SamplingDepositStartedV0", "SamplingDepositStartedV1"}
      [] base = "DeliveryPackaged" -> {"DeliveryPackagedV0", "DeliveryPackagedV1"}
      [] OTHER -> {base}

\* The names the effects of one kind have in a handler.
Named(type, op) ==
    UNION {Programs[type][i].on : i \in {j \in DOMAIN Programs[type] : Programs[type][j].op = op}}

(***************************************************************************)
(* What all handlers have in common; TLC evaluates it on the table above.  *)
(***************************************************************************)
\* Where a handler has effects of these kinds.
Places(type, ops) == {i \in DOMAIN Programs[type] : Programs[type][i].op \in ops}

Owning == {"own", "ownIfUnknown", "ownAlone"}
Saving == {"save", "saveOrRemove", "replace"}
Resolving == {"resolve", "resolveIfNotFound", "resolveIfCrew"}
\* Effects on one thing at a time.
Single == Saving \cup Resolving \cup {"ownAlone", "cross", "drop", "sway"}

ASSUME ProgramForms ==
  \A type \in DOMAIN Programs :
    /\ Programs[type] \in Seq([op : STRING, on : SUBSET STRING])
    /\ \A i \in Places(type, Single) :
         \E name \in Programs[type][i].on : Programs[type][i].on = {name}
    \* Owners, crossings and counts come before anything else, the index after what
    \* it shows, and crossings are dropped in any case;
    /\ Places(type, Owning \cup {"cross", "sway"}) \subseteq {1}
    /\ Named(type, "sway") \subseteq {"initialize", "incrementReady", "decrementReady"}
    /\ \A i \in Places(type, Saving \cup Owning), j \in Places(type, {"index"}) : i < j
    /\ Places(type, {"drop"}) # {} =>
         /\ Places(type, {"ifCreated", "ifUpdated", "cross"}) = {}
         /\ \E to \in Named(type, "drop") : Named(type, "drop") = {to}
    \* a handler that goes on only if it saved has saved nothing else, and one that
    \* ends a task is not such a handler, and starts none of the kind.
    /\ Places(type, {"ifUpdated"}) # {} =>
         /\ Places(type, {"ifUpdated"}) = {2} /\ Places(type, Saving) = {1}
         /\ Places(type, Resolving) = {}
    /\ Named(type, "resolveIfNotFound") \subseteq Named(type, "resolve")
    /\ \A op \in Resolving : \A base \in Named(type, op) : type \notin Versions(base)
=============================================================================
