---------------------------- MODULE MCEventHandling ----------------------------
(***************************************************************************)
(* Histories of a few events: every handler, twice on one entity; tasks    *)
(* that are started and finished twice, the second time in the block in    *)
(* which the first ends; deliveries, journeys and repossessions; crossings *)
(* there and back; withdrawals of the same amount; one component from both  *)
(* chains; a lease that ends and is taken again.                           *)
(* "x" is the entity they are all about, "site" the place it is at.        *)
(***************************************************************************)
EXTENDS EventHandling

EthereumTypes ==
    {"AsteroidToken_Transfer", "EthereumCrew_Transfer", "CrewToken_Transfer",
     "CrewmateToken_Transfer", "EthereumShip_Transfer", "LogMessageToL1",
     "SwayLogMessageToL1", "ConsumedMessageToL1", "SwayConsumedMessageToL1",
     "AsteroidBridge_BridgeFromStarknet", "CrewBridge_BridgeFromStarknet",
     "CrewmateBridge_BridgeFromStarknet", "ShipBridge_BridgeFromStarknet",
     "AsteroidBridge_BridgeToStarknet", "CrewBridge_BridgeToStarknet",
     "CrewmateBridge_BridgeToStarknet", "ShipBridge_BridgeToStarknet",
     "LogMessageToL2", "ConsumedMessageToL2", "AsteroidNames_NameChanged",
     "CrewNames_NameChanged", "AsteroidScanned", "ScanStarted", "AsteroidUsed",
     "AssignmentSwayClaimed", "TesterPhase1SwayClaimed", "SaleCreated", "SaleCancelled"}

E(type, time, flags) ==
    [type |-> type, chain |-> IF type \in EthereumTypes THEN Ethereum ELSE Starknet,
     time |-> time, on |-> "x", at |-> "site", flags |-> flags]
At(type, time) == E(type, time, {})

\* Nothing is proven or consumed that was not withdrawn.
Twice ==
    {<<At(type, 1), At(type, 2)>> :
       type \in {t \in DOMAIN Programs : Named(t, "sway") = {}}}

Clearable == {type \in DOMAIN Programs : Named(type, "saveOrRemove") # {}}
Cleared == UNION {{<<At(type, 1), E(type, 2, {"clears"})>>,
                   <<E(type, 1, {"clears"}), At(type, 2)>>} : type \in Clearable}

Again(start, finish) == <<At(start, 1), At(finish, 2), At(start, 2), At(finish, 3)>>
Task(start, finish) == <<At(start, 1), At(finish, 2)>>

Tasks ==
    {Again("ConstructionStarted", "ConstructionFinished"),
     Again("ShipAssemblyStartedV0", "ShipAssemblyFinished"),
     Task("ResourceExtractionStarted", "ResourceExtractionFinished"),
     Task("MaterialProcessingStartedV0", "MaterialProcessingFinished"),
     Task("MaterialProcessingStartedV1", "MaterialProcessingFinished"),
     Task("ShipAssemblyStartedV1", "ShipAssemblyFinished"),
     Task("SamplingDepositStartedV0", "SamplingDepositFinished"),
     Task("SamplingDepositStartedV1", "SamplingDepositFinished"),
     Task("SurfaceScanStarted", "SurfaceScanFinished"),
     Task("ResourceScanStarted", "ResourceScanFinished")}

Journeys ==
    {<<At("DeliveryPackagedV1", 1), At("DeliverySent", 2), At("DeliveryReceived", 3)>>,
     <<At("DeliveryPackagedV0", 1), At("DeliveryCancelled", 2)>>,
     <<At("DeliveryStarted", 1), At("DeliveryFinishedV0", 2)>>,
     <<At("DeliveryStarted", 1), At("DeliveryFinishedV1", 2)>>,
     <<At("DeliveryPackagedV1", 1), At("BuildingRepossessed", 2), At("DeliverySent", 3)>>,
     <<At("DeliveryPackagedV0", 1), At("BuildingRepossessed", 2), At("BuildingRepossessed", 3)>>,
     <<At("DeliveryPackagedV1", 1), At("DeliverySent", 2), At("BuildingRepossessed", 3)>>,
     <<At("TransitStarted", 1), At("TransitFinished", 2)>>,
     <<E("CrewEjected", 1, {"inTransit"}), E("TransitFinished", 2, {"aboard"})>>,
     <<E("CrewEjected", 1, {"inTransit"}), At("TransitFinished", 2)>>}

Crossings ==
    {<<At("Asteroid_BridgedToL1", 1), At("LogMessageToL1", 2),
       At("AsteroidBridge_BridgeFromStarknet", 3)>>,
     <<At("LogMessageToL1", 1), At("ConsumedMessageToL1", 2)>>,
     <<At("LogMessageToL2", 1), At("AsteroidBridge_BridgeToStarknet", 1),
       At("Asteroid_BridgedFromL1", 2)>>,
     <<At("LogMessageToL2", 1), At("Crewmate_BridgedFromL1", 2), At("LogMessageToL1", 3),
       At("ConsumedMessageToL2", 4)>>,
     <<At("AsteroidToken_Transfer", 1), At("Asteroid_Transfer", 2),
       At("AsteroidToken_Transfer", 3)>>}

Withdrawals ==
    {<<At("WithdrawInitiated", 1), At("SwayLogMessageToL1", 2), At("WithdrawInitiated", 3),
       At("SwayConsumedMessageToL1", 3)>>}

\* Of one component, from one chain or both, some in blocks of the same time.
OneTime ==
    {<<At("ComponentUpdated_Control", 1), At("ComponentUpdated_Control", 1)>>,
     <<At("AsteroidNames_NameChanged", 1), At("ComponentUpdated_Name", 1)>>,
     <<At("ComponentUpdated_Name", 1), At("CrewNames_NameChanged", 1)>>,
     <<At("ComponentUpdated_Celestial", 1), At("AsteroidScanned", 2)>>,
     <<At("AssignmentSwayClaimed", 1), At("ArrivalRewardClaimed", 1),
       At("PrepareForLaunchRewardClaimed", 2)>>}

\* A lease that is cancelled and taken again, for longer.
MCExtensions ==
    {<<At("ComponentUpdated_PrepaidAgreement", 1), At("PrepaidAgreementCancelled", 2),
       E("ComponentUpdated_PrepaidAgreement", 3, {"extends"})>>}

MCScenarios == Twice \cup Cleared \cup Tasks \cup Journeys \cup Crossings
                 \cup Withdrawals \cup OneTime \cup MCExtensions

\* What theorems about tasks and withdrawals ask of histories.
ASSUME HistoriesApart == StartsApart /\ SentApart /\ WithdrawnFirst
================================================================================
