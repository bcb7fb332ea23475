----------------------------- MODULE TaskHandlers -----------------------------
(***************************************************************************)
(* Handlers of tasks: work that one event starts and a later one finishes, *)
(* deliveries, and journeys (handlers/starknet/Dispatcher/systems).  The   *)
(* start leaves an activity that is unresolved for the crews it concerns,  *)
(* and the finish resolves it.  Versions of one event are V0, V1.          *)
(***************************************************************************)
EXTENDS HandlerSteps

(***************************************************************************)
(* Construction.                                                           *)
(***************************************************************************)
AtSite == {"callerCrew", "asteroid"}

ConstructionPlanned == Once \o Tell(AtSite) \o WholeLot
ConstructionStarted ==
    OnceFor({"callerCrew"}) \o Notify("Construction") \o Tell(AtSite)
      \o Lot("buildingType")
ConstructionFinished ==
    Once \o Resolves("ConstructionStarted") \o Tell(AtSite) \o Lot("buildingType")
ConstructionAbandoned == Once \o Tell(AtSite) \o Lot("buildingType")
ConstructionDeconstructed == Once \o Tell(AtSite) \o WholeLot

(***************************************************************************)
(* Processing, extraction, assembly, sampling and scans.                   *)
(***************************************************************************)
MaterialProcessingStartedV0 == OnceFor({"callerCrew"}) \o Tell({"callerCrew"})
MaterialProcessingStartedV1 ==
    OnceFor({"callerCrew"}) \o Notify("MaterialProcessing") \o Tell({"callerCrew"})
MaterialProcessingFinished ==
    Once \o ResolvesEitherVersion("MaterialProcessingStarted") \o Tell({"callerCrew"})

ResourceExtractionStarted ==
    OnceFor({"callerCrew"}) \o Notify("ResourceExtraction") \o Tell({"callerCrew"})
ResourceExtractionFinished ==
    Once \o Resolves("ResourceExtractionStarted") \o Tell({"callerCrew"})

ShipAssemblyStartedV0 == OnceFor({"callerCrew"}) \o Tell({"callerCrew"})
ShipAssemblyStartedV1 ==
    OnceFor({"callerCrew"}) \o Notify("ShipAssembly") \o Tell({"callerCrew"})
\* The lots of the dry dock and of the ship, one after the other.
ShipAssemblyFinished ==
    Once \o ResolvesEitherVersion("ShipAssemblyStarted")
      \o Tell({"callerCrew", "dryDockAsteroid", "shipAsteroid"})
      \o Lot("buildingType") \o Lot("buildingType")

SamplingDepositStartedV0 == OnceFor({"callerCrew"}) \o Tell({"callerCrew"})
SamplingDepositStartedV1 ==
    OnceFor({"callerCrew"}) \o Notify("SamplingDeposit") \o Tell({"callerCrew"})
SamplingDepositFinished ==
    Once \o ResolvesEitherVersion("SamplingDepositStarted") \o Tell({"callerCrew"})

ResourceScanStarted ==
    OnceFor({"callerCrew"}) \o Notify("ResourceScan") \o Tell({"callerCrew"})
ResourceScanFinished == Once \o Resolves("ResourceScanStarted") \o Tell({"callerCrew"})

SurfaceScanStarted ==
    OnceFor({"callerCrew"}) \o Notify("SurfaceScan") \o Tell({"callerCrew"})
SurfaceScanFinished == Once \o Resolves("SurfaceScanStarted") \o Tell({"callerCrew"})

(***************************************************************************)
(* Deliveries.                                                             *)
(***************************************************************************)
DeliveryParties ==
    {"callerCrew", "destController", "originController", "destAsteroid", "originAsteroid"}

DeliveryPackagedV0 ==
    OnceFor({"callerCrew", "destController"})
      \o Tell({"callerCrew", "destAsteroid", "originAsteroid"})
DeliveryPackagedV1 ==
    OnceFor({"callerCrew", "destController"}) \o Tell(DeliveryParties)
DeliverySent ==
    OnceFor({"callerCrew"}) \o Notify("Delivery") \o Resolves("DeliveryPackaged")
      \o Tell(DeliveryParties)
DeliveryStarted == OnceFor({"callerCrew"}) \o Tell(DeliveryParties)
DeliveryCancelled == Once \o Resolves("DeliveryPackaged") \o Tell(DeliveryParties)
DeliveryReceived_OnceFirst == Once \o Resolves("DeliverySent") \o Tell(DeliveryParties)
\* "Retry resolution even if the completion activity was created on a previous
\* attempt": the only finish that resolves before it looks.
DeliveryReceived ==
    Ensure \o Resolves("DeliverySent") \o IfCreated \o Tell(DeliveryParties)
DeliveryFinishedV0 == Once \o Resolves("DeliveryStarted") \o Tell({"callerCrew"})
DeliveryFinishedV1 == Once \o Resolves("DeliveryStarted") \o Tell(DeliveryParties)
DeliveryDumped == Once \o Tell({"callerCrew", "originAsteroid"})
BuildingRepossessed_Left == Records(AtSite)
\* A new owner of the building takes over the packages waiting for it.
BuildingRepossessed == Once \o Tell(AtSite) \o Reassigns

(***************************************************************************)
(* Ships and crews on the move.  An ejected crew waits for its transit to  *)
(* end, if it was ejected from a ship on its way; the end of the transit   *)
(* of a crew in an escape module resolves both.                            *)
(***************************************************************************)
TransitStarted ==
    OnceFor({"callerCrew"}) \o Notify("Transit")
      \o Tell({"callerCrew", "destAsteroid", "originAsteroid"})
TransitFinished ==
    Once \o Effect("resolveIfCrew", {"CrewEjected"}) \o Resolves("TransitStarted")
      \o Tell({"callerCrew"})
CrewEjected ==
    Effect("ensureIfInTransit", {"callerCrew", "ejectedCrew"}) \o IfCreated
      \o Tell({"callerCrew"}) \o Lot("hasCrew")
CrewStationedV0 == Once \o Tell(AtSite) \o Lot("hasCrew")
CrewStationedV1 ==
    Once \o Lot("hasCrew") \o Lot("hasCrew")
      \o Tell({"callerCrew", "originAsteroid", "destAsteroid"})
ShipDocked == Once \o Tell({"callerCrew", "shipAsteroid"}) \o Lot("buildingType")
ShipUndocked ==
    Once \o Tell({"callerCrew", "dockAsteroid", "shipAsteroid"})
      \o Lot("buildingType") \o Lot("buildingType")
=============================================================================
