---------------------------- MODULE BridgeHandlers ----------------------------
(***************************************************************************)
(* Handlers of the token contracts on both chains, of the bridges between  *)
(* them, and of the game's earlier life on Ethereum (handlers/starknet     *)
(* without its Dispatcher, handlers/ethereum).  Names carry the contract:  *)
(* four contracts of each kind share a handler.                            *)
(***************************************************************************)
EXTENDS HandlerSteps

Starknet == "starknet"
Ethereum == "ethereum"

(***************************************************************************)
(* Tokens: the owner on the chain of the event, next to the owner read of  *)
(* the other.                                                              *)
(***************************************************************************)
Asteroid_Transfer ==
    Owns({Starknet}) \o Ensure \o Index({"entity"}) \o Tell({"entity", "from", "owner"})
Crew_Transfer == Asteroid_Transfer
Crewmate_Transfer == Asteroid_Transfer
Ship_Transfer == Asteroid_Transfer
\* Only the price changes.
Ship_SellOrderSet ==
    Owns({}) \o Ensure \o Index({"entity"}) \o Tell({"entity", "owner"})
Ship_SellOrderFilled == Ship_SellOrderSet

AsteroidToken_Transfer ==
    Owns({Ethereum}) \o Ensure \o Index({"entity"}) \o Tell({"entity"})
EthereumCrew_Transfer == AsteroidToken_Transfer
CrewToken_Transfer == AsteroidToken_Transfer
CrewmateToken_Transfer == AsteroidToken_Transfer
EthereumShip_Transfer == AsteroidToken_Transfer

(***************************************************************************)
(* From Starknet to Ethereum: BridgedToL1 on Starknet, the message proven  *)
(* on Ethereum, BridgeFromStarknet once it is consumed there.              *)
(***************************************************************************)
BridgedToL1 == OwnsIfUnknown({Starknet, Ethereum}) \o Ensure \o Index({"entity"})
Asteroid_BridgedToL1 == BridgedToL1 \o Tell({"entity"})
Crew_BridgedToL1 == BridgedToL1 \o Tell({"entity"})
Crewmate_BridgedToL1 == BridgedToL1 \o Tell({"entity"})
Ship_BridgedToL1 == BridgedToL1 \o Tell({"entity"})

\* SWAY is fungible: its withdrawals are counted, not tracked.
WithdrawInitiated == Sway("initialize")
LogMessageToL1 == Cross(Ethereum)
SwayLogMessageToL1 == Sway("incrementReady")
ConsumedMessageToL1 == Drop(Ethereum)
SwayConsumedMessageToL1 == Sway("decrementReady")

\* It asks for '_entity.uuid', which no document has, and so never reads the
\* owners: what it keeps of Starknet is nothing.
BridgeFromStarknet == OwnsAlone({Ethereum}) \o Ensure \o Index({"entity"})
AsteroidBridge_BridgeFromStarknet == BridgeFromStarknet \o Drop(Ethereum)
CrewBridge_BridgeFromStarknet == BridgeFromStarknet \o Drop(Ethereum)
CrewmateBridge_BridgeFromStarknet == BridgeFromStarknet \o Drop(Ethereum)
ShipBridge_BridgeFromStarknet == BridgeFromStarknet \o Drop(Ethereum)

(***************************************************************************)
(* From Ethereum to Starknet.  The sender is never written to the crossing *)
(* because the filter asks for assetTypes where documents have assetType.  *)
(***************************************************************************)
BridgeToStarknet == Owns({Starknet}) \o Ensure \o Index({"entity"})
AsteroidBridge_BridgeToStarknet == BridgeToStarknet
CrewBridge_BridgeToStarknet == BridgeToStarknet
CrewmateBridge_BridgeToStarknet == BridgeToStarknet
ShipBridge_BridgeToStarknet == BridgeToStarknet

LogMessageToL2 == Cross(Starknet)
ConsumedMessageToL2 == Drop(Starknet)

BridgedFromL1 == OwnsAlone({Starknet}) \o Ensure \o Index({"entity"})
Asteroid_BridgedFromL1 == BridgedFromL1 \o Drop(Starknet) \o Tell({"entity"})
Crew_BridgedFromL1 == BridgedFromL1 \o Drop(Starknet) \o Tell({"entity"})
Crewmate_BridgedFromL1 == BridgedFromL1 \o Drop(Starknet) \o Tell({"entity"})
Ship_BridgedFromL1 == BridgedFromL1 \o Drop(Starknet) \o Tell({"entity"})

(***************************************************************************)
(* Components of the game on Ethereum: saved unless what is stored is      *)
(* newer, and indexed in any case.                                         *)
(***************************************************************************)
AsteroidNames_NameChanged == Save("Name") \o Ensure \o Index({"entity"})
CrewNames_NameChanged == Save("Name") \o Ensure \o Index({"entity"})
AsteroidScanned == Save("Celestial") \o Ensure \o Index({"entity"})
ScanStarted == Save("Celestial") \o Ensure \o Index({"entity"})
AsteroidUsed ==
    Save("Crewmate") \o Save("CrewmateReward") \o Save("AsteroidReward")
      \o Index({"asteroid", "crewmate"})
AssignmentSwayClaimed == Save("AsteroidReward") \o Save("CrewmateReward")
TesterPhase1SwayClaimed == Update("swayClaim")
\* SaleCreated, SaleCancelled: the event is marked ignored with its stamp.
SaleCreated == << >>
SaleCancelled == << >>
=============================================================================
