----------------------------- MODULE HandlerSteps -----------------------------
(***************************************************************************)
(* The vocabulary in which the handlers of lib/events/handlers are written *)
(* down: a handler is the sequence of its awaited effects, and every       *)
(* operator below is a sequence of one or a few of them, so that a handler *)
(* reads like the body of its processEvent:                                *)
(*                                                                         *)
(*   ConstructionFinished ==                                               *)
(*     Once \o Resolves("ConstructionStarted") \o Lot("buildingType")      *)
(*          \o Tell({"callerCrew", "asteroid"})                            *)
(*                                                                         *)
(* EventHandling gives the effects their meaning and runs the handlers.    *)
(* Data a handler copies from its event, addresses and names, the pictures *)
(* it asks another service to render (updateAsteroidAsset, whose failures  *)
(* are swallowed), and logging are left out.                               *)
(***************************************************************************)
EXTENDS Sequences

\* One effect: what is done, and the names it is done to.
Effect(op, names) == <<[op |-> op, on |-> names]>>

(***************************************************************************)
(* Activities (services/Activity.js).                                      *)
(***************************************************************************)
\* findOrCreateOne, unresolved for the crews named.
EnsureFor(crews) == Effect("ensure", crews)
Ensure == EnsureFor({})

\* if (activityResult?.created === 0) return;
IfCreated == Effect("ifCreated", {})

\* Nearly every handler of a system event: an event whose activity exists is
\* taken for handled.
OnceFor(crews) == EnsureFor(crews) \o IfCreated
Once == OnceFor({})

\* resolveStartActivity, once, or again under the hash keys of another version
\* of the start event if the first are not found.
Resolves(start) == Effect("resolve", {start})
ResolvesEitherVersion(start) == Resolves(start) \o Effect("resolveIfNotFound", {start})

\* updateDeliveryPackagedUnresolvedFor
Reassigns == Effect("reassign", {"DeliveryPackaged"})

(***************************************************************************)
(* Components and the documents next to them.  Nothing but the event       *)
(* processor writes them while it runs, so that a handler's reading,       *)
(* comparing and saving one of them is one effect.                         *)
(***************************************************************************)
\* ComponentService.updateOrCreateFromEvent
Save(component) == Effect("save", {component})

\* if (!updated) return;
IfUpdated == Effect("ifUpdated", {})

Saved(component) == Save(component) \o IfUpdated

\* deleteOne for an event that clears the component, and Saved for any other.
SavedOrRemoved(component) == Effect("saveOrRemove", {component}) \o IfUpdated

\* ComponentService.createOnlyFromEvent: an upsert that never overwrites.
SaveNew(component) == Effect("saveNew", {component})

\* AsteroidSaleService: a conditional replacement that compares nothing but
\* timestamps.
Replace(document) == Effect("replace", {document})

\* CrossingService.updateOrCreateFromEvent, the same for the one crossing of
\* some assets, and removeOne, which deletes it if it is bound for that chain,
\* whatever event it is of.
Cross(destination) == Effect("cross", {destination})
Drop(destination) == Effect("drop", {destination})

\* NftComponentService.updateOne: the owners on the chains named are those of
\* the event, and the owner on the other chain stays as it was read.
Owns(chains) == Effect("own", chains)
\* The same, but an owner that is known already is kept.
OwnsIfUnknown(chains) == Effect("ownIfUnknown", chains)
\* The same, but no owner on the other chain is kept.
OwnsAlone(chains) == Effect("ownAlone", chains)

\* SwayCrossingService: initialize, incrementReady and decrementReady.
Sway(change) == Effect("sway", {change})

(***************************************************************************)
(* Everything else a handler writes, and what it announces.                *)
(***************************************************************************)
\* ElasticSearchService.queueEntityForIndexing for the entities in those roles.
Index(roles) == Effect("index", roles)

\* PackedLotDataService: one attribute of the lot, all of them (update), or
\* the lease status of every lot of the asteroid.
Lot(attribute) == Effect("lot", {attribute})
WholeLot == Effect("lot", {"buildingType", "hasCrew", "leaseStatus"})
LeaseStatusOfAllLots == Effect("lot", {"leaseStatus"})

\* ResolvableEventNotificationService.createOrUpdate and its siblings.
Notify(type) == Effect("notify", {type})

\* A single update of a document of another service.
Update(what) == Effect("update", {what})

\* updateToCancelled and updateToTransferred of the prepaid agreement, if it is
\* found, and resetStatus, if it was saved over one that ended earlier.
SetStatus(status) == Effect("setStatus", {status})
ResetStatus == Effect("resetStatus", {})

\* messages.push: rooms held in memory until the event has been stamped...
Tell(rooms) == Effect("tell", rooms)
\* ...to rooms the document names that was saved over, and if it differed.
TellReplaced(rooms) == Effect("tellReplaced", rooms)
TellIfChanged(rooms) == Effect("tellIfChanged", rooms)

\* The handlers that only record their event and tell some rooms of it.
Records(rooms) == Once \o Tell(rooms)
=============================================================================
