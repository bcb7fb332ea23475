---------------------------- MODULE EventHandling -----------------------------
(***************************************************************************)
(* The event processor running the handlers on the events the retrievers   *)
(* store, one effect at a time, and the indexer that carries what they     *)
(* queued to the search index.  One process handles the events of both     *)
(* chains, in the order of their timestamps, transactions and logs; but    *)
(* the chains are retrieved separately and missed events are added by the  *)
(* audit, so that an event may be stored when later ones are handled.      *)
(* Processor and indexer crash between any two effects and are restarted.  *)
(* The fetching of batches, orphans and repairs are in EventPipeline.      *)
(***************************************************************************)
EXTENDS Integers, FiniteSets, Handlers

CONSTANTS Scenarios,    \* histories of the two chains, in the order above
          MaxCrashes

\* What an event says, as far as a handler's effects depend on it: "clears" a
\* component, is of a crew that is "inTransit", of a crew "aboard" a ship of its
\* own (an escape module), or "extends" a lease: it ends later than in any event
\* of it before.
Event == [type : DOMAIN Programs, chain : {Starknet, Ethereum}, time : Nat,
          on : STRING, at : STRING, flags : SUBSET {"clears", "inTransit", "aboard", "extends"}]

ASSUME ScenarioAssumption ==
    \A s \in Scenarios :
      /\ s \in Seq(Event)
      /\ \A i, j \in DOMAIN s : i <= j => s[i].time <= s[j].time

ASSUME CrashAssumption == MaxCrashes \in Nat

VARIABLES
    scenario,    \* the history of this behaviour; events are numbered by it
    stored,      \* events in the collection
    begun,       \* events whose handler has been called
    overtaken,   \* <<e, x>>: the handler of e was called after that of a later x
    handled,     \* events with lastProcessed
    skipped,     \* events whose handler, called again, left its follow-ups out
    told,        \* <<event, room>> of the messages sent
    run,         \* the processor
    crashes,
    activities,  \* events that have an activity
    waiting,     \* unresolvedFor of each activity: <<event, role>>
    comps,       \* the event each component is of, 0 when it does not exist
    offered,     \* events saved or refused since the component was last removed
    saved,       \* events that were saved
    terminated,  \* prepaid agreements with a status, CANCELLED or TRANSFERRED
    owners,      \* NftComponent: the event the owner on each chain is of
    sway, crossings,
    effects,     \* <<event, what, name>> of the other writes
    queue, indexer, search

inputVars == <<scenario, stored, begun, overtaken>>
progressVars == <<handled, skipped, told, crashes>>
activityVars == <<activities, waiting>>
componentVars == <<comps, offered, saved, terminated>>
bridgeVars == <<owners, sway, crossings>>
indexVars == <<indexer, search>>
vars == <<inputVars, progressVars, run, activityVars, componentVars, bridgeVars,
          effects, queue, indexVars>>

(***************************************************************************)
(* The scenario.                                                           *)
(***************************************************************************)
Ids == DOMAIN scenario
Time(e) == scenario[e].time
On(e) == scenario[e].on
Program(e) == Programs[scenario[e].type]

Entities == {On(e) : e \in Ids}
SavedBy(e) == UNION {Named(scenario[e].type, op) : op \in {"save", "saveOrRemove", "replace"}}
Keys == UNION {{<<c, On(e)>> : c \in SavedBy(e)} : e \in Ids}
KeysOf(x) == {k \in Keys : k[2] = x}
Documents == UNION {{<<role, On(e)>> : role \in Named(scenario[e].type, "index")} : e \in Ids}

Idle == [event |-> 0, pc |-> 1, created |-> FALSE, found |-> FALSE,
         updated |-> FALSE, old |-> 0, rooms |-> {}]
IndexerIdle == [pc |-> "idle", batch |-> {}, left |-> {}, docs |-> {}]

NoCrossing == [event |-> 0, to |-> Starknet]
NoSway == [pending |-> 0, ready |-> 0, events |-> {}]

\* What the formatter of a document reads.
Shown(x) == [comps |-> [k \in KeysOf(x) |-> comps[k]], owners |-> owners[x]]

Init ==
    /\ scenario \in Scenarios
    /\ stored = {} /\ begun = {} /\ overtaken = {}
    /\ handled = {} /\ skipped = {} /\ told = {} /\ crashes = 0
    /\ run = Idle
    /\ activities = {}
    /\ waiting = [e \in Ids |-> {}]
    /\ comps = [k \in Keys |-> 0]
    /\ offered = [k \in Keys |-> {}]
    /\ saved = {}
    /\ terminated = {}
    /\ owners = [x \in Entities |-> [c \in {Starknet, Ethereum} |-> 0]]
    /\ sway = [x \in Entities |-> NoSway]
    /\ crossings = [x \in Entities |-> NoCrossing]
    /\ effects = {}
    /\ queue = {}
    /\ indexer = IndexerIdle
    /\ search = [d \in Documents |-> Shown(d[2])]

(***************************************************************************)
(* Retrieval, and the loop of the processor.                               *)
(***************************************************************************)
Arrive(e) ==
    /\ e \notin stored
    /\ stored' = stored \cup {e}
    /\ UNCHANGED <<scenario, begun, overtaken, progressVars, run, activityVars,
                   componentVars, bridgeVars, effects, queue, indexVars>>

Backlog_NotStored == Ids \ handled
Backlog == stored \ handled

Begin ==
    /\ run.event = 0
    /\ \E e \in Backlog :
         /\ \A x \in Backlog : e <= x
         /\ run' = [Idle EXCEPT !.event = e]
         /\ begun' = begun \cup {e}
         /\ overtaken' = overtaken \cup {<<e, x>> : x \in {y \in begun : e < y}}
    /\ UNCHANGED <<scenario, stored, progressVars, activityVars, componentVars,
                   bridgeVars, effects, queue, indexVars>>

Running(ops) ==
    /\ run.event # 0
    /\ run.pc \in DOMAIN Program(run.event)
    /\ Program(run.event)[run.pc].op \in ops

\* The names of the effect the processor is at; most effects have one.
Names == Program(run.event)[run.pc].on

Onward(r) == [r EXCEPT !.pc = @ + 1]
\* return
Leave(r) == [r EXCEPT !.pc = Len(Program(r.event)) + 1]
Return == Len(Program(run.event)) + 1

Finalize ==
    /\ run.event # 0
    /\ run.pc = Return
    /\ handled' = handled \cup {run.event}
    /\ run' = Onward(run)
    /\ UNCHANGED <<inputVars, skipped, told, crashes, activityVars, componentVars,
                   bridgeVars, effects, queue, indexVars>>

Emit ==
    /\ run.event # 0
    /\ run.pc = Return + 1
    /\ told' = told \cup {<<run.event, room>> : room \in run.rooms}
    /\ run' = Idle
    /\ UNCHANGED <<inputVars, handled, skipped, crashes, activityVars, componentVars,
                   bridgeVars, effects, queue, indexVars>>

\* The process ends, and what the handler held in memory is gone.
Crash ==
    /\ run.event # 0
    /\ crashes < MaxCrashes
    /\ crashes' = crashes + 1
    /\ run' = Idle
    /\ UNCHANGED <<inputVars, handled, skipped, told, activityVars, componentVars,
                   bridgeVars, effects, queue, indexVars>>

(***************************************************************************)
(* Activities.                                                             *)
(***************************************************************************)
WaitingFor(e) ==
    IF Program(e)[run.pc].op = "ensureIfInTransit" /\ "inTransit" \notin scenario[e].flags
      THEN {}
      ELSE {<<e, role>> : role \in Names}

\* findOrCreateOne, by the log of the event.
RunEnsure ==
    /\ Running({"ensure", "ensureIfInTransit"})
    /\ LET e == run.event IN
         /\ activities' = activities \cup {e}
         /\ waiting' = IF e \in activities THEN waiting
                                           ELSE [waiting EXCEPT ![e] = WaitingFor(e)]
         /\ run' = [Onward(run) EXCEPT !.created = e \notin activities]
    /\ UNCHANGED <<inputVars, progressVars, componentVars, bridgeVars, effects, queue,
                   indexVars>>

RunIfCreated ==
    /\ Running({"ifCreated"})
    /\ run' = IF run.created THEN Onward(run) ELSE Leave(run)
    /\ skipped' = IF run.created THEN skipped ELSE skipped \cup {run.event}
    /\ UNCHANGED <<inputVars, handled, told, crashes, activityVars, componentVars,
                   bridgeVars, effects, queue, indexVars>>

\* Activities of the start event on the same hash keys, not after e.
Starts(e, base) ==
    {a \in activities :
       scenario[a].type \in Versions(base) /\ On(a) = On(e) /\ Time(a) <= Time(e)}

Newest_Oldest(S) == {a \in S : \A b \in S : Time(a) <= Time(b)}
Newest(S) == {a \in S : \A b \in S : Time(b) <= Time(a)}

FindStart_InAnyOrder(e, base) ==
    IF Starts(e, base) = {} THEN {0} ELSE Newest(Starts(e, base))

\* findStartActivity: the newest of them, and nothing unless its event is
\* before e; 0 when nothing is found.
FindStart(e, base) ==
    IF Starts(e, base) = {} THEN {0}
    ELSE {IF a < e THEN a ELSE 0 : a \in Newest(Starts(e, base))}

\* Does the handler look for a start here?
Looks ==
    \/ Running({"resolve"})
    \/ Running({"resolveIfNotFound"}) /\ ~run.found
    \/ Running({"resolveIfCrew"}) /\ "aboard" \in scenario[run.event].flags

RunResolve ==
    /\ Running({"resolve", "resolveIfNotFound", "resolveIfCrew"})
    /\ \E base \in Names : \E a \in IF Looks THEN FindStart(run.event, base) ELSE {0} :
         /\ waiting' = [e \in Ids |-> IF e = a THEN {} ELSE waiting[e]]
         /\ run' = [Onward(run) EXCEPT !.found = run.found \/ a # 0]
    /\ UNCHANGED <<inputVars, progressVars, activities, componentVars, bridgeVars,
                   effects, queue, indexVars>>

\* Packages that wait for a controller of the building wait for the new one.
Reassigned(e, a) ==
    /\ \E base \in Names : scenario[a].type \in Versions(base)
    /\ scenario[a].at = scenario[e].at
    /\ waiting[a] # {}

RunReassign ==
    /\ Running({"reassign"})
    /\ LET e == run.event IN
         waiting' = [a \in Ids |-> IF Reassigned(e, a) THEN {<<e, "callerCrew">>}
                                                       ELSE waiting[a]]
    /\ run' = Onward(run)
    /\ UNCHANGED <<inputVars, progressVars, activities, componentVars, bridgeVars,
                   effects, queue, indexVars>>

(***************************************************************************)
(* Components.                                                             *)
(***************************************************************************)
Refuses_Equal(x, e) ==
    /\ x # 0
    /\ IF scenario[x].chain = scenario[e].chain THEN e <= x ELSE Time(e) < Time(x)
Refuses_TimeOnly(x, e) == x # 0 /\ Time(e) < Time(x)

\* updateOrCreateFromEvent: refused when what is stored is of a later log of
\* the same chain, or of a later timestamp on the other.  The same event is
\* not refused.
Refuses(x, e) ==
    /\ x # 0
    /\ IF scenario[x].chain = scenario[e].chain THEN e < x ELSE Time(e) < Time(x)

Offer(k, e) == offered' = [offered EXCEPT ![k] = @ \cup {e}]

Store(k, e) ==
    /\ comps' = [comps EXCEPT ![k] = e]
    /\ saved' = saved \cup {e}

Upsert(k, e, refused) ==
    /\ Offer(k, e)
    /\ IF refused THEN UNCHANGED <<comps, saved>> ELSE Store(k, e)
    /\ run' = [Onward(run) EXCEPT !.updated = ~refused, !.old = comps[k]]

RunSave ==
    /\ Running({"save", "saveOrRemove"})
    /\ Running({"saveOrRemove"}) => "clears" \notin scenario[run.event].flags
    /\ \E component \in Names :
         LET e == run.event
             k == <<component, On(e)>>
         IN Upsert(k, e, Refuses(comps[k], e))
    /\ UNCHANGED <<inputVars, progressVars, activityVars, terminated, bridgeVars, effects,
                   queue, indexVars>>

\* Timestamps alone are compared: the last of several in a block wins.
RunReplace ==
    /\ Running({"replace"})
    /\ \E document \in Names :
         LET e == run.event
             k == <<document, On(e)>>
         IN Upsert(k, e, comps[k] # 0 /\ Time(e) < Time(comps[k]))
    /\ UNCHANGED <<inputVars, progressVars, activityVars, terminated, bridgeVars, effects,
                   queue, indexVars>>

\* deleteOne: whatever event the document is of.
RunRemove ==
    /\ Running({"saveOrRemove"})
    /\ "clears" \in scenario[run.event].flags
    /\ \E component \in Names :
         LET k == <<component, On(run.event)>> IN
         /\ comps' = [comps EXCEPT ![k] = 0]
         /\ offered' = [offered EXCEPT ![k] = {}]
         /\ terminated' = IF component = "PrepaidAgreement" THEN terminated \ {On(run.event)}
                                                           ELSE terminated
         /\ run' = [Onward(run) EXCEPT !.updated = comps[k] # 0]
    /\ UNCHANGED <<inputVars, progressVars, activityVars, saved, bridgeVars, effects,
                   queue, indexVars>>

\* A removal that finds nothing to remove may be one called again.
RunIfUpdated ==
    /\ Running({"ifUpdated"})
    /\ run' = IF run.updated THEN Onward(run) ELSE Leave(run)
    /\ skipped' = IF ~run.updated /\ "clears" \in scenario[run.event].flags
                    THEN skipped \cup {run.event} ELSE skipped
    /\ UNCHANGED <<inputVars, handled, told, crashes, activityVars, componentVars,
                   bridgeVars, effects, queue, indexVars>>

\* Did the save replace a document of an earlier event?  A handler that is called
\* again finds its own event in the document, and takes nothing from it.
Replaced == run.old \notin {0, run.event}

\* The status of a prepaid agreement is no part of the component: the save keeps
\* it (replace: false).
StatusAfter ==
    LET x == On(run.event) IN
    CASE Running({"setStatus"}) /\ \E k \in Keys : k = <<"PrepaidAgreement", x>> /\ comps[k] # 0
           -> terminated \cup {x}
      [] Running({"resetStatus"}) /\ Replaced /\ "extends" \in scenario[run.event].flags
           -> terminated \ {x}
      [] OTHER -> terminated

RunStatus ==
    /\ Running({"setStatus", "resetStatus"})
    /\ terminated' = StatusAfter
    /\ run' = Onward(run)
    /\ UNCHANGED <<inputVars, progressVars, activityVars, comps, offered, saved,
                   bridgeVars, effects, queue, indexVars>>

(***************************************************************************)
(* Tokens and their bridges.                                               *)
(***************************************************************************)
OwnersAfter_KeepsNone(op, o, e) ==
    [c \in {Starknet, Ethereum} |->
       IF c \in Names /\ (op = "ownIfUnknown" => o[c] = 0) THEN e ELSE 0]
OwnersAfter(op, o, e) ==
    [c \in {Starknet, Ethereum} |->
       CASE c \in Names /\ (op = "ownIfUnknown" => o[c] = 0) -> e
         [] c \notin Names /\ op = "ownAlone" -> 0
         [] OTHER -> o[c]]

RunOwn ==
    /\ Running({"own", "ownIfUnknown", "ownAlone"})
    /\ LET e == run.event IN
         owners' = [owners EXCEPT ![On(e)] = OwnersAfter(Program(e)[run.pc].op, @, e)]
    /\ run' = Onward(run)
    /\ UNCHANGED <<inputVars, progressVars, activityVars, componentVars, sway,
                   crossings, effects, queue, indexVars>>

\* The counts of the withdrawals of one amount to one address.
Counted(s, change, e) ==
    CASE change = "initialize" ->
           [s EXCEPT !.pending = @ + 1, !.events = @ \cup {e}]
      [] change = "incrementReady" ->
           [s EXCEPT !.ready = @ + 1, !.events = @ \cup {e},
                     !.pending = IF s.events = {} THEN 0 ELSE @ - 1]
      [] change = "decrementReady" ->
           IF s.events = {} THEN s ELSE [s EXCEPT !.ready = @ - 1, !.events = @ \cup {e}]

SwayAfter_NotOnce(s, change, e) == Counted(s, change, e)
\* hasEvent: an event is counted once.
SwayAfter(s, change, e) == IF e \in s.events THEN s ELSE Counted(s, change, e)

RunSway ==
    /\ Running({"sway"})
    /\ \E change \in Names :
         sway' = [sway EXCEPT ![On(run.event)] = SwayAfter(@, change, run.event)]
    /\ run' = Onward(run)
    /\ UNCHANGED <<inputVars, progressVars, activityVars, componentVars, owners,
                   crossings, effects, queue, indexVars>>

\* There is one crossing document of some assets, whichever way they go.
Crossed(c, e, to) ==
    IF c.event # 0 /\ Time(e) < Time(c.event) THEN c ELSE [event |-> e, to |-> to]

Dropped_AnyWay(c, to) == NoCrossing
Dropped_Swapped(c, to) == IF c.event # 0 /\ c.to # to THEN NoCrossing ELSE c
Dropped(c, to) == IF c.event # 0 /\ c.to = to THEN NoCrossing ELSE c

RunCrossing ==
    /\ Running({"cross", "drop"})
    /\ \E to \in Names :
         crossings' = [crossings EXCEPT ![On(run.event)] =
                         IF Running({"cross"}) THEN Crossed(@, run.event, to)
                                               ELSE Dropped(@, to)]
    /\ run' = Onward(run)
    /\ UNCHANGED <<inputVars, progressVars, activityVars, componentVars, owners, sway,
                   effects, queue, indexVars>>

(***************************************************************************)
(* Follow-ups, messages and the search index.                              *)
(***************************************************************************)
FollowUps == {"lot", "notify", "update", "saveNew"}

\* Single writes that a handler called again makes again.
RunFollowUp ==
    /\ Running(FollowUps)
    /\ LET e == run.event IN
         effects' = effects \cup {<<e, Program(e)[run.pc].op, n>> : n \in Names}
    /\ run' = Onward(run)
    /\ UNCHANGED <<inputVars, progressVars, activityVars, componentVars, bridgeVars,
                   queue, indexVars>>

\* messages.push; whether a document that was replaced names a room, or differs,
\* is left open.
Pushes ==
    CASE Running({"tellIfCreated"}) -> {run.created}
      [] Running({"tellReplaced"}) -> {FALSE, Replaced}
      [] Running({"tellIfChanged"}) -> {run.old = 0, run.old # run.event}
      [] OTHER -> {TRUE}

RunTell ==
    /\ Running({"tell", "tellIfCreated", "tellReplaced", "tellIfChanged"})
    /\ \E pushed \in Pushes :
         run' = IF pushed THEN [Onward(run) EXCEPT !.rooms = @ \cup Names] ELSE Onward(run)
    /\ UNCHANGED <<inputVars, progressVars, activityVars, componentVars, bridgeVars,
                   effects, queue, indexVars>>

\* queueForIndexing inserts an item of its own for every change.
Item(role, e) == [doc |-> <<role, On(e)>>, event |-> e, try |-> crashes]

RunIndex ==
    /\ Running({"index"})
    /\ queue' = queue \cup {Item(role, run.event) : role \in Names}
    /\ run' = Onward(run)
    /\ UNCHANGED <<inputVars, progressVars, activityVars, componentVars, bridgeVars,
                   effects, indexVars>>

\* The indexer's main loop finds the items there are...
IndexerFetch ==
    /\ indexer.pc = "idle"
    /\ queue # {}
    /\ indexer' = [pc |-> "format", batch |-> queue, left |-> queue, docs |-> search]
    /\ UNCHANGED <<inputVars, progressVars, run, activityVars, componentVars,
                   bridgeVars, effects, queue, search>>

\* ...handleDocument reads what each of them shows, in some order...
IndexerFormat ==
    /\ indexer.pc = "format"
    /\ LET item == CHOOSE i \in indexer.left : TRUE IN
         indexer' = [indexer EXCEPT !.pc = IF indexer.left = {item} THEN "bulk" ELSE "format",
                                    !.left = @ \ {item},
                                    !.docs[item.doc] = Shown(item.doc[2])]
    /\ UNCHANGED <<inputVars, progressVars, run, activityVars, componentVars,
                   bridgeVars, effects, queue, search>>

\* ...and flush writes the documents, and only then deletes the items.
IndexerBulk ==
    /\ indexer.pc = "bulk"
    /\ search' = indexer.docs
    /\ indexer' = [indexer EXCEPT !.pc = "delete"]
    /\ UNCHANGED <<inputVars, progressVars, run, activityVars, componentVars,
                   bridgeVars, effects, queue>>

\* deleteOne for each of the items that were fetched.
Remaining_OtherDocuments == {i \in queue : i.doc \notin {b.doc : b \in indexer.batch}}
Remaining_All == queue
Remaining == queue \ indexer.batch

IndexerDelete ==
    /\ indexer.pc = "delete"
    /\ queue' = Remaining
    /\ indexer' = IndexerIdle
    /\ UNCHANGED <<inputVars, progressVars, run, activityVars, componentVars,
                   bridgeVars, effects, search>>

IndexerCrash ==
    /\ indexer.pc # "idle"
    /\ crashes < MaxCrashes
    /\ crashes' = crashes + 1
    /\ indexer' = IndexerIdle
    /\ UNCHANGED <<inputVars, handled, skipped, told, run, activityVars, componentVars,
                   bridgeVars, effects, queue, search>>

RunHandler ==
    \/ RunEnsure \/ RunIfCreated \/ RunResolve \/ RunReassign
    \/ RunSave \/ RunReplace \/ RunRemove \/ RunIfUpdated \/ RunStatus
    \/ RunOwn \/ RunSway \/ RunCrossing
    \/ RunFollowUp \/ RunTell \/ RunIndex

Process == Begin \/ RunHandler \/ Finalize \/ Emit

Indexing == IndexerFetch \/ IndexerFormat \/ IndexerBulk \/ IndexerDelete

Arrival == \E e \in Ids : Arrive(e)

Next == Arrival \/ Process \/ Indexing \/ Crash \/ IndexerCrash

Spec == Init /\ [][Next]_vars

\* The retrievers get to every event, and both processes are restarted.
FairSpec == Spec /\ WF_vars(Arrival) /\ WF_vars(Process) /\ WF_vars(Indexing)

(***************************************************************************)
(* Properties.                                                             *)
(***************************************************************************)
TypeOK ==
    /\ scenario \in Scenarios
    /\ stored \subseteq Ids /\ begun \subseteq stored /\ handled \subseteq begun
    /\ overtaken \subseteq Ids \X Ids
    /\ skipped \subseteq begun /\ activities \subseteq begun /\ saved \subseteq begun
    /\ run.event \in begun \cup {0}
    /\ DOMAIN waiting = Ids
    /\ comps \in [Keys -> {0} \cup begun]
    /\ offered \in [Keys -> SUBSET begun]
    /\ terminated \subseteq Entities
    /\ owners \in [Entities -> [{Starknet, Ethereum} -> {0} \cup begun]]
    /\ crashes \in 0..MaxCrashes

\* No handler has been left half-way.
Quiet == run.event = 0 /\ begun \subseteq handled

InOrder(S) == \A e, x \in S : <<e, x>> \notin overtaken

Same(e, x) == On(e) = On(x)

StartsOf(f) ==
    Named(scenario[f].type, "resolve") \cup Named(scenario[f].type, "resolveIfNotFound") \cup
    (IF "aboard" \in scenario[f].flags THEN Named(scenario[f].type, "resolveIfCrew") ELSE {})

IsStart(s, base) == scenario[s].type \in Versions(base)

\* f ends the task s started.
Ends(f, s) ==
    \E base \in StartsOf(f) :
      /\ IsStart(s, base) /\ Same(s, f) /\ s < f
      /\ \A t \in (s + 1)..(f - 1) : ~(IsStart(t, base) /\ Same(s, t))

\* Histories in which a task starts later than the last of its kind on the same
\* entity; findStartActivity tells starts apart by their timestamps alone.
Bases == UNION {Named(type, op) : type \in DOMAIN Programs, op \in Resolving}
StartsApart ==
    \A h \in Scenarios, base \in Bases : \A i, j \in DOMAIN h :
      i < j /\ h[i].on = h[j].on /\ {h[i].type, h[j].type} \subseteq Versions(base)
        => h[i].time < h[j].time

\* Nothing waits for a task that was finished, if start and finish were handled
\* in order and the finish is not one of those that crashed after its activity
\* was created: a finish on the same building or ship resolves the start before
\* it, not an older one (resolveStartActivity).
StartsResolved ==
    \A s, f \in Ids :
      f \in handled \ skipped /\ Ends(f, s) /\ InOrder(Ids) => waiting[s] = {}

\* A delivery received is resolved even then: DeliveryReceived retries the
\* resolution although its activity exists.
ReceivedDespiteCrash ==
    \A s, f \in Ids :
      f \in handled /\ scenario[f].type = "DeliveryReceived" /\ Ends(f, s) /\ InOrder({s, f})
        => waiting[s] = {}

\* Histories in which nothing is sent in the block in which it was received.
SentApart ==
    \A h \in Scenarios : \A i, j \in DOMAIN h :
      /\ i < j /\ h[i].on = h[j].on
      /\ h[i].type = "DeliveryReceived" /\ h[j].type = "DeliverySent"
      => h[i].time < h[j].time

\* An activity stops waiting only when an event that ends its task is handled,
\* one later in the order of the chains; in whichever order events come, and
\* also when a task starts in the block in which the last one ended.
OngoingKept ==
    [][\A s \in Ids :
         waiting[s] # {} /\ waiting'[s] = {} =>
           \E f \in begun : /\ s < f /\ Same(s, f)
                            /\ \E base \in StartsOf(f) : IsStart(s, base)]_vars

\* A package unresolved when its building is repossessed waits for the new
\* controller alone (BuildingRepossessed).
PackagesFollowBuilding ==
    \A p, r \in Ids :
      /\ IsStart(p, "DeliveryPackaged") /\ scenario[r].type = "BuildingRepossessed"
      /\ p < r /\ scenario[p].at = scenario[r].at
      /\ r \in handled \ skipped /\ InOrder(Ids)
      => waiting[p] \subseteq {<<x, "callerCrew">> : x \in r..Len(scenario)}

\* A handler that saved its component and then crashed does what always follows
\* from it when it is called again: lot data, notifications and updates elsewhere
\* are not lost (an event is not refused for being the one stored).  What it does
\* only if the document it replaced asks for it is another matter, see below.
FollowUpsSurvive ==
    \A e \in (handled \cap saved) \ skipped : \A op \in FollowUps :
      {<<e, op, n>> : n \in Named(scenario[e].type, op)} \subseteq effects

\* "If the new endTime is greater than the previous endTime and status is not null,
\* clear the status" (agreements/Prepaid.js): an agreement that was extended by the
\* last event of all is not cancelled or transferred any more.
ExtensionClears ==
    \A e \in handled :
      /\ "extends" \in scenario[e].flags
      /\ InOrder(Ids) /\ \A x \in begun : x <= e
      => On(e) \notin terminated

\* Components implement a register that holds the newest event it was offered.
Register == INSTANCE ComponentRegister
              WITH events <- scenario, register <- comps,
                   coarse <- {k \in Keys : \E e \in Ids :
                                k[1] \in Named(scenario[e].type, "replace")}
ImplementsRegister == Register!Spec

\* Once the queue is empty, a document shows the components it was queued for,
\* and the owners, as they are, whatever changed while it was formatted, whatever
\* crashed.  A removal whose handler crashed is the exception: called again, it
\* finds nothing to remove and queues nothing; and a document counts only if every
\* handler of the component, or of the owners, queues it (a name given on Ethereum
\* does not queue the related documents one given on Starknet does).
Queues(k, role) ==
    \A x \in handled : k[1] \in SavedBy(x) /\ k[2] = On(x)
                        => role \in Named(scenario[x].type, "index")
QueuesOwners(x, role) ==
    \A y \in handled : On(y) = x /\ Places(scenario[y].type, Owning) # {}
                        => role \in Named(scenario[y].type, "index")
SearchCurrent ==
    Quiet /\ queue = {} =>
      \A e \in handled : \A role \in Named(scenario[e].type, "index") :
        (\A x \in skipped : ~Same(x, e)) =>
          /\ \A c \in {d \in SavedBy(e) : Queues(<<d, On(e)>>, role)} :
               search[<<role, On(e)>>].comps[<<c, On(e)>>] = comps[<<c, On(e)>>]
          /\ QueuesOwners(On(e), role) =>
               search[<<role, On(e)>>].owners = owners[On(e)]

\* Histories in which nothing is proven or consumed before a first withdrawal of
\* the same amount to the same address.
WithdrawnFirst ==
    \A h \in Scenarios : \A e \in DOMAIN h :
      Named(h[e].type, "sway") \ {"initialize"} # {} =>
        \E i \in 1..(e - 1) : h[i].on = h[e].on /\ "initialize" \in Named(h[i].type, "sway")

\* Withdrawals of SWAY that are pending and ready are those initiated, proven
\* and consumed so far, each event counted once, unless one is missing.
SwayEvents(x, change) ==
    Cardinality({e \in handled : On(e) = x /\ change \in Named(scenario[e].type, "sway")})
SwayCounted ==
    Quiet /\ InOrder(Ids) /\ handled = 1..Cardinality(handled) =>
      \A x \in Entities :
        /\ sway[x].pending = SwayEvents(x, "initialize") - SwayEvents(x, "incrementReady")
        /\ sway[x].ready = SwayEvents(x, "incrementReady") - SwayEvents(x, "decrementReady")

Crosses(e, to) == to \in Named(scenario[e].type, "cross")
Completes(e, to) == to \in Named(scenario[e].type, "drop")

\* A crossing is shown until something completes it or the assets cross again:
\* what completes the way there does not remove the way back.
CrossingKept ==
    Quiet /\ InOrder(Ids) =>
      \A m \in handled, to \in {Starknet, Ethereum} :
        /\ Crosses(m, to)
        /\ \A x \in handled : m < x /\ Same(m, x) =>
             ~Completes(x, to) /\ Named(scenario[x].type, "cross") = {}
        => crossings[On(m)].event = m

\* A crossing is gone once a completion that was handled after its message was;
\* where the event on the other chain was retrieved too early to find it, the
\* consumption of the message is that completion.
CrossingGone ==
    \A m, c \in handled : \A to \in {Starknet, Ethereum} :
      Crosses(m, to) /\ Completes(c, to) /\ m < c /\ Same(m, c) /\ InOrder({m, c})
        => crossings[On(m)].event # m

\* The owner on a chain is that of the last event that says who it is, unless
\* a bridge has dropped it since; a transfer on one chain does not touch the
\* owner on the other.
OwnsOn(e, c) == c \in Named(scenario[e].type, "own") \cup Named(scenario[e].type, "ownAlone")
OwnersCurrent ==
    Quiet /\ InOrder(Ids) =>
      \A e \in handled, c \in {Starknet, Ethereum} :
        /\ OwnsOn(e, c)
        /\ \A x \in handled : e < x /\ Same(e, x) =>
             ~OwnsOn(x, c) /\ Named(scenario[x].type, "ownAlone") = {}
        => owners[On(e)][c] = e

\* Every event is handled for good, and what was queued is indexed.
EventuallySettled == <>[](handled = Ids /\ queue = {})
=============================================================================
