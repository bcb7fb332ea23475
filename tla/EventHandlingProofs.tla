-------------------------- MODULE EventHandlingProofs --------------------------
(***************************************************************************)
(* Theorems of every set of histories, however long, that the chain could  *)
(* have sent: the types; components implement the register of              *)
(* ComponentRegister; what the owners, the crossings of the bridge, the     *)
(* packages of a building, the follow-ups of a task, the notifications, the *)
(* withdrawals and the search index show once the handlers have run, with   *)
(* crashes between any two of their steps.                                  *)
(***************************************************************************)
EXTENDS EventHandling, SequenceTheorems, FiniteSetTheorems, TLAPS

\* The processor's record, whatever its fields hold.
Shaped(r) == r \in [event : {r.event}, pc : {r.pc}, created : {r.created},
                    found : {r.found}, updated : {r.updated}, old : {r.old},
                    rooms : {r.rooms}]
RunShape == Shaped(run)

HandlingTypes == TypeOK /\ RunShape

(***************************************************************************)
(* What an event of a scenario is, and what a history leaves unchanged.    *)
(***************************************************************************)
\* Events have times, and no event is before an earlier one.
LEMMA ScenarioFacts ==
    ASSUME scenario \in Scenarios
    PROVE  /\ Ids \subseteq Nat /\ 0 \notin Ids
           /\ \A e \in Ids : Time(e) \in Nat
           /\ \A e, x \in Ids : e <= x => Time(e) <= Time(x)
<1>1. scenario \in Seq(Event)
  BY ScenarioAssumption
<1>2. Ids = 1..Len(scenario) /\ Len(scenario) \in Nat
  BY <1>1 DEF Ids
<1>3. \A e \in Ids : scenario[e] \in Event
  BY <1>1, <1>2
<1>4. \A e \in Ids : Time(e) \in Nat
  BY <1>3 DEF Time, Event
<1>5. \A e, x \in Ids : e <= x => Time(e) <= Time(x)
  BY ScenarioAssumption DEF Ids, Time
<1> QED
  BY <1>2, <1>4, <1>5

\* What is computed from the scenario alone does not change.
LEMMA ScenarioKept ==
    ASSUME scenario' = scenario
    PROVE  /\ Ids' = Ids /\ Keys' = Keys /\ Entities' = Entities
           /\ \A e : Time(e)' = Time(e) /\ On(e)' = On(e)
  BY DEF Ids, Keys, Entities, Time, On, SavedBy

\* No action rewrites the history.
LEMMA NextKeepsScenario ==
    ASSUME [Next]_vars
    PROVE  scenario' = scenario
<1> USE DEF inputVars
<1>1. CASE Arrival
  BY <1>1 DEF Arrival, Arrive
<1>2. CASE Begin
  BY <1>2 DEF Begin
<1>3. CASE RunHandler
  BY <1>3 DEF RunHandler, RunStatus, RunEnsure, RunIfCreated, RunResolve, RunReassign,
     RunSave, RunReplace, RunRemove, RunIfUpdated, RunOwn, RunSway, RunCrossing,
     RunFollowUp, RunTell, RunIndex
<1>4. CASE Finalize \/ Emit \/ Crash \/ IndexerCrash \/ Indexing
  BY <1>4 DEF Finalize, Emit, Crash, IndexerCrash, Indexing, IndexerFetch,
     IndexerFormat, IndexerBulk, IndexerDelete
<1>5. CASE UNCHANGED vars
  BY <1>5 DEF vars
<1> QED
  BY <1>1, <1>2, <1>3, <1>4, <1>5 DEF Next, Process

\* What a handler saves are components of the scenario.
LEMMA SavedKeys ==
    ASSUME NEW e \in Ids, NEW op \in {"save", "saveOrRemove", "replace"},
           NEW component \in Named(scenario[e].type, op)
    PROVE  <<component, On(e)>> \in Keys
  BY DEF Keys, SavedBy

\* The names of the effect the processor is at are among the handler's.
LEMMA RunningNames ==
    ASSUME NEW ops, Running(ops), NEW name \in Names
    PROVE  \E op \in ops : name \in Named(scenario[run.event].type, op)
  BY DEF Running, Names, Named, Program

(***************************************************************************)
(* Types.                                                                  *)
(***************************************************************************)
\* In the beginning nothing is stored, and no record is missing.
LEMMA InitTypes == Init => HandlingTypes
<1> SUFFICES ASSUME Init PROVE HandlingTypes
  OBVIOUS
<1>1. comps \in [Keys -> {0} \cup begun] /\ offered \in [Keys -> SUBSET begun]
  BY DEF Init
<1>2. owners \in [Entities -> [{Starknet, Ethereum} -> {0} \cup begun]]
  BY DEF Init
<1>3. DOMAIN waiting = Ids /\ crashes \in 0..MaxCrashes
  BY CrashAssumption DEF Init
<1>4. RunShape /\ run.event = 0
  BY DEF Init, Idle, RunShape, Shaped
<1> QED
  BY <1>1, <1>2, <1>3, <1>4 DEF Init, HandlingTypes, TypeOK

\* The sets of events only grow, and the rest of TypeOK with them.
LEMMA GrowTypes ==
    ASSUME HandlingTypes, scenario' = scenario, RunShape',
           stored \subseteq stored', stored' \subseteq Ids,
           begun \subseteq begun', begun' \subseteq stored',
           handled' \subseteq begun', skipped' \subseteq begun',
           activities' \subseteq begun', saved' \subseteq begun',
           overtaken' \subseteq Ids \X Ids,
           run'.event \in begun' \cup {0},
           DOMAIN waiting' = Ids,
           comps' \in [Keys -> {0} \cup begun'], offered' \in [Keys -> SUBSET begun'],
           owners' \in [Entities -> [{Starknet, Ethereum} -> {0} \cup begun']],
           terminated' \subseteq Entities, crashes' \in 0..MaxCrashes
    PROVE  HandlingTypes'
  BY ScenarioKept DEF HandlingTypes, TypeOK

\* A step of a handler stays with its event.
Stays(r) == Shaped(r) /\ r.event = run.event

LEMMA RunStays ==
    ASSUME RunShape
    PROVE  /\ Stays(Onward(run)) /\ Stays(Leave(run))
           /\ \A b : /\ Stays([Onward(run) EXCEPT !.created = b])
                     /\ Stays([Onward(run) EXCEPT !.found = b])
                     /\ Stays([Onward(run) EXCEPT !.updated = b])
                     /\ Stays([Onward(run) EXCEPT !.rooms = b])
                     /\ \A o : Stays([Onward(run) EXCEPT !.updated = b, !.old = o])
<1>1. Stays(Onward(run))
  BY DEF RunShape, Shaped, Stays, Onward
<1>2. Stays(Leave(run))
  BY DEF RunShape, Shaped, Stays, Leave
<1>3. ASSUME NEW b PROVE Stays([Onward(run) EXCEPT !.created = b])
  BY <1>1 DEF Shaped, Stays
<1>4. ASSUME NEW b PROVE Stays([Onward(run) EXCEPT !.found = b])
  BY <1>1 DEF Shaped, Stays
<1>5. ASSUME NEW b PROVE Stays([Onward(run) EXCEPT !.updated = b])
  BY <1>1 DEF Shaped, Stays
<1>6. ASSUME NEW b PROVE Stays([Onward(run) EXCEPT !.rooms = b])
  BY <1>1 DEF Shaped, Stays
<1>7. ASSUME NEW b, NEW o PROVE Stays([Onward(run) EXCEPT !.updated = b, !.old = o])
  BY <1>1 DEF Shaped, Stays
<1> QED
  BY <1>1, <1>2, <1>3, <1>4, <1>5, <1>6, <1>7

LEMMA IdleStays == Shaped(Idle) /\ Idle.event = 0
  BY DEF Shaped, Idle

\* Every step of a handler moves on or leaves.
LEMMA RunMoves ==
    ASSUME HandlingTypes, RunHandler \/ Finalize
    PROVE  Shaped(run') /\ run'.event \in {0, run.event}
<1> USE RunStays, IdleStays DEF HandlingTypes, Stays
<1>1. CASE RunStatus
  BY <1>1 DEF RunStatus
<1>2. CASE RunEnsure
  BY <1>2 DEF RunEnsure
<1>3. CASE RunIfCreated
  BY <1>3 DEF RunIfCreated
<1>4. CASE RunResolve
  BY <1>4 DEF RunResolve
<1>5. CASE RunReassign \/ RunOwn \/ RunSway \/ RunCrossing \/ RunFollowUp \/ RunIndex
  BY <1>5 DEF RunReassign, RunOwn, RunSway, RunCrossing, RunFollowUp, RunIndex
<1>6. CASE RunSave \/ RunReplace
  <2>1. PICK b, o : run' = [Onward(run) EXCEPT !.updated = b, !.old = o]
    BY <1>6 DEF RunSave, RunReplace, Upsert
  <2>2. Stays([Onward(run) EXCEPT !.updated = b, !.old = o])
    OBVIOUS
  <2> QED
    BY <2>1, <2>2
<1>7. CASE RunRemove
  <2>1. \E b : run' = [Onward(run) EXCEPT !.updated = b]
    BY <1>7 DEF RunRemove
  <2> QED
    BY <2>1
<1>8. CASE RunIfUpdated
  BY <1>8 DEF RunIfUpdated
<1>9. CASE RunTell
  <2>1. \A b : Stays([Onward(run) EXCEPT !.rooms = b])
    OBVIOUS
  <2>2. run' = Onward(run) \/ run' = [Onward(run) EXCEPT !.rooms = @ \cup Names]
    BY <1>9 DEF RunTell
  <2> QED
    BY <2>1, <2>2
<1>10. CASE Finalize
  BY <1>10 DEF Finalize
<1> QED
  BY <1>1, <1>2, <1>3, <1>4, <1>5, <1>6, <1>7, <1>8, <1>9, <1>10 DEF RunHandler

\* Actions that leave the sets of events to others.
LEMMA SameTypes ==
    ASSUME HandlingTypes, UNCHANGED inputVars,
           Shaped(run'), run'.event \in {0, run.event},
           handled' \subseteq begun, skipped' \subseteq begun,
           activities' \subseteq begun, saved' \subseteq begun,
           DOMAIN waiting' = Ids,
           comps' \in [Keys -> {0} \cup begun], offered' \in [Keys -> SUBSET begun],
           owners' \in [Entities -> [{Starknet, Ethereum} -> {0} \cup begun]],
           terminated' \subseteq Entities, crashes' \in 0..MaxCrashes
    PROVE  HandlingTypes'
  BY GrowTypes DEF inputVars, HandlingTypes, TypeOK, RunShape

\* The event of a handler that runs is one that has begun.
LEMMA RunningBegun ==
    ASSUME HandlingTypes, run.event # 0
    PROVE  run.event \in begun /\ run.event \in Ids /\ begun \subseteq Ids
  BY DEF HandlingTypes, TypeOK

\* The handlers keep the types.
LEMMA HandlerTypes ==
    ASSUME HandlingTypes, RunHandler
    PROVE  HandlingTypes'
<1> DEFINE e == run.event
<1>0. Shaped(run') /\ run'.event \in {0, run.event}
  BY RunMoves
<1>1. e # 0
  BY DEF RunHandler, RunStatus, RunEnsure, RunIfCreated, RunResolve, RunReassign,
     RunSave, RunReplace, RunRemove, RunIfUpdated, RunOwn, RunSway, RunCrossing,
     RunFollowUp, RunTell, RunIndex, Running
<1>2. e \in begun /\ e \in Ids /\ begun \subseteq Ids
  BY <1>1, RunningBegun
<1>t. /\ handled \subseteq begun /\ skipped \subseteq begun /\ activities \subseteq begun
      /\ saved \subseteq begun /\ DOMAIN waiting = Ids
      /\ comps \in [Keys -> {0} \cup begun] /\ offered \in [Keys -> SUBSET begun]
      /\ owners \in [Entities -> [{Starknet, Ethereum} -> {0} \cup begun]]
      /\ terminated \subseteq Entities /\ crashes \in 0..MaxCrashes
  BY DEF HandlingTypes, TypeOK
<1>3. CASE RunEnsure
  <2>1. DOMAIN waiting' = Ids
    BY <1>3, <1>t DEF RunEnsure
  <2> QED
    BY <1>3, <1>0, <1>2, <1>t, <2>1, SameTypes
       DEF RunEnsure, inputVars, progressVars, componentVars, bridgeVars
<1>4. CASE RunIfCreated \/ RunIfUpdated
  BY <1>4, <1>0, <1>2, <1>t, SameTypes
     DEF RunIfCreated, RunIfUpdated, inputVars, activityVars, componentVars, bridgeVars
<1>5. CASE RunResolve \/ RunReassign
  <2>1. DOMAIN waiting' = Ids
    BY <1>5 DEF RunResolve, RunReassign
  <2> QED
    BY <1>5, <1>0, <1>t, <2>1, SameTypes
       DEF RunResolve, RunReassign, inputVars, progressVars, componentVars, bridgeVars
<1>6. CASE RunSave \/ RunReplace
  <2>1. PICK k \in Keys : \E refused \in BOOLEAN : Upsert(k, e, refused)
    <3>1. CASE RunSave
      <4>1. PICK component \in Names : \E r \in BOOLEAN : Upsert(<<component, On(e)>>, e, r)
        BY <3>1 DEF RunSave, Refuses
      <4> QED
        BY <3>1, <4>1, <1>2, RunningNames, SavedKeys DEF RunSave
    <3>2. CASE RunReplace
      <4>1. PICK document \in Names : \E r \in BOOLEAN : Upsert(<<document, On(e)>>, e, r)
        BY <3>2 DEF RunReplace
      <4> QED
        BY <3>2, <4>1, <1>2, RunningNames, SavedKeys DEF RunReplace
    <3> QED
      BY <1>6, <3>1, <3>2
  <2>2. /\ comps' \in [Keys -> {0} \cup begun] /\ offered' \in [Keys -> SUBSET begun]
        /\ saved' \subseteq begun
    BY <2>1, <1>2, <1>t DEF Upsert, Offer, Store
  <2> QED
    BY <1>6, <1>0, <1>t, <2>2, SameTypes
       DEF RunSave, RunReplace, inputVars, progressVars, activityVars, bridgeVars
<1>7. CASE RunRemove
  <2>1. /\ comps' \in [Keys -> {0} \cup begun] /\ offered' \in [Keys -> SUBSET begun]
        /\ terminated' \subseteq Entities
    BY <1>7, <1>t DEF RunRemove
  <2> QED
    BY <1>7, <1>0, <1>t, <2>1, SameTypes
       DEF RunRemove, inputVars, progressVars, activityVars, bridgeVars
<1>8. CASE RunOwn
  <2>1. owners' \in [Entities -> [{Starknet, Ethereum} -> {0} \cup begun]]
    <3>1. ASSUME NEW op, NEW o \in [{Starknet, Ethereum} -> {0} \cup begun]
          PROVE  OwnersAfter(op, o, e) \in [{Starknet, Ethereum} -> {0} \cup begun]
      BY <1>2 DEF OwnersAfter
    <3> QED
      BY <1>8, <1>t, <3>1 DEF RunOwn
  <2> QED
    BY <1>8, <1>0, <1>t, <2>1, SameTypes
       DEF RunOwn, inputVars, progressVars, activityVars, componentVars
<1>9. CASE RunSway \/ RunCrossing \/ RunFollowUp \/ RunTell \/ RunIndex
  BY <1>9, <1>0, <1>t, SameTypes
     DEF RunSway, RunCrossing, RunFollowUp, RunTell, RunIndex, inputVars,
     progressVars, activityVars, componentVars, bridgeVars
<1>10. CASE RunStatus
  <2>1. terminated' \subseteq Entities
    BY <1>10, <1>2, <1>t DEF RunStatus, StatusAfter, Entities
  <2> QED
    BY <1>10, <1>0, <1>t, <2>1, SameTypes
       DEF RunStatus, inputVars, progressVars, activityVars, bridgeVars
<1> QED
  BY <1>3, <1>4, <1>5, <1>6, <1>7, <1>8, <1>9, <1>10 DEF RunHandler

\* Every step keeps the types.
LEMMA NextTypes == HandlingTypes /\ [Next]_vars => HandlingTypes'
<1> SUFFICES ASSUME HandlingTypes, [Next]_vars PROVE HandlingTypes'
  OBVIOUS
<1>t. /\ stored \subseteq Ids /\ begun \subseteq stored /\ handled \subseteq begun
      /\ overtaken \subseteq Ids \X Ids
      /\ skipped \subseteq begun /\ activities \subseteq begun
      /\ saved \subseteq begun /\ DOMAIN waiting = Ids
      /\ run.event \in begun \cup {0} /\ Shaped(run)
      /\ comps \in [Keys -> {0} \cup begun] /\ offered \in [Keys -> SUBSET begun]
      /\ owners \in [Entities -> [{Starknet, Ethereum} -> {0} \cup begun]]
      /\ terminated \subseteq Entities /\ crashes \in 0..MaxCrashes
  BY DEF HandlingTypes, TypeOK, RunShape
<1>1. CASE Arrival
  <2>1. PICK e \in Ids : Arrive(e)
    BY <1>1 DEF Arrival
  <2> QED
    BY <2>1, <1>t, GrowTypes
       DEF Arrive, progressVars, activityVars, componentVars, bridgeVars, RunShape
<1>2. CASE Begin
  <2>1. PICK e \in Backlog : /\ run' = [Idle EXCEPT !.event = e]
                             /\ begun' = begun \cup {e}
                             /\ overtaken' = overtaken \cup {<<e, x>> : x \in {y \in begun : e < y}}
    BY <1>2 DEF Begin
  <2>2. Shaped(run') /\ run'.event = e
    BY <2>1 DEF Idle, Shaped
  <2>3. e \in stored /\ overtaken' \subseteq Ids \X Ids
    BY <2>1, <1>t DEF Backlog
  <2>4. \A x : x \in [Keys -> {0} \cup begun] => x \in [Keys -> {0} \cup begun']
    BY <2>1
  <2>5. \A x : x \in [Keys -> SUBSET begun] => x \in [Keys -> SUBSET begun']
    BY <2>1
  <2>6. \A x : x \in [Entities -> [{Starknet, Ethereum} -> {0} \cup begun]]
                 => x \in [Entities -> [{Starknet, Ethereum} -> {0} \cup begun']]
    BY <2>1
  <2>7. comps' \in [Keys -> {0} \cup begun'] /\ offered' \in [Keys -> SUBSET begun']
    BY <1>2, <1>t, <2>4, <2>5 DEF Begin, componentVars
  <2>8. owners' \in [Entities -> [{Starknet, Ethereum} -> {0} \cup begun']]
    BY <1>2, <1>t, <2>6 DEF Begin, bridgeVars
  <2> QED
    BY <1>2, <1>t, <2>1, <2>2, <2>3, <2>7, <2>8, GrowTypes
       DEF Begin, progressVars, activityVars, componentVars, RunShape
<1>3. CASE RunHandler
  BY <1>3, HandlerTypes
<1>4. CASE Finalize
  <2>1. Shaped(run') /\ run'.event \in {0, run.event}
    BY <1>4, RunMoves
  <2> QED
    BY <1>4, <1>t, <2>1, SameTypes
       DEF Finalize, inputVars, activityVars, componentVars, bridgeVars
<1>5. CASE Emit \/ Crash
  <2>1. crashes' \in 0..MaxCrashes
    BY <1>5, <1>t, CrashAssumption DEF Emit, Crash
  <2> QED
    BY <1>5, <1>t, <2>1, IdleStays, SameTypes
       DEF Emit, Crash, inputVars, activityVars, componentVars, bridgeVars
<1>6. CASE Indexing \/ IndexerCrash
  <2>1. crashes' \in 0..MaxCrashes
    BY <1>6, <1>t, CrashAssumption
       DEF Indexing, IndexerCrash, IndexerFetch, IndexerFormat, IndexerBulk,
           IndexerDelete, progressVars
  <2>2. UNCHANGED <<inputVars, run, handled, skipped, activityVars, componentVars, bridgeVars>>
    BY <1>6 DEF Indexing, IndexerCrash, IndexerFetch, IndexerFormat, IndexerBulk,
                IndexerDelete, progressVars
  <2> QED
    BY <1>t, <2>1, <2>2, SameTypes DEF inputVars, activityVars, componentVars, bridgeVars
<1>7. CASE UNCHANGED vars
  BY <1>7, <1>t, SameTypes
     DEF vars, inputVars, progressVars, activityVars, componentVars, bridgeVars
<1> QED
  BY <1>1, <1>2, <1>3, <1>4, <1>5, <1>6, <1>7 DEF Next, Process

\* Of all histories: what is stored, begun, handled and saved are events of the
\* history, one a subset of the next, and every component and owner is of an
\* event that has begun.
THEOREM HandlingTypesHold == Spec => []TypeOK
<1>1. HandlingTypes => TypeOK
  BY DEF HandlingTypes
<1> QED
  BY InitTypes, NextTypes, <1>1, PTL DEF Spec

(***************************************************************************)
(* Components implement the register.                                      *)
(***************************************************************************)
Coarse == {k \in Keys : \E e \in Ids : k[1] \in Named(scenario[e].type, "replace")}

\* What a component shows of the events it was offered.
ShowsNewest(k) ==
    IF comps[k] = 0 THEN offered[k] = {} ELSE comps[k] \in Register!Newest(k, offered[k])
RegisterInv == HandlingTypes /\ \A k \in Keys : ShowsNewest(k)

\* Between what is shown and an event offered: the later of the two by place,
\* when one chain is compared, and by time when both are, is the newest.
LEMMA NewestOfTwo ==
    ASSUME scenario \in Scenarios, NEW k \in Keys, NEW S \in SUBSET Ids,
           NEW x \in Register!Newest(k, S), NEW e \in Ids
    PROVE  /\ Refuses(x, e) => x \in Register!Newest(k, S \cup {e})
           /\ ~Refuses(x, e) => e \in Register!Newest(k, S \cup {e})
<1> DEFINE T == S \cup {e}
<1>1. /\ x \in S /\ x \in Ids /\ x # 0
      /\ \A y \in S : Time(y) <= Time(x)
      /\ k \notin Coarse /\ Register!OneChain(S) => \A y \in S : y <= x
  BY ScenarioFacts DEF Register!Newest, Coarse, Time
<1>2. /\ Ids \subseteq Nat
      /\ \A y \in Ids : Time(y) \in Nat
      /\ \A y, z \in Ids : y <= z => Time(y) <= Time(z)
  BY ScenarioFacts
<1>3. Register!OneChain(T) => Register!OneChain(S) /\ scenario[x].chain = scenario[e].chain
  BY <1>1 DEF Register!OneChain
<1>4. CASE Refuses(x, e)
  <2>1. Time(e) <= Time(x)
    BY <1>1, <1>2, <1>4 DEF Refuses
  <2>2. Register!OneChain(T) => e <= x
    BY <1>1, <1>2, <1>3, <1>4 DEF Refuses
  <2>3. \A y \in T : /\ Time(y) <= Time(x)
                     /\ k \notin Coarse /\ Register!OneChain(T) => y <= x
    BY <1>1, <1>3, <2>1, <2>2
  <2> QED
    BY <1>1, <1>4, <2>3 DEF Register!Newest, Coarse, Time
<1>5. CASE ~Refuses(x, e)
  <2>1. Time(x) <= Time(e)
    BY <1>1, <1>2, <1>5 DEF Refuses
  <2>2. Register!OneChain(T) => x <= e
    BY <1>1, <1>2, <1>3, <1>5 DEF Refuses
  <2>3. \A y \in T : /\ Time(y) <= Time(e)
                     /\ k \notin Coarse /\ Register!OneChain(T) => y <= e
    <3>1. ASSUME NEW y \in S PROVE Time(y) <= Time(e)
      BY <1>1, <1>2, <2>1
    <3>2. ASSUME NEW y \in S, k \notin Coarse, Register!OneChain(T) PROVE y <= e
      BY <1>1, <1>2, <1>3, <2>2, <3>2
    <3> QED
      BY <1>2, <3>1, <3>2
  <2> QED
    BY <1>5, <2>3 DEF Register!Newest, Coarse, Time
<1> QED
  BY <1>4, <1>5

\* The same of a register that compares timestamps alone.
LEMMA NewestByTime ==
    ASSUME scenario \in Scenarios, NEW k \in Coarse, NEW S \in SUBSET Ids,
           NEW x \in Register!Newest(k, S), NEW e \in Ids
    PROVE  /\ Time(e) < Time(x) => x \in Register!Newest(k, S \cup {e})
           /\ ~(Time(e) < Time(x)) => e \in Register!Newest(k, S \cup {e})
<1>1. x \in S /\ x \in Ids /\ \A y \in S : Time(y) <= Time(x)
  BY DEF Register!Newest, Time
<1>2. \A y \in Ids : Time(y) \in Nat
  BY ScenarioFacts
<1>3. Time(e) < Time(x) => \A y \in S \cup {e} : Time(y) <= Time(x)
  BY <1>1, <1>2
<1>4. ~(Time(e) < Time(x)) => \A y \in S \cup {e} : Time(y) <= Time(e)
  BY <1>1, <1>2
<1> QED
  BY <1>1, <1>3, <1>4 DEF Register!Newest, Coarse, Time

\* What is offered first is the newest of what was offered.
LEMMA NewestOfOne ==
    ASSUME scenario \in Scenarios, NEW k \in Keys, NEW e \in Ids
    PROVE  e \in Register!Newest(k, {e})
  BY ScenarioFacts DEF Register!Newest, Time

LEMMA InitRegister == Init => RegisterInv /\ Register!Init
<1> SUFFICES ASSUME Init PROVE RegisterInv /\ Register!Init
  OBVIOUS
<1>1. HandlingTypes
  BY InitTypes
<1> QED
  BY <1>1 DEF Init, RegisterInv, ShowsNewest, Register!Init

\* A handler that saves a component offers its event to the register.
LEMMA UpsertOffers ==
    ASSUME RegisterInv, NEW k \in Keys, NEW e \in Ids, NEW refused \in BOOLEAN,
           Upsert(k, e, refused), scenario' = scenario,
           \/ refused = Refuses(comps[k], e)
           \/ /\ k \in Coarse
              /\ refused = (comps[k] # 0 /\ Time(e) < Time(comps[k]))
    PROVE  Register!Offer(k, e)
<1>1. /\ scenario \in Scenarios /\ begun \subseteq Ids
      /\ comps \in [Keys -> {0} \cup begun] /\ offered \in [Keys -> SUBSET begun]
  BY DEF RegisterInv, HandlingTypes, TypeOK
<1>2. /\ offered' = [offered EXCEPT ![k] = @ \cup {e}]
      /\ offered'[k] = offered[k] \cup {e} /\ offered[k] \in SUBSET Ids
  BY <1>1 DEF Upsert, Offer
<1>3. comps' = [comps EXCEPT ![k] = IF refused THEN comps[k] ELSE e]
  BY <1>1 DEF Upsert, Store
<1>4. (IF refused THEN comps[k] ELSE e) \in Register!Newest(k, offered'[k])
  <2>1. CASE comps[k] = 0
    <3>1. ~refused /\ offered[k] = {}
      BY <2>1 DEF RegisterInv, ShowsNewest, Refuses
    <3> QED
      BY <1>1, <1>2, <3>1, NewestOfOne
  <2>2. CASE comps[k] # 0
    <3>1. comps[k] \in Register!Newest(k, offered[k])
      BY <2>2 DEF RegisterInv, ShowsNewest
    <3> QED
      BY <1>1, <1>2, <2>2, <3>1, NewestOfTwo, NewestByTime
  <2> QED
    BY <2>1, <2>2
<1> QED
  BY <1>2, <1>3, <1>4 DEF Register!Offer

\* Every step is one of the register or leaves it as it is.
LEMMA NextRegister ==
    ASSUME RegisterInv, [Next]_vars
    PROVE  [Register!Next]_<<scenario, Coarse, comps, offered>>
<1> DEFINE e == run.event
<1>1. scenario' = scenario /\ Coarse' = Coarse
  <2>1. scenario' = scenario
    BY NextKeepsScenario
  <2> QED
    BY <2>1, ScenarioKept DEF Coarse
<1>2. DOMAIN comps = Keys /\ HandlingTypes
  BY DEF RegisterInv, HandlingTypes, TypeOK
<1>3. CASE RunSave
  <2>1. e \in Ids
    BY <1>2, <1>3, RunningBegun DEF RunSave, Running
  <2>2. PICK component \in Names :
          Upsert(<<component, On(e)>>, e, Refuses(comps[<<component, On(e)>>], e))
    BY <1>3 DEF RunSave
  <2>3. <<component, On(e)>> \in Keys
    BY <1>3, <2>1, RunningNames, SavedKeys DEF RunSave
  <2>4. Refuses(comps[<<component, On(e)>>], e) \in BOOLEAN
    BY DEF Refuses
  <2>5. Register!Offer(<<component, On(e)>>, e)
    BY <1>1, <2>1, <2>2, <2>3, <2>4, UpsertOffers
  <2> QED
    BY <1>1, <1>2, <2>1, <2>3, <2>5 DEF Register!Next, Ids, Coarse
<1>4. CASE RunReplace
  <2>1. e \in Ids
    BY <1>2, <1>4, RunningBegun DEF RunReplace, Running
  <2>2. PICK document \in Names :
          LET k == <<document, On(e)>>
          IN Upsert(k, e, comps[k] # 0 /\ Time(e) < Time(comps[k]))
    BY <1>4 DEF RunReplace
  <2>3. document \in Named(scenario[e].type, "replace")
    BY <1>4, RunningNames DEF RunReplace
  <2>4. <<document, On(e)>> \in Keys /\ <<document, On(e)>> \in Coarse
    BY <2>1, <2>3, SavedKeys DEF Coarse
  <2>5. Register!Offer(<<document, On(e)>>, e)
    BY <1>1, <2>1, <2>2, <2>4, UpsertOffers
  <2> QED
    BY <1>1, <1>2, <2>1, <2>4, <2>5 DEF Register!Next, Ids, Coarse
<1>5. CASE RunRemove
  <2>1. e \in Ids
    BY <1>2, <1>5, RunningBegun DEF RunRemove, Running
  <2>2. PICK component \in Names :
          /\ comps' = [comps EXCEPT ![<<component, On(e)>>] = 0]
          /\ offered' = [offered EXCEPT ![<<component, On(e)>>] = {}]
    BY <1>5 DEF RunRemove
  <2>3. <<component, On(e)>> \in Keys
    BY <1>5, <2>1, RunningNames, SavedKeys DEF RunRemove
  <2>4. Register!Remove(<<component, On(e)>>)
    BY <2>2 DEF Register!Remove
  <2> QED
    BY <1>1, <1>2, <2>3, <2>4 DEF Register!Next, Coarse
<1>6. CASE UNCHANGED <<comps, offered>>
  BY <1>1, <1>6
<1>7. CASE RunHandler /\ ~(RunSave \/ RunReplace \/ RunRemove)
  <2>1. UNCHANGED <<comps, offered>>
    BY <1>7 DEF RunHandler, RunStatus, RunEnsure, RunIfCreated, RunResolve, RunReassign,
       RunIfUpdated, RunOwn, RunSway, RunCrossing, RunFollowUp, RunTell, RunIndex,
       componentVars
  <2> QED
    BY <1>6, <2>1
<1>8. CASE Arrival \/ Begin \/ Finalize \/ Emit \/ Crash \/ IndexerCrash
  <2>1. UNCHANGED <<comps, offered>>
    BY <1>8 DEF Arrival, Arrive, Begin, Finalize, Emit, Crash, IndexerCrash, componentVars
  <2> QED
    BY <1>6, <2>1
<1>9. CASE Indexing \/ UNCHANGED vars
  <2>1. UNCHANGED <<comps, offered>>
    BY <1>9 DEF Indexing, IndexerFetch, IndexerFormat, IndexerBulk, IndexerDelete,
       vars, componentVars
  <2> QED
    BY <1>6, <2>1
<1> QED
  BY <1>3, <1>4, <1>5, <1>7, <1>8, <1>9 DEF Next, Process

\* What the register shows is an invariant of its own steps.
LEMMA NextShowsNewest ==
    ASSUME RegisterInv, [Next]_vars
    PROVE  RegisterInv'
<1>1. HandlingTypes'
  BY NextTypes DEF RegisterInv
<1>2. scenario' = scenario /\ Keys' = Keys /\ Coarse' = Coarse
  <2>1. scenario' = scenario
    BY NextKeepsScenario
  <2> QED
    BY <2>1, ScenarioKept DEF Coarse
<1>3. /\ comps \in [Keys -> {0} \cup begun] /\ offered \in [Keys -> SUBSET begun]
      /\ 0 \notin begun
  BY ScenarioFacts DEF RegisterInv, HandlingTypes, TypeOK
<1>4. ASSUME NEW k \in Keys, comps'[k] # 0, comps'[k] \in Register!Newest(k, offered'[k])
      PROVE  ShowsNewest(k)'
  BY <1>2, <1>4 DEF ShowsNewest, Register!Newest, Register!OneChain, Coarse
<1>5. ASSUME NEW k \in Keys, comps'[k] = comps[k], offered'[k] = offered[k]
      PROVE  ShowsNewest(k)'
  BY <1>2, <1>5 DEF RegisterInv, ShowsNewest, Register!Newest, Register!OneChain, Coarse
<1>6. CASE Register!Next
  <2>1. PICK k \in Keys : Register!Remove(k) \/ \E e \in DOMAIN scenario : Register!Offer(k, e)
    BY <1>3, <1>6 DEF Register!Next
  <2>2. \A j \in Keys \ {k} : comps'[j] = comps[j] /\ offered'[j] = offered[j]
    BY <1>3, <2>1 DEF Register!Remove, Register!Offer
  <2>3. ShowsNewest(k)'
    <3>1. CASE Register!Remove(k)
      BY <1>3, <3>1 DEF Register!Remove, ShowsNewest
    <3>2. ASSUME NEW e \in DOMAIN scenario, Register!Offer(k, e) PROVE ShowsNewest(k)'
      <4>1. comps'[k] \in Register!Newest(k, offered'[k])
        BY <1>3, <3>2 DEF Register!Offer
      <4>2. offered'[k] \subseteq Ids
        BY <1>3, <3>2 DEF Register!Offer, Ids, RegisterInv, HandlingTypes, TypeOK
      <4>3. comps'[k] # 0
        BY <4>1, <4>2, ScenarioFacts DEF Register!Newest, RegisterInv, HandlingTypes, TypeOK
      <4> QED
        BY <1>4, <4>1, <4>3
    <3> QED
      BY <2>1, <3>1, <3>2
  <2>4. \A j \in Keys : ShowsNewest(j)'
    BY <1>5, <2>2, <2>3
  <2> QED
    BY <1>1, <1>2, <2>4 DEF RegisterInv
<1>7. CASE UNCHANGED <<scenario, Coarse, comps, offered>>
  BY <1>1, <1>2, <1>5, <1>7 DEF RegisterInv
<1> QED
  BY <1>6, <1>7, NextRegister

\* Whatever the histories, in whatever order their events are stored and
\* however often the processor crashes: a component shows the newest of the
\* events it was offered since it was last removed (updateOrCreateFromEvent,
\* and its siblings of sales).
THEOREM ComponentsImplementRegister == Spec => ImplementsRegister
<1>1. Init => RegisterInv /\ Register!Init
  BY InitRegister
<1>2. RegisterInv /\ [Next]_vars => RegisterInv'
  BY NextShowsNewest
<1>3. RegisterInv /\ [Next]_vars => [Register!Next]_<<scenario, Coarse, comps, offered>>
  BY NextRegister
<1> QED
  BY <1>1, <1>2, <1>3, PTL DEF Spec, ImplementsRegister, Register!Spec, Coarse

(***************************************************************************)
(* Activities.                                                             *)
(***************************************************************************)
\* Only what has an activity can be waited for.
WaitingInv == HandlingTypes /\ \A a \in Ids : waiting[a] # {} => a \in activities

LEMMA InitWaiting == Init => WaitingInv
<1> SUFFICES ASSUME Init PROVE WaitingInv
  OBVIOUS
<1>1. HandlingTypes
  BY InitTypes
<1> QED
  BY <1>1 DEF Init, WaitingInv

\* Handlers aside, nothing writes activities.
LEMMA OthersLeaveActivities ==
    ASSUME [Next]_vars, ~(RunEnsure \/ RunResolve \/ RunReassign)
    PROVE  UNCHANGED <<activities, waiting>>
<1>1. CASE RunHandler
  BY <1>1 DEF RunHandler, RunStatus, RunIfCreated, RunSave, RunReplace, RunRemove,
     RunIfUpdated, RunOwn, RunSway, RunCrossing, RunFollowUp, RunTell, RunIndex,
     activityVars
<1>2. CASE Arrival \/ Begin \/ Finalize \/ Emit \/ Crash \/ IndexerCrash
  BY <1>2 DEF Arrival, Arrive, Begin, Finalize, Emit, Crash, IndexerCrash, activityVars
<1>3. CASE Indexing \/ UNCHANGED vars
  BY <1>3 DEF Indexing, IndexerFetch, IndexerFormat, IndexerBulk, IndexerDelete,
     vars, activityVars
<1> QED
  BY <1>1, <1>2, <1>3 DEF Next, Process

LEMMA NextWaiting ==
    ASSUME WaitingInv, [Next]_vars
    PROVE  WaitingInv'
<1>1. HandlingTypes' /\ Ids' = Ids
  BY NextTypes, NextKeepsScenario, ScenarioKept DEF WaitingInv
<1>2. CASE RunEnsure
  BY <1>1, <1>2 DEF RunEnsure, WaitingInv, HandlingTypes, TypeOK
<1>3. CASE RunResolve
  BY <1>1, <1>3 DEF RunResolve, WaitingInv
<1>4. CASE RunReassign
  BY <1>1, <1>4 DEF RunReassign, Reassigned, WaitingInv
<1>5. CASE ~(RunEnsure \/ RunResolve \/ RunReassign)
  BY <1>1, <1>5, OthersLeaveActivities DEF WaitingInv
<1> QED
  BY <1>2, <1>3, <1>4, <1>5

\* The start a handler finds is of its own task.
LEMMA FoundIsEnded ==
    ASSUME HandlingTypes, Running({"resolve", "resolveIfNotFound", "resolveIfCrew"}),
           Looks, NEW base \in Names, NEW a \in FindStart(run.event, base), a # 0
    PROVE  /\ run.event \in begun /\ a < run.event /\ Same(a, run.event)
           /\ base \in StartsOf(run.event) /\ IsStart(a, base)
<1> DEFINE e == run.event
<1>1. e \in begun
  BY RunningBegun DEF Running
<1>2. a < e /\ a \in Starts(e, base)
  BY DEF FindStart, Newest
<1>3. base \in StartsOf(e)
  <2>1. CASE Running({"resolve"})
    BY <2>1, RunningNames DEF StartsOf
  <2>2. CASE Running({"resolveIfNotFound"})
    BY <2>2, RunningNames DEF StartsOf
  <2>3. CASE Running({"resolveIfCrew"}) /\ "aboard" \in scenario[e].flags
    BY <2>3, RunningNames DEF StartsOf
  <2> QED
    BY <2>1, <2>2, <2>3 DEF Looks
<1> QED
  BY <1>1, <1>2, <1>3 DEF Starts, Same, IsStart

\* Whatever the histories and the order their events are stored in: an activity
\* that waits stops waiting only for an event, later in the order of the chains,
\* that ends its task (findStartActivity, resolveStartActivity).
THEOREM OngoingStays == Spec => OngoingKept
<1> DEFINE Kept(s) == waiting[s] # {} /\ waiting'[s] = {} =>
                        \E f \in begun : /\ s < f /\ Same(s, f)
                                         /\ \E base \in StartsOf(f) : IsStart(s, base)
<1>1. ASSUME WaitingInv, [Next]_vars, NEW s \in Ids PROVE Kept(s)
  <2>1. CASE RunEnsure
    BY <1>1, <2>1 DEF RunEnsure, WaitingInv, HandlingTypes, TypeOK
  <2>2. CASE RunResolve
    <3>1. PICK base \in Names : \E a \in IF Looks THEN FindStart(run.event, base) ELSE {0} :
            waiting' = [e \in Ids |-> IF e = a THEN {} ELSE waiting[e]]
      BY <2>2 DEF RunResolve
    <3>2. SUFFICES ASSUME waiting[s] # {}, waiting'[s] = {}
                   PROVE  Looks /\ s \in FindStart(run.event, base) /\ s # 0
      BY <1>1, <2>2, FoundIsEnded DEF RunResolve, WaitingInv
    <3>3. s # 0
      BY <1>1, ScenarioFacts DEF WaitingInv, HandlingTypes, TypeOK
    <3> QED
      BY <3>1, <3>2, <3>3
  <2>3. CASE RunReassign
    BY <2>3 DEF RunReassign
  <2>4. CASE ~(RunEnsure \/ RunResolve \/ RunReassign)
    BY <1>1, <2>4, OthersLeaveActivities
  <2> QED
    BY <2>1, <2>2, <2>3, <2>4
<1>2. WaitingInv /\ [Next]_vars => \A s \in Ids : Kept(s)
  BY <1>1
<1> QED
  BY <1>2, InitWaiting, NextWaiting, PTL DEF Spec, OngoingKept

(***************************************************************************)
(* The order of the handlers.                                              *)
(***************************************************************************)
\* The effect at a place of the handler of an event, and where it returns.
Op(e, i) == Program(e)[i].op
End(e) == Len(Program(e)) + 1

\* A handler that runs is of an event that was not handled before, unless only
\* its messages are left; it is before every event that was begun and is not
\* handled; and an event that was not handled when a later one was begun had not
\* begun itself.
InTurn ==
    /\ HandlingTypes
    /\ run.event # 0 => run.pc \in 1..(End(run.event) + 1)
    /\ run.event \in handled => run.pc = End(run.event) + 1
    /\ \A e \in begun \ handled : run.event <= e
    /\ \A e \in begun \ handled, x \in begun : e < x => <<e, x>> \in overtaken

\* What each step makes of the processor's record.
LEMMA RunFields ==
    ASSUME RunShape
    PROVE  /\ Onward(run).pc = run.pc + 1 /\ Leave(run).pc = End(run.event)
           /\ \A b : /\ [Onward(run) EXCEPT !.created = b].pc = run.pc + 1
                     /\ [Onward(run) EXCEPT !.found = b].pc = run.pc + 1
                     /\ [Onward(run) EXCEPT !.rooms = b].pc = run.pc + 1
                     /\ [Onward(run) EXCEPT !.updated = b].pc = run.pc + 1
                     /\ [Onward(run) EXCEPT !.updated = b].updated = b
<1>1. run = [event |-> run.event, pc |-> run.pc, created |-> run.created,
             found |-> run.found, updated |-> run.updated, old |-> run.old,
             rooms |-> run.rooms]
  BY DEF RunShape, Shaped
<1>2. /\ Onward(run) = [event |-> run.event, pc |-> run.pc + 1, created |-> run.created,
                        found |-> run.found, updated |-> run.updated, old |-> run.old,
                        rooms |-> run.rooms]
      /\ Leave(run).pc = End(run.event)
  BY <1>1 DEF Onward, Leave, End
<1>3. \A b : /\ [Onward(run) EXCEPT !.created = b].pc = run.pc + 1
             /\ [Onward(run) EXCEPT !.found = b].pc = run.pc + 1
             /\ [Onward(run) EXCEPT !.rooms = b].pc = run.pc + 1
             /\ [Onward(run) EXCEPT !.updated = b].pc = run.pc + 1
             /\ [Onward(run) EXCEPT !.updated = b].updated = b
  BY <1>2
<1> QED
  BY <1>2, <1>3

\* The record after a save.
LEMMA SaveFields ==
    ASSUME RunShape, NEW b, NEW o, run' = [Onward(run) EXCEPT !.updated = b, !.old = o]
    PROVE  /\ Shaped(run') /\ run'.event = run.event
           /\ run'.pc = run.pc + 1 /\ run'.updated = b
<1>1. Shaped(Onward(run)) /\ Onward(run).event = run.event
  BY RunStays DEF Stays
<1>2. Onward(run).pc = run.pc + 1
  BY RunFields
<1> QED
  BY <1>1, <1>2 DEF Shaped

\* The handler of an event of a scenario is a sequence of effects.
LEMMA ProgramOf ==
    ASSUME HandlingTypes, NEW e \in Ids
    PROVE  /\ scenario[e].type \in DOMAIN Programs
           /\ Program(e) \in Seq([op : STRING, on : SUBSET STRING])
           /\ Len(Program(e)) \in Nat /\ DOMAIN Program(e) = 1..Len(Program(e))
<1>1. scenario[e] \in Event
  BY ScenarioAssumption DEF HandlingTypes, TypeOK, Ids
<1>2. scenario[e].type \in DOMAIN Programs
  BY <1>1 DEF Event
<1>3. Program(e) \in Seq([op : STRING, on : SUBSET STRING])
  BY <1>2, ProgramForms DEF Program
<1> QED
  BY <1>2, <1>3

\* A step of a handler moves on, unless the handler ends there: its activity
\* existed, or it saved nothing.
LEMMA HandlerMoves ==
    ASSUME HandlingTypes, RunHandler
    PROVE  /\ run.event # 0 /\ run.event \in begun /\ run.event \in Ids
           /\ run.pc \in DOMAIN Program(run.event)
           /\ UNCHANGED <<scenario, stored, begun, overtaken, handled>>
           /\ skipped \subseteq skipped'
           /\ \/ run'.event = run.event /\ run'.pc = run.pc + 1
              \/ /\ run'.event = run.event /\ run'.pc = End(run.event)
                 /\ \/ /\ Op(run.event, run.pc) = "ifCreated" /\ ~run.created
                       /\ run.event \in skipped'
                    \/ /\ Op(run.event, run.pc) = "ifUpdated" /\ ~run.updated
                       /\ "clears" \in scenario[run.event].flags => run.event \in skipped'
<1> DEFINE Moves ==
      /\ UNCHANGED <<scenario, stored, begun, overtaken, handled>> /\ skipped \subseteq skipped'
      /\ \/ run'.event = run.event /\ run'.pc = run.pc + 1
         \/ /\ run'.event = run.event /\ run'.pc = End(run.event)
            /\ \/ /\ Op(run.event, run.pc) = "ifCreated" /\ ~run.created
                  /\ run.event \in skipped'
               \/ /\ Op(run.event, run.pc) = "ifUpdated" /\ ~run.updated
                  /\ "clears" \in scenario[run.event].flags => run.event \in skipped'
<1>0. /\ run.event # 0 /\ run.pc \in DOMAIN Program(run.event)
  BY DEF RunHandler, RunStatus, RunEnsure, RunIfCreated, RunResolve, RunReassign,
     RunSave, RunReplace, RunRemove, RunIfUpdated, RunOwn, RunSway, RunCrossing,
     RunFollowUp, RunTell, RunIndex, Running
<1>1. run.event \in begun /\ run.event \in Ids
  BY <1>0, RunningBegun
<1> SUFFICES Moves
  BY <1>0, <1>1
<1>2. RunShape
  BY DEF HandlingTypes
<1>3. /\ Stays(Onward(run)) /\ Stays(Leave(run))
      /\ \A b : /\ Stays([Onward(run) EXCEPT !.created = b])
                /\ Stays([Onward(run) EXCEPT !.found = b])
                /\ Stays([Onward(run) EXCEPT !.updated = b])
                /\ Stays([Onward(run) EXCEPT !.rooms = b])
  BY <1>2, RunStays
<1>5. CASE RunIfCreated
  BY <1>2, <1>3, <1>5, RunFields DEF RunIfCreated, Running, Op, inputVars, Stays
<1>6. CASE RunIfUpdated
  BY <1>2, <1>3, <1>6, RunFields DEF RunIfUpdated, Running, Op, inputVars, Stays
<1>7. CASE RunEnsure
  BY <1>2, <1>3, <1>7, RunFields DEF RunEnsure, inputVars, progressVars, Stays
<1>8. CASE RunResolve
  BY <1>2, <1>3, <1>8, RunFields DEF RunResolve, inputVars, progressVars, Stays
<1>9. CASE RunSave \/ RunReplace
  <2>1. \E b, o : run' = [Onward(run) EXCEPT !.updated = b, !.old = o]
    BY <1>9 DEF RunSave, RunReplace, Upsert
  <2>2. run'.event = run.event /\ run'.pc = run.pc + 1
    BY <1>2, <2>1, SaveFields
  <2> QED
    BY <1>9, <2>2 DEF RunSave, RunReplace, inputVars, progressVars
<1>10. CASE RunRemove
  <2>1. \E b : run' = [Onward(run) EXCEPT !.updated = b]
    BY <1>10 DEF RunRemove
  <2>2. run'.event = run.event /\ run'.pc = run.pc + 1
    BY <1>2, <1>3, <2>1, RunFields DEF Stays
  <2> QED
    BY <1>10, <2>2 DEF RunRemove, inputVars, progressVars
<1>11. CASE RunReassign \/ RunStatus \/ RunOwn \/ RunSway \/ RunCrossing \/ RunFollowUp
            \/ RunIndex
  BY <1>2, <1>3, <1>11, RunFields DEF RunReassign, RunStatus, RunOwn, RunSway, RunCrossing,
     RunFollowUp, RunIndex, inputVars, progressVars, Stays
<1>12. CASE RunTell
  <2>1. run' = Onward(run) \/ \E b : run' = [Onward(run) EXCEPT !.rooms = b]
    BY <1>12 DEF RunTell
  <2>2. run'.event = run.event /\ run'.pc = run.pc + 1
    BY <1>2, <1>3, <2>1, RunFields DEF Stays
  <2> QED
    BY <1>12, <2>2 DEF RunTell, inputVars, progressVars
<1> QED
  BY <1>5, <1>6, <1>7, <1>8, <1>9, <1>10, <1>11, <1>12 DEF RunHandler

\* Every other step begins a handler, stamps its event, or stops it, or has
\* nothing to do with handlers.
Rests ==
    UNCHANGED <<scenario, begun, overtaken, handled, skipped, activityVars, componentVars,
                bridgeVars, effects>>

LEMMA OtherSteps ==
    ASSUME [Next]_vars
    PROVE  \/ Begin \/ RunHandler \/ Finalize
           \/ Rests /\ run' = Idle /\ UNCHANGED <<queue, indexVars>>
           \/ Rests /\ run' = run
<1> USE DEF Rests, inputVars, progressVars
<1>1. CASE Emit \/ Crash
  BY <1>1 DEF Emit, Crash
<1>2. CASE Arrival
  BY <1>2 DEF Arrival, Arrive
<1>3. CASE Indexing \/ IndexerCrash
  BY <1>3 DEF Indexing, IndexerFetch, IndexerFormat, IndexerBulk, IndexerDelete, IndexerCrash
<1>4. CASE UNCHANGED vars
  BY <1>4 DEF vars
<1> QED
  BY <1>1, <1>2, <1>3, <1>4 DEF Next, Process

LEMMA InitInTurn == Init => InTurn
<1> SUFFICES ASSUME Init PROVE InTurn
  OBVIOUS
<1>1. HandlingTypes
  BY InitTypes
<1> QED
  BY <1>1 DEF Init, InTurn, Idle

\* Program counters and the scenario are numbers, events are in order.
LEMMA ProgramKept ==
    ASSUME scenario' = scenario
    PROVE  \A e : Program(e)' = Program(e) /\ End(e)' = End(e)
  BY DEF Program, End

LEMMA NextInTurn == InTurn /\ [Next]_vars => InTurn'
<1> SUFFICES ASSUME InTurn, [Next]_vars PROVE InTurn'
  OBVIOUS
<1>1. /\ HandlingTypes /\ HandlingTypes' /\ scenario' = scenario
      /\ run.event \in begun \cup {0} /\ begun \subseteq Ids /\ handled \subseteq begun
      /\ Ids \subseteq Nat /\ 0 \notin Ids
      /\ \A e : End(e)' = End(e)
  BY NextTypes, NextKeepsScenario, ScenarioFacts, ProgramKept DEF InTurn, HandlingTypes, TypeOK
<1>2. \A e \in Ids : End(e) \in Nat \ {0}
  BY <1>1, ProgramOf DEF End
<1>3. CASE Begin
  <2>1. PICK e \in Backlog :
          /\ \A x \in Backlog : e <= x
          /\ run' = [Idle EXCEPT !.event = e] /\ begun' = begun \cup {e}
          /\ overtaken' = overtaken \cup {<<e, x>> : x \in {y \in begun : e < y}}
          /\ handled' = handled
    BY <1>3 DEF Begin, progressVars
  <2>2. run'.event = e /\ run'.pc = 1 /\ e \notin handled /\ e \in Ids
    BY <1>1, <2>1 DEF Idle, Backlog, HandlingTypes, TypeOK
  <2>3. \A x \in begun \ handled : e <= x
    BY <1>1, <2>1 DEF Backlog, HandlingTypes, TypeOK
  <2>4. \A x \in begun' \ handled' : run'.event <= x
    BY <1>1, <2>1, <2>2, <2>3
  <2>5. ASSUME NEW d \in begun' \ handled', NEW x \in begun', d < x
        PROVE  <<d, x>> \in overtaken'
    <3>1. CASE d = e
      BY <1>1, <2>1, <2>2, <2>5, <3>1
    <3>2. CASE d # e
      <4>1. d \in begun \ handled /\ e <= d
        BY <2>1, <2>3, <3>2
      <4>2. x \in begun
        BY <1>1, <2>1, <2>2, <2>5, <4>1
      <4> QED
        BY <2>1, <2>5, <4>1, <4>2 DEF InTurn
    <3> QED
      BY <3>1, <3>2
  <2> QED
    BY <1>1, <1>2, <2>1, <2>2, <2>4, <2>5 DEF InTurn
<1>4. CASE RunHandler
  <2>1. /\ run.event # 0 /\ run.event \in Ids /\ run.pc \in DOMAIN Program(run.event)
        /\ UNCHANGED <<scenario, begun, overtaken, handled>>
        /\ run'.event = run.event /\ run'.pc \in {run.pc + 1, End(run.event)}
    BY <1>1, <1>4, HandlerMoves
  <2>2. DOMAIN Program(run.event) = 1..Len(Program(run.event)) /\ Len(Program(run.event)) \in Nat
    BY <1>1, <2>1, ProgramOf
  <2>3. run.pc \in Nat /\ 1 <= run.pc /\ run.pc < End(run.event)
    BY <2>1, <2>2 DEF End
  <2>4. run.event \notin handled
    BY <1>2, <2>1, <2>3 DEF InTurn
  <2>5. run'.pc \in 1..(End(run'.event) + 1)
    <3> DEFINE n == End(run.event)
    <3>1. n \in Nat /\ n >= 1
      BY <1>2, <2>1
    <3> HIDE DEF n
    <3>2. run.pc + 1 \in 1..(n + 1) /\ n \in 1..(n + 1)
      BY <2>3, <3>1 DEF n
    <3> QED
      BY <2>1, <3>2 DEF n
  <2>7. /\ \A e \in begun' \ handled' : run'.event <= e
        /\ \A e \in begun' \ handled', x \in begun' : e < x => <<e, x>> \in overtaken'
    BY <1>1, <2>1 DEF InTurn
  <2>8. run'.event \notin handled'
    BY <2>1, <2>4
  <2> QED
    BY <1>1, <2>5, <2>7, <2>8 DEF InTurn, End, Program
<1>5. CASE Finalize
  <2>1. /\ run.event # 0 /\ run.pc = End(run.event) /\ handled' = handled \cup {run.event}
        /\ run'.event = run.event /\ run'.pc = run.pc + 1
        /\ UNCHANGED <<scenario, begun, overtaken>>
    BY <1>1, <1>5, RunStays, RunFields DEF Finalize, inputVars, Stays, HandlingTypes, Return, End
  <2> QED
    BY <1>1, <1>2, <2>1 DEF InTurn
<1>6. CASE Rests /\ run' = Idle
  BY <1>1, <1>6 DEF InTurn, Rests, Idle
<1>7. CASE Rests /\ run' = run
  BY <1>1, <1>7 DEF InTurn, Rests
<1> QED
  BY <1>3, <1>4, <1>5, <1>6, <1>7, OtherSteps

\* What is being handled is overtaken by whatever later events have begun.
LEMMA RunningIsOvertaken ==
    ASSUME InTurn, RunHandler, NEW x \in begun, run.event < x
    PROVE  <<run.event, x>> \in overtaken
<1>1. /\ run.event \in begun /\ run.event \in Ids /\ run.pc \in DOMAIN Program(run.event)
  BY HandlerMoves DEF InTurn
<1>2. run.event \notin handled
  BY <1>1, ProgramOf DEF InTurn, End
<1> QED
  BY <1>1, <1>2 DEF InTurn

\* The handler of e has got beyond a place, this time.
Past(e, i) == e \in handled \/ (run.event = e /\ run.pc > i)

\* Where a handler returns early.
Leaves(e) ==
    \/ Op(e, run.pc) = "ifCreated" /\ ~run.created /\ e \in skipped'
    \/ /\ Op(e, run.pc) = "ifUpdated" /\ ~run.updated
       /\ "clears" \in scenario[e].flags => e \in skipped'

\* A handler gets beyond an effect by that effect, or by returning before it.
LEMMA PastBefore ==
    ASSUME InTurn, [Next]_vars, NEW e \in Ids, NEW i \in DOMAIN Program(e), Past(e, i)'
    PROVE  /\ e \in begun
           /\ \/ Past(e, i)
              \/ /\ RunHandler /\ run.event = e /\ e \notin handled /\ run.pc \in 1..i
                 /\ \/ run.pc = i
                    \/ Leaves(e) /\ run'.event = e /\ run'.pc = End(e)
<1>1. /\ HandlingTypes /\ Ids \subseteq Nat /\ 0 \notin Ids /\ e \in Nat /\ e # 0
      /\ handled \subseteq begun
  BY ScenarioFacts DEF InTurn, HandlingTypes, TypeOK
<1>2. i \in Nat /\ 1 <= i /\ i < End(e) /\ End(e) \in Nat
  <2>1. DOMAIN Program(e) = 1..Len(Program(e)) /\ Len(Program(e)) \in Nat
    BY <1>1, ProgramOf
  <2> QED
    BY <2>1 DEF End
<1>3. CASE e \in handled
  BY <1>1, <1>3 DEF Past
<1>4. CASE e \notin handled
  <2>1. CASE Begin
    <3>1. run'.pc = 1 /\ handled' = handled
      BY <2>1 DEF Begin, Idle, progressVars
    <3> QED
      BY <1>2, <1>4, <3>1 DEF Past
  <2>2. CASE RunHandler
    <3>1. /\ run.event \in begun /\ run.event \in Ids /\ run.pc \in DOMAIN Program(run.event)
          /\ handled' = handled
          /\ \/ run'.event = run.event /\ run'.pc = run.pc + 1
             \/ run'.event = run.event /\ run'.pc = End(run.event) /\ Leaves(run.event)
      BY <1>1, <2>2, HandlerMoves DEF Leaves
    <3>2. run'.event = e /\ run'.pc > i
      BY <1>4, <3>1 DEF Past
    <3>3. run.event = e
      BY <1>1, <3>1, <3>2
    <3>4. run.pc \in Nat /\ 1 <= run.pc
      <4>1. DOMAIN Program(e) = 1..Len(Program(e))
        BY <1>1, ProgramOf
      <4> QED
        BY <3>1, <3>3, <4>1
    <3>5. CASE run.pc > i
      BY <3>1, <3>3, <3>5 DEF Past
    <3>6. CASE ~(run.pc > i)
      <4>1. run.pc \in 1..i
        BY <1>2, <3>4, <3>6
      <4>2. run.pc = i \/ (Leaves(e) /\ run'.pc = End(e))
        <5>1. CASE run'.pc = run.pc + 1
          <6>1. \A n \in Nat : n + 1 > i /\ ~(n > i) => n = i
            BY <1>2
          <6> QED
            BY <3>2, <3>4, <3>6, <5>1, <6>1
        <5> QED
          BY <1>1, <3>1, <3>2, <3>3, <5>1
      <4> QED
        BY <1>4, <2>2, <3>1, <3>2, <3>3, <4>1, <4>2
    <3> QED
      BY <3>5, <3>6
  <2>3. CASE Finalize
    <3>1. /\ run.event # 0 /\ run.pc = End(run.event) /\ handled' = handled \cup {run.event}
          /\ run'.event = run.event
      BY <1>1, <2>3, RunStays DEF Finalize, Return, End, Stays, HandlingTypes, inputVars
    <3>2. run.event = e
      BY <1>4, <3>1 DEF Past
    <3> QED
      BY <1>1, <1>2, <3>1, <3>2 DEF Past, HandlingTypes, TypeOK
  <2>4. CASE Rests /\ run' = Idle
    BY <1>1, <1>4, <2>4 DEF Rests, Idle, Past
  <2>5. CASE Rests /\ run' = run
    BY <1>1, <1>4, <2>5 DEF Rests, Past, HandlingTypes, TypeOK
  <2> QED
    BY <2>1, <2>2, <2>3, <2>4, <2>5, OtherSteps
<1> QED
  BY <1>3, <1>4

(***************************************************************************)
(* Owners.                                                                 *)
(***************************************************************************)
NoOwnerAfter(e, c) ==
    \A x \in begun : e < x /\ Same(e, x) =>
      ~OwnsOn(x, c) /\ Named(scenario[x].type, "ownAlone") = {}

OwnersInv ==
    /\ InTurn
    /\ InOrder(Ids) =>
         \A e \in begun, c \in {Starknet, Ethereum} :
           OwnsOn(e, c) /\ Past(e, 1) /\ NoOwnerAfter(e, c) => owners[On(e)][c] = e

\* Steps add to the history.
LEMMA HistoryGrows ==
    ASSUME InTurn, [Next]_vars
    PROVE  /\ Ids' = Ids /\ begun \subseteq begun' /\ handled \subseteq handled'
           /\ \A S : InOrder(S)' => InOrder(S)
           /\ InOrder(Ids)' => InOrder(Ids)
<1>1. Ids' = Ids
  BY NextKeepsScenario, ScenarioKept
<1>2. begun \subseteq begun' /\ handled \subseteq handled' /\ overtaken \subseteq overtaken'
  <2>1. CASE Begin
    BY <2>1 DEF Begin, progressVars
  <2>2. CASE RunHandler
    BY <2>2, HandlerMoves DEF InTurn
  <2>3. CASE Finalize
    BY <2>3 DEF Finalize, inputVars
  <2> QED
    BY <2>1, <2>2, <2>3, OtherSteps DEF Rests
<1> QED
  BY <1>1, <1>2 DEF InOrder

\* What an event says does not change.
LEMMA SaysTheSame ==
    ASSUME scenario' = scenario
    PROVE  \A e : /\ On(e)' = On(e) /\ Program(e)' = Program(e) /\ End(e)' = End(e)
                  /\ \A c : /\ OwnsOn(e, c)' = OwnsOn(e, c) /\ Crosses(e, c)' = Crosses(e, c)
                            /\ Completes(e, c)' = Completes(e, c)
                            /\ IsStart(e, c)' = IsStart(e, c)
                  /\ \A x : Same(e, x)' = Same(e, x)
BY DEF On, Program, End, OwnsOn, Crosses, Completes, IsStart, Same

\* An effect of a kind is where the forms of programs say it is.
LEMMA NamedAt ==
    ASSUME HandlingTypes, NEW e \in Ids, NEW op, NEW name \in Named(scenario[e].type, op)
    PROVE  \E i \in DOMAIN Program(e) :
             /\ Op(e, i) = op /\ name \in Program(e)[i].on
             /\ \A ops : op \in ops => i \in Places(scenario[e].type, ops)
BY DEF Named, Program, Op, Places

\* The effect of an owner is the first of its handler.
LEMMA OwnsFirst ==
    ASSUME HandlingTypes, NEW e \in Ids, NEW c, OwnsOn(e, c)
    PROVE  /\ 1 \in DOMAIN Program(e) /\ Op(e, 1) \in {"own", "ownAlone"}
           /\ c \in Program(e)[1].on
<1>1. scenario[e].type \in DOMAIN Programs
  BY ProgramOf
<1>2. PICK op \in {"own", "ownAlone"} : c \in Named(scenario[e].type, op)
  BY DEF OwnsOn
<1>3. PICK i \in DOMAIN Program(e) :
        /\ Op(e, i) = op /\ c \in Program(e)[i].on
        /\ i \in Places(scenario[e].type, Owning \cup {"cross", "sway"})
  BY <1>2, NamedAt DEF Owning
<1>4. i = 1
  BY <1>1, <1>3, ProgramForms
<1> QED
  BY <1>2, <1>3, <1>4

\* Where the program has an effect of an owner, the step is that effect.
LEMMA OwningRuns ==
    ASSUME RunHandler, Op(run.event, run.pc) \in Owning
    PROVE  RunOwn
BY DEF RunHandler, RunStatus, RunEnsure, RunIfCreated, RunResolve, RunReassign,
   RunSave, RunReplace, RunRemove, RunIfUpdated, RunSway, RunCrossing,
   RunFollowUp, RunTell, RunIndex, Running, Op, Owning, FollowUps

LEMMA OnlyOwnersOwn ==
    ASSUME [Next]_vars, ~RunOwn
    PROVE  owners' = owners
<1>1. CASE RunHandler
  BY <1>1 DEF RunHandler, RunStatus, RunEnsure, RunIfCreated, RunResolve, RunReassign,
     RunSave, RunReplace, RunRemove, RunIfUpdated, RunSway, RunCrossing, RunFollowUp,
     RunTell, RunIndex, bridgeVars
<1>2. CASE Begin \/ Finalize
  BY <1>2 DEF Begin, Finalize, bridgeVars
<1> QED
  BY <1>1, <1>2, OtherSteps DEF Rests, bridgeVars

LEMMA NextOwners == OwnersInv /\ [Next]_vars => OwnersInv'
<1> SUFFICES ASSUME OwnersInv, [Next]_vars PROVE OwnersInv'
  OBVIOUS
<1>1. /\ InTurn /\ InTurn' /\ HandlingTypes /\ scenario' = scenario /\ Ids' = Ids
      /\ begun \subseteq begun' /\ handled \subseteq handled' /\ handled' \subseteq begun'
      /\ begun' \subseteq Ids /\ Ids \subseteq Nat
  BY NextInTurn, NextKeepsScenario, HistoryGrows, ScenarioFacts
     DEF OwnersInv, InTurn, HandlingTypes, TypeOK
<1>2. SUFFICES ASSUME InOrder(Ids), NEW e \in begun', NEW c \in {Starknet, Ethereum},
                      OwnsOn(e, c), Past(e, 1)', NoOwnerAfter(e, c)'
               PROVE  owners'[On(e)][c] = e
  BY <1>1, HistoryGrows, SaysTheSame DEF OwnersInv
<1>3. e \in Ids /\ NoOwnerAfter(e, c)
  BY <1>1, <1>2, SaysTheSame DEF NoOwnerAfter
<1>4. ASSUME e \in begun, Past(e, 1) PROVE owners[On(e)][c] = e
  BY <1>2, <1>3, <1>4 DEF OwnersInv
<1>5. CASE RunOwn
  <2> DEFINE r == run.event
             op == Op(r, run.pc)
  <2>0. RunHandler
    BY <1>5 DEF RunHandler
  <2>1. /\ r # 0 /\ r \in begun /\ r \in Ids /\ run.pc \in DOMAIN Program(r)
        /\ UNCHANGED <<begun, handled>>
    BY <1>1, <2>0, HandlerMoves
  <2>2. /\ op \in Owning /\ On(r) \in Entities
        /\ owners' = [owners EXCEPT ![On(r)] = OwnersAfter(op, @, r)]
    BY <1>5, <2>1 DEF RunOwn, Running, Op, Owning, Program, Entities
  <2>3. owners \in [Entities -> [{Starknet, Ethereum} -> {0} \cup begun]]
    BY <1>1 DEF HandlingTypes, TypeOK
  <2>4. run.pc = 1
    <3>1. run.pc \in Places(scenario[r].type, Owning \cup {"cross", "sway"})
      BY <2>1, <2>2 DEF Places, Op, Program
    <3> QED
      BY <1>1, <2>1, <3>1, ProgramOf, ProgramForms
  <2>5. CASE e = r
    <3>1. c \in Names /\ op \in {"own", "ownAlone"}
      BY <1>1, <1>2, <1>3, <2>4, <2>5, OwnsFirst DEF Names
    <3>2. OwnersAfter(op, owners[On(r)], r)[c] = r
      BY <1>2, <3>1 DEF OwnersAfter
    <3> QED
      BY <2>2, <2>3, <2>5, <3>2
  <2>6. CASE e # r
    <3>1. e \in handled /\ e \in begun
      <4>1. run'.event = r \/ run'.event = 0
        BY <1>1, <2>0, HandlerMoves
      <4> QED
        BY <1>1, <1>2, <1>3, <2>1, <2>6, <4>1, ScenarioFacts DEF Past, HandlingTypes, TypeOK
    <3>2. owners[On(e)][c] = e
      BY <1>4, <3>1 DEF Past
    <3>3. CASE Same(e, r)
      <4>1. ~(r < e)
        BY <1>1, <1>2, <1>3, <2>0, <2>1, <3>1, RunningIsOvertaken DEF InOrder
      <4>2. e < r
        <5>1. e \in Nat /\ r \in Nat
          BY <1>1, <1>3, <2>1
        <5> QED
          BY <2>6, <4>1, <5>1
      <4>3. ~OwnsOn(r, c) /\ Named(scenario[r].type, "ownAlone") = {}
        BY <1>3, <2>1, <3>3, <4>2 DEF NoOwnerAfter
      <4>4. op # "ownAlone"
        <5>1. SUFFICES ASSUME op = "ownAlone" PROVE FALSE
          OBVIOUS
        <5>2. 1 \in Places(scenario[r].type, Single)
          BY <2>1, <2>4, <5>1 DEF Places, Op, Program, Single
        <5>3. \E name \in Programs[scenario[r].type][1].on : TRUE
          BY <1>1, <2>1, <5>2, ProgramOf, ProgramForms
        <5>4. Named(scenario[r].type, "ownAlone") # {}
          BY <2>1, <2>4, <5>1, <5>3 DEF Named, Op, Program
        <5> QED
          BY <4>3, <5>4
      <4>5. op = "own" => c \notin Names
        BY <2>1, <4>3 DEF OwnsOn, Named, Names, Op, Program
      <4>6. OwnersAfter(op, owners[On(r)], r)[c] = owners[On(r)][c]
        <5>1. owners[On(r)][c] # 0
          BY <1>1, <1>3, <3>2, <3>3, ScenarioFacts DEF Same, HandlingTypes, TypeOK
        <5> QED
          BY <1>2, <2>2, <4>4, <4>5, <5>1 DEF OwnersAfter, Owning
      <4> QED
        BY <2>2, <2>3, <3>2, <3>3, <4>6 DEF Same
    <3>4. CASE ~Same(e, r)
      BY <2>2, <3>2, <3>4 DEF Same
    <3> QED
      BY <3>3, <3>4
  <2> QED
    BY <2>5, <2>6
<1>6. CASE ~RunOwn
  <2>1. owners' = owners
    BY <1>6, OnlyOwnersOwn
  <2>2. 1 \in DOMAIN Program(e) /\ Op(e, 1) \in Owning
    BY <1>1, <1>2, <1>3, OwnsFirst DEF Owning
  <2>3. ~(RunHandler /\ run.event = e /\ run.pc = 1)
    BY <1>6, <2>2, OwningRuns
  <2>4. e \in begun /\ Past(e, 1)
    BY <1>1, <1>2, <1>3, <2>2, <2>3, PastBefore
  <2> QED
    BY <1>4, <2>1, <2>4
<1> QED
  BY <1>5, <1>6

\* Of all histories handled in order: the owner on a chain is that of the last
\* event that says who it is, unless a bridge dropped it since (OwnersCurrent),
\* however often handlers crash half-way and are called again.
THEOREM OwnersCurrentHolds == Spec => []OwnersCurrent
<1>1. Init => OwnersInv
  BY InitInTurn DEF Init, OwnersInv, InOrder
<1>2. OwnersInv => OwnersCurrent
  <2>1. SUFFICES ASSUME OwnersInv, Quiet, InOrder(Ids), NEW e \in handled,
                        NEW c \in {Starknet, Ethereum}, OwnsOn(e, c),
                        \A x \in handled : e < x /\ Same(e, x) =>
                          ~OwnsOn(x, c) /\ Named(scenario[x].type, "ownAlone") = {}
                 PROVE  owners[On(e)][c] = e
    BY DEF OwnersCurrent
  <2>2. handled = begun
    BY <2>1 DEF OwnersInv, InTurn, HandlingTypes, TypeOK, Quiet
  <2> QED
    BY <2>1, <2>2 DEF OwnersInv, NoOwnerAfter, Past
<1> QED
  BY <1>1, <1>2, NextOwners, PTL DEF Spec

(***************************************************************************)
(* Crossings.                                                              *)
(***************************************************************************)
\* The handler of e has got beyond what it removes of a crossing.
PastDrop(e) == \E i \in Places(scenario[e].type, {"drop"}) : Past(e, i)

NoCrossAfter(m, to) ==
    \A x \in begun : m < x /\ Same(m, x) =>
      ~Completes(x, to) /\ Named(scenario[x].type, "cross") = {}

\* What a crossing document shows is a message that was begun, of its assets.
CrossingOf(x) ==
    crossings[x].event # 0 =>
      /\ crossings[x].event \in begun /\ On(crossings[x].event) = x
      /\ Crosses(crossings[x].event, crossings[x].to)

\* A message that was handled in order is shown until something completes it
\* or the assets cross again...
KeptInv ==
    InOrder(Ids) =>
      \A m \in begun, to \in {Starknet, Ethereum} :
        Crosses(m, to) /\ Past(m, 1) /\ NoCrossAfter(m, to) => crossings[On(m)].event = m

\* ...and not beyond a completion begun after it.
GoneInv ==
    \A m, c \in begun, to \in {Starknet, Ethereum} :
      /\ Crosses(m, to) /\ Completes(c, to) /\ m < c /\ Same(m, c) /\ InOrder({m, c})
      /\ PastDrop(c)
      => crossings[On(m)].event # m

CrossingInv ==
    /\ InTurn /\ DOMAIN crossings = Entities /\ \A x \in Entities : CrossingOf(x)
    /\ KeptInv /\ GoneInv

\* A message crosses first of all, one way, and completes nothing.
LEMMA CrossesFirst ==
    ASSUME HandlingTypes, NEW m \in Ids, NEW to, Crosses(m, to)
    PROVE  /\ 1 \in DOMAIN Program(m) /\ Op(m, 1) = "cross" /\ Program(m)[1].on = {to}
           /\ Named(scenario[m].type, "cross") = {to}
           /\ Places(scenario[m].type, {"drop"}) = {}
<1>1. scenario[m].type \in DOMAIN Programs
  BY ProgramOf
<1>2. PICK i \in DOMAIN Program(m) :
        /\ Op(m, i) = "cross" /\ to \in Program(m)[i].on
        /\ i \in Places(scenario[m].type, Owning \cup {"cross", "sway"})
        /\ i \in Places(scenario[m].type, {"ifCreated", "ifUpdated", "cross"})
        /\ i \in Places(scenario[m].type, Single)
  BY NamedAt DEF Crosses, Single
<1>3. i = 1
  BY <1>1, <1>2, ProgramForms
<1>4. \E name \in Program(m)[i].on : Program(m)[i].on = {name}
  BY <1>1, <1>2, ProgramForms DEF Program
<1>5. Program(m)[1].on = {to}
  BY <1>2, <1>3, <1>4
<1>6. Places(scenario[m].type, {"drop"}) = {}
  BY <1>1, <1>2, ProgramForms
<1>7. ASSUME NEW j \in DOMAIN Program(m), Op(m, j) = "cross" PROVE j = 1
  BY <1>1, <1>7, ProgramForms DEF Places, Op, Program
<1>8. Named(scenario[m].type, "cross") = {to}
  BY <1>2, <1>3, <1>5, <1>7 DEF Named, Op, Program
<1> QED
  BY <1>2, <1>3, <1>5, <1>6, <1>8

\* What completes a crossing completes it one way, and crosses nothing.
LEMMA DropsOneWay ==
    ASSUME HandlingTypes, NEW c \in Ids, NEW i \in DOMAIN Program(c), Op(c, i) = "drop"
    PROVE  /\ \E to : Program(c)[i].on = {to} /\ Named(scenario[c].type, "drop") = {to}
           /\ Places(scenario[c].type, {"ifCreated", "ifUpdated", "cross"}) = {}
<1>1. scenario[c].type \in DOMAIN Programs
  BY ProgramOf
<1>2. /\ i \in Places(scenario[c].type, {"drop"})
      /\ i \in Places(scenario[c].type, Single)
  BY DEF Places, Op, Program, Single
<1>3. PICK to \in Named(scenario[c].type, "drop") : Named(scenario[c].type, "drop") = {to}
  BY <1>1, <1>2, ProgramForms
<1>4. PICK name \in Program(c)[i].on : Program(c)[i].on = {name}
  BY <1>1, <1>2, ProgramForms DEF Program
<1>5. name \in Named(scenario[c].type, "drop")
  BY <1>4 DEF Named, Op, Program
<1> QED
  BY <1>1, <1>2, <1>3, <1>4, <1>5, ProgramForms

\* Where the program has an effect on a crossing, the step is that effect.
LEMMA CrossingRuns ==
    ASSUME RunHandler, Op(run.event, run.pc) \in {"cross", "drop"}
    PROVE  RunCrossing
BY DEF RunHandler, RunStatus, RunEnsure, RunIfCreated, RunResolve, RunReassign,
   RunSave, RunReplace, RunRemove, RunIfUpdated, RunOwn, RunSway,
   RunFollowUp, RunTell, RunIndex, Running, Op, FollowUps

LEMMA OnlyCrossingsCross ==
    ASSUME [Next]_vars, ~RunCrossing
    PROVE  crossings' = crossings
<1>1. CASE RunHandler
  BY <1>1 DEF RunHandler, RunStatus, RunEnsure, RunIfCreated, RunResolve, RunReassign,
     RunSave, RunReplace, RunRemove, RunIfUpdated, RunOwn, RunSway, RunFollowUp,
     RunTell, RunIndex, bridgeVars
<1>2. CASE Begin \/ Finalize
  BY <1>2 DEF Begin, Finalize, bridgeVars
<1> QED
  BY <1>1, <1>2, OtherSteps DEF Rests, bridgeVars

\* The effect itself.
LEMMA CrossingStep ==
    ASSUME CrossingInv, RunCrossing
    PROVE  /\ RunHandler /\ run.event \in begun /\ run.event \in Ids /\ On(run.event) \in Entities
           /\ run.pc \in DOMAIN Program(run.event) /\ run.event \notin handled
           /\ UNCHANGED <<scenario, begun, overtaken, handled>>
           /\ \E to \in Program(run.event)[run.pc].on :
                \/ /\ Op(run.event, run.pc) = "cross" /\ Crosses(run.event, to)
                   /\ crossings' = [crossings EXCEPT ![On(run.event)] =
                                      Crossed(@, run.event, to)]
                \/ /\ Op(run.event, run.pc) = "drop" /\ Completes(run.event, to)
                   /\ Named(scenario[run.event].type, "drop") = {to}
                   /\ crossings' = [crossings EXCEPT ![On(run.event)] = Dropped(@, to)]
<1> DEFINE r == run.event
<1>1. RunHandler /\ HandlingTypes
  BY DEF RunHandler, CrossingInv, InTurn
<1>2. /\ r # 0 /\ r \in begun /\ r \in Ids /\ run.pc \in DOMAIN Program(r)
      /\ UNCHANGED <<scenario, begun, overtaken, handled>>
  BY <1>1, HandlerMoves
<1>3. r \notin handled
  BY <1>1, <1>2, ProgramOf DEF CrossingInv, InTurn, End
<1>4. On(r) \in Entities
  BY <1>2 DEF Entities
<1>5. PICK to \in Program(r)[run.pc].on :
        /\ Op(r, run.pc) \in {"cross", "drop"}
        /\ crossings' = [crossings EXCEPT ![On(r)] =
                           IF Op(r, run.pc) = "cross" THEN Crossed(@, r, to) ELSE Dropped(@, to)]
  BY <1>2 DEF RunCrossing, Running, Names, Op
<1>6. CASE Op(r, run.pc) = "cross"
  <2>1. Crosses(r, to)
    BY <1>2, <1>5, <1>6 DEF Crosses, Named, Op, Program
  <2> QED
    BY <1>1, <1>2, <1>3, <1>4, <1>5, <1>6, <2>1
<1>7. CASE Op(r, run.pc) = "drop"
  <2>1. Completes(r, to)
    BY <1>2, <1>5, <1>7 DEF Completes, Named, Op, Program
  <2>2. Named(scenario[r].type, "drop") = {to}
    BY <1>1, <1>2, <1>7, <2>1, DropsOneWay DEF Completes
  <2> QED
    BY <1>1, <1>2, <1>3, <1>4, <1>5, <1>7, <2>1, <2>2
<1> QED
  BY <1>5, <1>6, <1>7

\* Documents stay messages of their assets.
LEMMA NextCrossingOf ==
    ASSUME CrossingInv, [Next]_vars
    PROVE  DOMAIN crossings' = Entities' /\ \A x \in Entities' : CrossingOf(x)'
<1>1. /\ scenario' = scenario /\ Entities' = Entities /\ begun \subseteq begun'
  BY NextKeepsScenario, ScenarioKept, HistoryGrows DEF CrossingInv
<1>2. ASSUME NEW x \in Entities, crossings'[x] = crossings[x] PROVE CrossingOf(x)'
  BY <1>1, <1>2 DEF CrossingInv, CrossingOf, Crosses, On
<1>3. ASSUME NEW x \in Entities, crossings'[x].event = 0 PROVE CrossingOf(x)'
  BY <1>3 DEF CrossingOf
<1>4. CASE RunCrossing
  <2> DEFINE r == run.event
  <2>1. /\ r \in begun /\ On(r) \in Entities
        /\ \E to : \/ /\ Crosses(r, to)
                     /\ crossings' = [crossings EXCEPT ![On(r)] = Crossed(@, r, to)]
                  \/ crossings' = [crossings EXCEPT ![On(r)] = Dropped(@, to)]
    BY <1>4, CrossingStep
  <2>2. PICK to : \/ /\ Crosses(r, to)
                     /\ crossings' = [crossings EXCEPT ![On(r)] = Crossed(@, r, to)]
                  \/ crossings' = [crossings EXCEPT ![On(r)] = Dropped(@, to)]
    BY <2>1
  <2>3. \A x \in Entities : x # On(r) => crossings'[x] = crossings[x]
    BY <2>2 DEF CrossingInv
  <2>4. ASSUME NEW x \in Entities, x = On(r) PROVE CrossingOf(x)'
    <3>1. CASE crossings'[x] = [event |-> r, to |-> to] /\ Crosses(r, to)
      BY <1>1, <2>1, <2>4, <3>1 DEF CrossingOf, Crosses, On
    <3>2. CASE crossings'[x] = NoCrossing
      BY <1>3, <3>2 DEF NoCrossing
    <3>3. CASE crossings'[x] = crossings[x]
      BY <1>2, <3>3
    <3> QED
      BY <2>2, <2>4, <3>1, <3>2, <3>3 DEF Crossed, Dropped, CrossingInv
  <2>5. DOMAIN crossings' = Entities
    BY <2>2 DEF CrossingInv
  <2>6. \A x \in Entities : CrossingOf(x)'
    BY <1>2, <2>3, <2>4
  <2> QED
    BY <1>1, <2>5, <2>6
<1>5. CASE ~RunCrossing
  BY <1>1, <1>2, <1>5, OnlyCrossingsCross DEF CrossingInv
<1> QED
  BY <1>4, <1>5

LEMMA NextKept ==
    ASSUME CrossingInv, [Next]_vars
    PROVE  KeptInv'
<1>1. /\ InTurn /\ HandlingTypes /\ scenario' = scenario /\ Ids' = Ids
      /\ begun \subseteq begun' /\ begun' \subseteq Ids
      /\ begun \subseteq Ids /\ handled \subseteq begun
      /\ Ids \subseteq Nat /\ 0 \notin Ids
      /\ \A e, x \in Ids : e <= x => Time(e) <= Time(x)
      /\ \A e \in Ids : Time(e) \in Nat
  BY NextInTurn, NextKeepsScenario, HistoryGrows, ScenarioFacts
     DEF CrossingInv, InTurn, HandlingTypes, TypeOK
<1>2. SUFFICES ASSUME InOrder(Ids), NEW m \in begun', NEW to \in {Starknet, Ethereum},
                      Crosses(m, to), Past(m, 1)', NoCrossAfter(m, to)'
               PROVE  crossings'[On(m)].event = m
  BY <1>1, HistoryGrows, SaysTheSame DEF KeptInv, CrossingInv
<1>3. /\ m \in Ids /\ NoCrossAfter(m, to) /\ 1 \in DOMAIN Program(m)
      /\ Op(m, 1) = "cross" /\ Program(m)[1].on = {to}
      /\ Named(scenario[m].type, "cross") = {to} /\ On(m) \in Entities
  BY <1>1, <1>2, SaysTheSame, CrossesFirst DEF NoCrossAfter, Entities
<1>4. ASSUME m \in begun, Past(m, 1) PROVE crossings[On(m)].event = m
  BY <1>2, <1>3, <1>4 DEF CrossingInv, KeptInv
<1>5. /\ m \in begun
      /\ Past(m, 1) \/ (RunHandler /\ run.event = m /\ run.pc = 1)
  <2>1. 1..1 = {1}
    OBVIOUS
  <2> QED
    BY <1>1, <1>2, <1>3, <2>1, PastBefore
<1>6. CASE RunCrossing
  <2> DEFINE r == run.event
  <2>1. /\ RunHandler /\ run.pc \in DOMAIN Program(r)
        /\ r \in begun /\ r \in Ids /\ r \notin handled
    BY <1>6, CrossingStep
  <2>2. PICK d \in Program(r)[run.pc].on :
          \/ /\ Op(r, run.pc) = "cross" /\ Crosses(r, d)
             /\ crossings' = [crossings EXCEPT ![On(r)] = Crossed(@, r, d)]
          \/ /\ Op(r, run.pc) = "drop" /\ Completes(r, d)
             /\ crossings' = [crossings EXCEPT ![On(r)] = Dropped(@, d)]
    BY <1>6, CrossingStep
  <2>3. CASE r = m
    <3>1. Places(scenario[m].type, {"drop"}) = {}
      BY <1>1, <1>2, <1>3, CrossesFirst
    <3>2. Op(r, run.pc) = "cross"
      BY <2>1, <2>2, <2>3, <3>1 DEF Places, Op, Program
    <3>3. crossings'[On(m)] = Crossed(crossings[On(m)], m, d)
      BY <1>3, <2>2, <2>3, <3>2 DEF CrossingInv
    <3>4. ~(crossings[On(m)].event # 0 /\ Time(m) < Time(crossings[On(m)].event))
      <4> DEFINE x == crossings[On(m)].event
      <4>1. SUFFICES ASSUME x # 0, Time(m) < Time(x) PROVE FALSE
        OBVIOUS
      <4>2. x \in begun /\ x \in Ids /\ On(x) = On(m) /\ Named(scenario[x].type, "cross") # {}
        BY <1>1, <1>3, <4>1 DEF CrossingInv, CrossingOf, Crosses
      <4>3. m < x
        <5> HIDE DEF x
        <5>1. m \in Nat /\ x \in Nat /\ Time(m) \in Nat /\ Time(x) \in Nat
          BY <1>1, <1>3, <4>2
        <5>2. ~(x <= m)
          BY <1>1, <1>3, <4>1, <4>2, <5>1
        <5> QED
          BY <5>1, <5>2
      <4> QED
        BY <1>3, <4>2, <4>3 DEF NoCrossAfter, Same
    <3> QED
      BY <3>3, <3>4 DEF Crossed
  <2>4. CASE r # m
    <3>1. m \in handled /\ crossings[On(m)].event = m
      BY <1>4, <1>5, <2>4 DEF Past
    <3>2. CASE Same(m, r)
      <4>1. m < r
        <5>1. ~(r < m)
          BY <1>1, <1>2, <1>3, <1>5, <2>1, RunningIsOvertaken DEF InOrder
        <5>2. m \in Nat /\ r \in Nat
          BY <1>1, <1>3, <2>1
        <5> QED
          BY <2>4, <5>1, <5>2
      <4>2. ~Completes(r, to) /\ Named(scenario[r].type, "cross") = {}
        BY <1>3, <2>1, <3>2, <4>1 DEF NoCrossAfter
      <4>3. Op(r, run.pc) = "drop" /\ d # to
        BY <2>2, <4>2 DEF Crosses
      <4>4. crossings[On(m)].to = to
        BY <1>1, <1>3, <3>1 DEF CrossingInv, CrossingOf, Crosses
      <4> QED
        BY <1>3, <2>2, <3>1, <3>2, <4>3, <4>4 DEF Dropped, Same, CrossingInv
    <3>3. CASE ~Same(m, r)
      BY <1>3, <2>2, <3>1, <3>3 DEF Same, CrossingInv
    <3> QED
      BY <3>2, <3>3
  <2> QED
    BY <2>3, <2>4
<1>7. CASE ~RunCrossing
  <2>1. ~(RunHandler /\ run.event = m /\ run.pc = 1)
    BY <1>3, <1>7, CrossingRuns
  <2> QED
    BY <1>4, <1>5, <1>7, <2>1, OnlyCrossingsCross
<1> QED
  BY <1>6, <1>7

LEMMA NextGone ==
    ASSUME CrossingInv, [Next]_vars
    PROVE  GoneInv'
<1>1. /\ InTurn /\ HandlingTypes /\ scenario' = scenario /\ Ids' = Ids
      /\ begun \subseteq begun' /\ begun' \subseteq Ids /\ begun \subseteq Ids
      /\ Ids \subseteq Nat /\ 0 \notin Ids
  BY NextInTurn, NextKeepsScenario, HistoryGrows, ScenarioFacts
     DEF CrossingInv, InTurn, HandlingTypes, TypeOK
<1>2. SUFFICES ASSUME NEW m \in begun', NEW c \in begun', NEW to \in {Starknet, Ethereum},
                      Crosses(m, to), Completes(c, to), m < c, Same(m, c), InOrder({m, c}),
                      NEW i \in DOMAIN Program(c), Op(c, i) = "drop", Past(c, i)'
               PROVE  crossings'[On(m)].event # m
  BY <1>1, HistoryGrows, SaysTheSame DEF GoneInv, PastDrop, Places, CrossingInv, Op, Program
<1>3. m \in Ids /\ c \in Ids /\ On(m) \in Entities /\ On(c) = On(m) /\ m # 0
  BY <1>1, <1>2 DEF Same, Entities
<1>4. /\ c \in begun
      /\ Past(c, i) \/ (RunHandler /\ run.event = c /\ run.pc = i)
  <2>1. ~Leaves(c) \/ run.pc \notin 1..i
    <3>1. Places(scenario[c].type, {"ifCreated", "ifUpdated", "cross"}) = {}
      BY <1>1, <1>2, <1>3, DropsOneWay
    <3>2. DOMAIN Program(c) = 1..Len(Program(c)) /\ Len(Program(c)) \in Nat
      BY <1>1, <1>3, ProgramOf
    <3>3. ASSUME run.pc \in 1..i PROVE run.pc \in DOMAIN Program(c)
      BY <3>2, <3>3
    <3> QED
      BY <3>1, <3>3 DEF Leaves, Places, Op, Program
  <2> QED
    BY <1>1, <1>2, <1>3, <2>1, PastBefore
<1>5. ASSUME m \in begun, Past(c, i) PROVE crossings[On(m)].event # m
  <2>1. PastDrop(c)
    BY <1>2, <1>5 DEF PastDrop, Places, Op, Program
  <2> QED
    BY <1>2, <1>4, <1>5, <2>1 DEF CrossingInv, GoneInv
<1>6. ASSUME m \notin begun PROVE crossings[On(m)].event # m
  BY <1>3, <1>6 DEF CrossingInv, CrossingOf
<1>7. CASE RunCrossing
  <2> DEFINE r == run.event
  <2>1. /\ RunHandler /\ r \in begun /\ r \in Ids /\ run.pc \in DOMAIN Program(r)
        /\ begun' = begun
    BY <1>7, CrossingStep
  <2>2. PICK d \in Program(r)[run.pc].on :
          \/ /\ Op(r, run.pc) = "cross" /\ Crosses(r, d)
             /\ crossings' = [crossings EXCEPT ![On(r)] = Crossed(@, r, d)]
          \/ /\ Op(r, run.pc) = "drop" /\ Completes(r, d)
             /\ Named(scenario[r].type, "drop") = {d}
             /\ crossings' = [crossings EXCEPT ![On(r)] = Dropped(@, d)]
    BY <1>7, CrossingStep
  <2>3. r # m
    BY <1>1, <1>2, <1>3, <1>4, <2>1, RunningIsOvertaken DEF InOrder
  <2>4. \/ crossings'[On(m)] = crossings[On(m)]
        \/ crossings'[On(m)].event \in {0, r}
    BY <1>3, <2>2 DEF Crossed, Dropped, NoCrossing, CrossingInv
  <2>5. CASE Past(c, i)
    BY <1>2, <1>3, <1>5, <2>1, <2>3, <2>4, <2>5
  <2>6. CASE run.event = c /\ run.pc = i
    <3>1. Op(r, run.pc) = "drop" /\ d = to
      BY <1>2, <2>2, <2>6 DEF Completes
    <3>2. crossings'[On(m)] = Dropped(crossings[On(m)], to)
      BY <1>2, <1>3, <2>2, <2>6, <3>1 DEF CrossingInv
    <3>3. crossings[On(m)].event = m => crossings[On(m)].to = to
      <4>1. Named(scenario[m].type, "cross") = {to}
        BY <1>1, <1>2, <1>3, CrossesFirst
      <4> QED
        BY <1>3, <4>1 DEF CrossingInv, CrossingOf, Crosses
    <3> QED
      BY <1>3, <3>2, <3>3 DEF Dropped, NoCrossing
  <2> QED
    BY <1>4, <2>5, <2>6
<1>8. CASE ~RunCrossing
  <2>1. ~(RunHandler /\ run.event = c /\ run.pc = i)
    BY <1>2, <1>8, CrossingRuns
  <2> QED
    BY <1>4, <1>5, <1>6, <1>8, <2>1, OnlyCrossingsCross
<1> QED
  BY <1>7, <1>8

LEMMA InitCrossing == Init => CrossingInv
<1> SUFFICES ASSUME Init PROVE CrossingInv
  OBVIOUS
<1>1. InTurn
  BY InitInTurn
<1> QED
  BY <1>1 DEF Init, CrossingInv, CrossingOf, KeptInv, GoneInv, NoCrossing

LEMMA NextCrossing == CrossingInv /\ [Next]_vars => CrossingInv'
<1> SUFFICES ASSUME CrossingInv, [Next]_vars PROVE CrossingInv'
  OBVIOUS
<1>1. InTurn'
  BY NextInTurn DEF CrossingInv
<1> QED
  BY <1>1, NextCrossingOf, NextKept, NextGone DEF CrossingInv

\* Of all histories handled in order: a crossing is shown until something
\* completes it or its assets cross again (CrossingService.removeOne does not
\* remove a crossing the other way).
THEOREM CrossingKeptHolds == Spec => []CrossingKept
<1>1. CrossingInv => CrossingKept
  <2>1. SUFFICES ASSUME CrossingInv, Quiet, InOrder(Ids), NEW m \in handled,
                        NEW to \in {Starknet, Ethereum}, Crosses(m, to),
                        \A x \in handled : m < x /\ Same(m, x) =>
                          ~Completes(x, to) /\ Named(scenario[x].type, "cross") = {}
                 PROVE  crossings[On(m)].event = m
    BY DEF CrossingKept
  <2>2. handled = begun
    BY <2>1 DEF CrossingInv, InTurn, HandlingTypes, TypeOK, Quiet
  <2> QED
    BY <2>1, <2>2 DEF CrossingInv, KeptInv, NoCrossAfter, Past
<1> QED
  BY <1>1, InitCrossing, NextCrossing, PTL DEF Spec

\* Of all histories: a crossing whose message and completion were handled in
\* order is gone, whatever else was handled before, between and after them.
THEOREM CrossingGoneHolds == Spec => []CrossingGone
<1>1. CrossingInv => CrossingGone
  <2>1. SUFFICES ASSUME CrossingInv, NEW m \in handled, NEW c \in handled,
                        NEW to \in {Starknet, Ethereum},
                        Crosses(m, to), Completes(c, to), m < c, Same(m, c), InOrder({m, c})
                 PROVE  crossings[On(m)].event # m
    BY DEF CrossingGone
  <2>2. m \in begun /\ c \in begun /\ c \in Ids
    BY <2>1 DEF CrossingInv, InTurn, HandlingTypes, TypeOK
  <2>3. \E i \in Places(scenario[c].type, {"drop"}) : TRUE
    BY <2>1, <2>2, NamedAt DEF Completes, CrossingInv, InTurn
  <2>4. PastDrop(c)
    BY <2>1, <2>3 DEF PastDrop, Past
  <2> QED
    BY <2>1, <2>2, <2>4 DEF CrossingInv, GoneInv
<1> QED
  BY <1>1, InitCrossing, NextCrossing, PTL DEF Spec

(***************************************************************************)
(* Packages of a building that is repossessed.                             *)
(***************************************************************************)
\* A handler with one more effect.
LEMMA OneMore ==
    ASSUME NEW S, NEW s \in Seq(S), NEW d \in S
    PROVE  /\ s \o <<d>> \in Seq(S) /\ Len(s \o <<d>>) = Len(s) + 1
           /\ \A i \in 1..Len(s) : (s \o <<d>>)[i] = s[i]
           /\ (s \o <<d>>)[Len(s) + 1] = d
<1> DEFINE t == <<d>>
<1>1. t \in Seq(S) /\ Len(t) = 1 /\ t[1] = d /\ Len(s) \in Nat
  OBVIOUS
<1> HIDE DEF t
<1>2. /\ s \o t \in Seq(S) /\ Len(s \o t) = Len(s) + Len(t)
      /\ \A i \in 1..(Len(s) + Len(t)) :
           (s \o t)[i] = IF i <= Len(s) THEN s[i] ELSE t[i - Len(s)]
  BY <1>1, ConcatProperties
<1>3. (s \o t)[Len(s) + 1] = t[1]
  <2> DEFINE n == Len(s)
             u == s \o t
  <2>1. n \in Nat /\ \A i \in 1..(n + 1) : u[i] = IF i <= n THEN s[i] ELSE t[i - n]
    BY <1>1, <1>2
  <2> HIDE DEF n, u
  <2>2. n + 1 \in 1..(n + 1) /\ ~(n + 1 <= n) /\ (n + 1) - n = 1
    BY <2>1
  <2>3. u[n + 1] = t[1]
    BY <2>1, <2>2
  <2> QED
    BY <2>3 DEF n, u
<1>4. \A i \in 1..Len(s) : (s \o t)[i] = s[i]
  BY <1>1, <1>2
<1> QED
  BY <1>1, <1>2, <1>3, <1>4 DEF t

\* The handler of a repossession: its activity, whether it is new, a message,
\* and the packages.
LEMMA RepossessedProgram ==
    /\ DOMAIN Programs["BuildingRepossessed"] = 1..4
    /\ Programs["BuildingRepossessed"][1].op = "ensure"
    /\ Programs["BuildingRepossessed"][2].op = "ifCreated"
    /\ Programs["BuildingRepossessed"][3].op = "tell"
    /\ Programs["BuildingRepossessed"][4] = [op |-> "reassign", on |-> {"DeliveryPackaged"}]
<1> DEFINE ensure == [op |-> "ensure", on |-> {}]
           ifCreated == [op |-> "ifCreated", on |-> {}]
           tell == [op |-> "tell", on |-> AtSite]
           reassign == [op |-> "reassign", on |-> {"DeliveryPackaged"}]
           S == {ensure, ifCreated, tell, reassign}
           one == <<ensure>>
           two == one \o <<ifCreated>>
           three == two \o <<tell>>
           all == three \o <<reassign>>
<1>1. Programs["BuildingRepossessed"] = all
  <2>1. Programs["BuildingRepossessed"] = BuildingRepossessed
    BY DEF Programs
  <2>2. BuildingRepossessed = all
    BY DEF BuildingRepossessed, Once, OnceFor, EnsureFor, IfCreated, Tell, Reassigns, Effect
  <2> QED
    BY <2>1, <2>2
<1>2. ensure.op = "ensure" /\ ifCreated.op = "ifCreated" /\ tell.op = "tell"
  OBVIOUS
<1> HIDE DEF ensure, ifCreated, tell
<1>3. one \in Seq(S) /\ Len(one) = 1 /\ one[1] = ensure
  OBVIOUS
<1> HIDE DEF one
<1>4. two \in Seq(S) /\ Len(two) = 2 /\ two[1] = ensure /\ two[2] = ifCreated
  <2>1. /\ two \in Seq(S) /\ Len(two) = Len(one) + 1 /\ two[Len(one) + 1] = ifCreated
        /\ \A i \in 1..Len(one) : two[i] = one[i]
    <3>1. ifCreated \in S
      OBVIOUS
    <3>2. one \in Seq(S)
      BY <1>3
    <3> HIDE DEF S
    <3> QED
      BY <3>1, <3>2, OneMore
  <2> HIDE DEF two
  <2> QED
    BY <1>3, <2>1
<1> HIDE DEF two
<1>5. three \in Seq(S) /\ Len(three) = 3 /\ three[1] = ensure /\ three[2] = ifCreated
      /\ three[3] = tell
  <2>1. /\ three \in Seq(S) /\ Len(three) = Len(two) + 1 /\ three[Len(two) + 1] = tell
        /\ \A i \in 1..Len(two) : three[i] = two[i]
    <3>1. tell \in S
      OBVIOUS
    <3>2. two \in Seq(S)
      BY <1>4
    <3> HIDE DEF S
    <3> QED
      BY <3>1, <3>2, OneMore
  <2> HIDE DEF three
  <2> QED
    BY <1>4, <2>1
<1> HIDE DEF three
<1>6. all \in Seq(S) /\ Len(all) = 4 /\ all[1] = ensure /\ all[2] = ifCreated
      /\ all[3] = tell /\ all[4] = reassign
  <2>1. /\ all \in Seq(S) /\ Len(all) = Len(three) + 1 /\ all[Len(three) + 1] = reassign
        /\ \A i \in 1..Len(three) : all[i] = three[i]
    <3>1. reassign \in S
      OBVIOUS
    <3>2. three \in Seq(S)
      BY <1>5
    <3> HIDE DEF S
    <3> QED
      BY <3>1, <3>2, OneMore
  <2> HIDE DEF all
  <2> QED
    BY <1>5, <2>1
<1> HIDE DEF all
<1>7. DOMAIN all = 1..4
  BY <1>6
<1> QED
  BY <1>1, <1>2, <1>6, <1>7

\* Who a package waits for once a repossession has been handled.
Takers(r) == {<<x, "callerCrew">> : x \in r..Len(scenario)}

\* p is a package for the building that r repossesses.
PackageFor(p, r) ==
    /\ IsStart(p, "DeliveryPackaged") /\ scenario[r].type = "BuildingRepossessed"
    /\ p < r /\ scenario[p].at = scenario[r].at

PackagesInv ==
    /\ InTurn
    /\ InOrder(Ids) =>
         \A p, r \in Ids :
           PackageFor(p, r) /\ r \in begun \ skipped /\ Past(r, 4) => waiting[p] \subseteq Takers(r)

LEMMA NextPackages == PackagesInv /\ [Next]_vars => PackagesInv'
<1> SUFFICES ASSUME PackagesInv, [Next]_vars PROVE PackagesInv'
  OBVIOUS
<1>1. /\ InTurn /\ InTurn' /\ HandlingTypes /\ scenario' = scenario /\ Ids' = Ids
      /\ begun \subseteq begun' /\ begun \subseteq Ids /\ handled \subseteq begun
      /\ Ids \subseteq Nat /\ Ids = 1..Len(scenario) /\ DOMAIN waiting = Ids
      /\ skipped \subseteq skipped'
  <2>1. /\ InTurn /\ InTurn' /\ HandlingTypes /\ scenario' = scenario /\ Ids' = Ids
        /\ begun \subseteq begun' /\ begun \subseteq Ids /\ handled \subseteq begun
        /\ Ids \subseteq Nat /\ DOMAIN waiting = Ids
    BY NextInTurn, NextKeepsScenario, HistoryGrows, ScenarioFacts
       DEF PackagesInv, InTurn, HandlingTypes, TypeOK
  <2>2. Ids = 1..Len(scenario)
    BY <2>1, ScenarioAssumption DEF Ids, HandlingTypes, TypeOK
  <2>3. skipped \subseteq skipped'
    <3>1. CASE RunHandler
      BY <2>1, <3>1, HandlerMoves
    <3>2. CASE Begin \/ Finalize
      BY <3>2 DEF Begin, Finalize, progressVars
    <3> QED
      BY <3>1, <3>2, OtherSteps DEF Rests
  <2> QED
    BY <2>1, <2>2, <2>3
<1>2. SUFFICES ASSUME InOrder(Ids), NEW p \in Ids, NEW r \in Ids, PackageFor(p, r),
                      r \notin skipped', Past(r, 4)'
               PROVE  waiting'[p] \subseteq Takers(r)
  BY <1>1, HistoryGrows, SaysTheSame DEF PackagesInv, PackageFor, IsStart, Takers
<1>3. /\ p \in Nat /\ r \in Nat /\ p < r /\ r \notin skipped
      /\ scenario[r].type = "BuildingRepossessed"
  BY <1>1, <1>2 DEF PackageFor
<1>4. /\ DOMAIN Program(r) = 1..4 /\ Op(r, 1) = "ensure" /\ Op(r, 2) = "ifCreated"
      /\ Op(r, 3) = "tell" /\ Op(r, 4) = "reassign"
      /\ Program(r)[4].on = {"DeliveryPackaged"}
  BY <1>3, RepossessedProgram DEF Program, Op
<1>5. /\ r \in begun
      /\ Past(r, 4) \/ (RunHandler /\ run.event = r /\ run.pc = 4)
  <2>1. Leaves(r) /\ run.pc \in 1..4 => r \in skipped'
    BY <1>4 DEF Leaves
  <2> QED
    BY <1>1, <1>2, <1>4, <2>1, PastBefore
<1>6. ASSUME Past(r, 4) PROVE waiting[p] \subseteq Takers(r)
  BY <1>2, <1>3, <1>5, <1>6 DEF PackagesInv
<1>7. ASSUME NEW x \in Ids, ~(x < r) PROVE {<<x, "callerCrew">>} \subseteq Takers(r)
  BY <1>1, <1>3, <1>7 DEF Takers
<1>8. ASSUME RunHandler
      PROVE  /\ run.event \in Ids /\ run.event \in begun
             /\ run.event \in Nat /\ run.event # 0 /\ ~(run.event < r)
  <2>1. run.event \in Ids /\ run.event \in begun /\ run.event # 0
    BY <1>1, <1>8, HandlerMoves
  <2> QED
    BY <1>1, <1>2, <1>5, <1>8, <2>1, RunningIsOvertaken DEF InOrder
<1>9. CASE RunReassign
  <2>1. RunHandler
    BY <1>9 DEF RunHandler
  <2>2. waiting'[p] = IF Reassigned(run.event, p) THEN {<<run.event, "callerCrew">>} ELSE waiting[p]
    BY <1>9 DEF RunReassign
  <2>3. CASE Reassigned(run.event, p)
    BY <1>7, <1>8, <2>1, <2>2, <2>3
  <2>4. CASE ~Reassigned(run.event, p)
    <3>1. CASE Past(r, 4)
      BY <1>6, <2>2, <2>4, <3>1
    <3>2. CASE run.event = r /\ run.pc = 4
      <4>1. waiting[p] = {}
        BY <1>2, <1>4, <2>4, <3>2 DEF Reassigned, Names, PackageFor, IsStart
      <4> QED
        BY <2>2, <2>4, <4>1
    <3> QED
      BY <1>5, <3>1, <3>2
  <2> QED
    BY <2>3, <2>4
<1>10. CASE ~RunReassign
  <2>1. ~(RunHandler /\ run.event = r /\ run.pc = 4)
    BY <1>4, <1>10 DEF RunHandler, RunStatus, RunEnsure, RunIfCreated, RunResolve, RunSave,
       RunReplace, RunRemove, RunIfUpdated, RunOwn, RunSway, RunCrossing, RunFollowUp,
       RunTell, RunIndex, Running, Op, FollowUps
  <2>2. waiting[p] \subseteq Takers(r)
    BY <1>5, <1>6, <2>1
  <2>3. CASE RunEnsure
    <3>1. RunHandler
      BY <2>3 DEF RunHandler
    <3>2. p # run.event
      BY <1>3, <1>8, <3>1
    <3> QED
      BY <1>1, <2>2, <2>3, <3>2 DEF RunEnsure
  <2>4. CASE RunResolve
    BY <2>2, <2>4 DEF RunResolve
  <2> QED
    BY <1>10, <2>2, <2>3, <2>4, OthersLeaveActivities
<1> QED
  BY <1>9, <1>10

\* Of all histories handled in order: a package that waits when its building is
\* repossessed waits for the new controller alone
\* (updateDeliveryPackagedUnresolvedFor).
THEOREM PackagesFollowBuildingHolds == Spec => []PackagesFollowBuilding
<1>1. Init => PackagesInv
  BY InitInTurn DEF Init, PackagesInv
<1>2. PackagesInv => PackagesFollowBuilding
  <2>1. SUFFICES ASSUME PackagesInv, NEW p \in Ids, NEW r \in Ids,
                        IsStart(p, "DeliveryPackaged"), scenario[r].type = "BuildingRepossessed",
                        p < r, scenario[p].at = scenario[r].at, r \in handled \ skipped,
                        InOrder(Ids)
                 PROVE  waiting[p] \subseteq {<<x, "callerCrew">> : x \in r..Len(scenario)}
    BY DEF PackagesFollowBuilding
  <2>2. r \in begun
    BY <2>1 DEF PackagesInv, InTurn, HandlingTypes, TypeOK
  <2> QED
    BY <2>1, <2>2 DEF PackagesInv, PackageFor, Past, Takers
<1> QED
  BY <1>1, <1>2, NextPackages, PTL DEF Spec

(***************************************************************************)
(* What follows from what a handler saved.                                 *)
(***************************************************************************)
\* The handler of e goes on only if it saved.
Guarded(e) == Places(scenario[e].type, {"ifUpdated"}) # {}

\* The handler of e has returned, this time.
Returned(e) == e \in handled \/ (run.event = e /\ run.pc >= End(e))

\* A follow-up that was passed was done, unless the handler returned because
\* its event was refused, and never saved before.
DoneInv ==
    \A e \in begun \ skipped : \A i \in DOMAIN Program(e) :
      Op(e, i) \in FollowUps /\ Past(e, i) =>
        \/ {<<e, Op(e, i), n>> : n \in Program(e)[i].on} \subseteq effects
        \/ e \notin saved /\ Returned(e)

\* A handler about to return for nothing having been saved has an event that
\* was not saved before...
RefusedInv ==
    run.event # 0 /\ Guarded(run.event) /\ run.pc = 2 /\ ~run.updated
      /\ "clears" \notin scenario[run.event].flags
      => run.event \notin saved

\* ...because what is stored is never of a later event, as long as the one that
\* saved has not been handled.
NotLaterInv ==
    \A e \in saved \ handled : Guarded(e) =>
      \A c \in SavedBy(e) : comps[<<c, On(e)>>] <= e

FollowUpInv == InTurn /\ DoneInv /\ RefusedInv /\ NotLaterInv

\* Such a handler saves first, once, and then asks.
LEMMA GuardedForm ==
    ASSUME HandlingTypes, NEW e \in Ids, Guarded(e)
    PROVE  /\ End(e) \in Nat /\ End(e) >= 3 /\ 1 \in DOMAIN Program(e)
           /\ Op(e, 1) \in Saving
           /\ \A i \in DOMAIN Program(e) : Op(e, i) \in Saving => i = 1
           /\ \A i \in DOMAIN Program(e) : Op(e, i) = "ifUpdated" => i = 2
           /\ \E c : Program(e)[1].on = {c} /\ SavedBy(e) = {c}
<1> DEFINE type == scenario[e].type
<1>1. /\ type \in DOMAIN Programs /\ DOMAIN Program(e) = 1..Len(Program(e))
      /\ Len(Program(e)) \in Nat
  BY ProgramOf
<1>2. Places(type, {"ifUpdated"}) = {2} /\ Places(type, Saving) = {1}
  BY <1>1, ProgramForms DEF Guarded
<1>3. /\ 1 \in DOMAIN Program(e) /\ Op(e, 1) \in Saving /\ 2 \in DOMAIN Program(e)
      /\ \A i \in DOMAIN Program(e) : Op(e, i) \in Saving => i = 1
      /\ \A i \in DOMAIN Program(e) : Op(e, i) = "ifUpdated" => i = 2
  BY <1>2 DEF Places, Op, Program
<1>4. End(e) \in Nat /\ End(e) >= 3
  BY <1>1, <1>3 DEF End
<1>5. \E c \in Program(e)[1].on : Program(e)[1].on = {c}
  <2>1. 1 \in Places(type, Single)
    BY <1>3 DEF Places, Op, Program, Single
  <2> QED
    BY <1>1, <2>1, ProgramForms DEF Program
<1>6. SavedBy(e) = Program(e)[1].on
  <2>1. \A op \in Saving : Named(type, op) = IF Op(e, 1) = op THEN Program(e)[1].on ELSE {}
    BY <1>3 DEF Named, Op, Program
  <2>2. Saving = {"save", "saveOrRemove", "replace"}
    BY DEF Saving
  <2> QED
    BY <1>3, <2>1, <2>2 DEF SavedBy
<1> QED
  BY <1>3, <1>4, <1>5, <1>6

\* What saves: the event is stored unless what is stored is of a later one.
LEMMA StoringStep ==
    ASSUME HandlingTypes, RunSave \/ RunReplace
    PROVE  /\ RunHandler /\ run.event \in Ids /\ run.event \in begun /\ effects' = effects
           /\ run.pc \in DOMAIN Program(run.event) /\ Op(run.event, run.pc) \in Saving
           /\ \E c \in Program(run.event)[run.pc].on :
                /\ <<c, On(run.event)>> \in Keys
                /\ \/ /\ comps' = [comps EXCEPT ![<<c, On(run.event)>>] = run.event]
                      /\ saved' = saved \cup {run.event} /\ run'.updated = TRUE
                   \/ /\ UNCHANGED <<comps, saved>>
                      /\ ~(comps[<<c, On(run.event)>>] <= run.event)
<1> DEFINE r == run.event
<1>1. RunHandler /\ effects' = effects
  BY DEF RunHandler, RunSave, RunReplace
<1>2. /\ r # 0 /\ r \in begun /\ r \in Ids /\ run.pc \in DOMAIN Program(r)
  BY <1>1, HandlerMoves
<1>3. Op(r, run.pc) \in {"save", "saveOrRemove", "replace"}
  BY DEF RunSave, RunReplace, Running, Op
<1>4. \A c \in Program(r)[run.pc].on : <<c, On(r)>> \in Keys
  BY <1>2, <1>3, SavedKeys DEF Named, Op, Program
<1>5. ASSUME NEW x \in Ids \cup {0}, x # 0, Time(r) < Time(x) \/ r < x
      PROVE  ~(x <= r)
  <2>1. r \in Nat /\ x \in Nat /\ x \in Ids /\ Time(r) \in Nat /\ Time(x) \in Nat
    BY <1>2, <1>5, ScenarioFacts DEF HandlingTypes, TypeOK
  <2>2. x <= r => Time(x) <= Time(r)
    BY <1>2, <2>1, ScenarioFacts DEF HandlingTypes, TypeOK
  <2> HIDE DEF r
  <2> QED
    BY <1>5, <2>1, <2>2
<1>6. PICK c \in Program(r)[run.pc].on : \E refused \in BOOLEAN :
        /\ Upsert(<<c, On(r)>>, r, refused)
        /\ refused => LET x == comps[<<c, On(r)>>] IN x # 0 /\ (Time(r) < Time(x) \/ r < x)
  <2>1. CASE RunSave
    <3>1. PICK c \in Program(r)[run.pc].on :
            Upsert(<<c, On(r)>>, r, Refuses(comps[<<c, On(r)>>], r))
      BY <2>1 DEF RunSave, Names
    <3>2. Refuses(comps[<<c, On(r)>>], r) \in BOOLEAN
      BY DEF Refuses
    <3> QED
      BY <3>1, <3>2 DEF Refuses
  <2>2. CASE RunReplace
    <3>1. PICK c \in Program(r)[run.pc].on :
            Upsert(<<c, On(r)>>, r,
                   comps[<<c, On(r)>>] # 0 /\ Time(r) < Time(comps[<<c, On(r)>>]))
      BY <2>2 DEF RunReplace, Names
    <3> QED
      BY <3>1
  <2> QED
    BY <2>1, <2>2
<1> DEFINE k == <<c, On(r)>>
<1>7. PICK refused \in BOOLEAN :
        /\ Upsert(k, r, refused)
        /\ refused => comps[k] # 0 /\ (Time(r) < Time(comps[k]) \/ r < comps[k])
  BY <1>6
<1>8. CASE refused
  <2>1. comps[k] \in Ids \cup {0}
    BY <1>4 DEF HandlingTypes, TypeOK
  <2>2. ~(comps[k] <= r)
    BY <1>5, <1>7, <1>8, <2>1
  <2>3. UNCHANGED <<comps, saved>>
    BY <1>7, <1>8 DEF Upsert
  <2> QED
    BY <1>1, <1>2, <1>3, <1>4, <2>2, <2>3 DEF Saving
<1>9. CASE ~refused
  <2>1. comps' = [comps EXCEPT ![k] = r] /\ saved' = saved \cup {r}
    BY <1>7, <1>9 DEF Upsert, Store
  <2>2. run'.updated = TRUE
    BY <1>7, <1>9, SaveFields DEF Upsert, HandlingTypes
  <2> QED
    BY <1>1, <1>2, <1>3, <1>4, <2>1, <2>2 DEF Saving
<1> QED
  BY <1>8, <1>9

\* Nothing else saves, and what it does to components is removing them.
LEMMA OthersSaveNothing ==
    ASSUME HandlingTypes, [Next]_vars, ~(RunSave \/ RunReplace)
    PROVE  saved' = saved /\ \A k \in Keys : comps'[k] \in {0, comps[k]}
<1>1. CASE RunRemove
  <2>1. \E k : comps' = [comps EXCEPT ![k] = 0]
    BY <1>1 DEF RunRemove
  <2>2. saved' = saved
    BY <1>1 DEF RunRemove
  <2> QED
    BY <2>1, <2>2 DEF HandlingTypes, TypeOK
<1>2. CASE RunHandler /\ ~RunRemove
  BY <1>2 DEF RunHandler, RunStatus, RunEnsure, RunIfCreated, RunResolve, RunReassign,
     RunIfUpdated, RunOwn, RunSway, RunCrossing, RunFollowUp, RunTell, RunIndex,
     componentVars
<1>3. CASE Begin \/ Finalize
  BY <1>3 DEF Begin, Finalize, componentVars
<1> QED
  BY <1>1, <1>2, <1>3, OtherSteps DEF Rests, componentVars

\* Only follow-ups write effects, and they only add.
LEMMA EffectsGrow ==
    ASSUME HandlingTypes, [Next]_vars
    PROVE  /\ effects \subseteq effects'
           /\ RunHandler /\ Op(run.event, run.pc) \in FollowUps =>
                {<<run.event, Op(run.event, run.pc), n>> : n \in Program(run.event)[run.pc].on}
                  \subseteq effects'
<1>1. CASE RunFollowUp
  BY <1>1 DEF RunFollowUp, Op, Names
<1>2. CASE RunHandler /\ ~RunFollowUp
  <2>1. effects' = effects
    BY <1>2 DEF RunHandler, RunStatus, RunEnsure, RunIfCreated, RunResolve, RunReassign,
       RunSave, RunReplace, RunRemove, RunIfUpdated, RunOwn, RunSway, RunCrossing,
       RunTell, RunIndex
  <2>2. Op(run.event, run.pc) \notin FollowUps
    BY <1>2 DEF RunHandler, RunStatus, RunEnsure, RunIfCreated, RunResolve, RunReassign,
       RunSave, RunReplace, RunRemove, RunIfUpdated, RunOwn, RunSway, RunCrossing,
       RunTell, RunIndex, Running, Op, FollowUps
  <2> QED
    BY <2>1, <2>2
<1>3. CASE (Begin \/ Finalize) /\ ~RunHandler
  BY <1>3 DEF Begin, Finalize
<1> QED
  BY <1>1, <1>2, <1>3, OtherSteps DEF Rests, RunHandler

LEMMA NextNotLater ==
    ASSUME FollowUpInv, [Next]_vars
    PROVE  NotLaterInv'
<1>1. /\ InTurn /\ HandlingTypes /\ scenario' = scenario /\ handled \subseteq handled'
      /\ begun \subseteq Ids /\ saved \subseteq begun
      /\ Ids \subseteq Nat /\ 0 \notin Ids
  BY NextKeepsScenario, HistoryGrows, ScenarioFacts
     DEF FollowUpInv, InTurn, HandlingTypes, TypeOK
<1>2. SUFFICES ASSUME NEW e \in saved' \ handled', Guarded(e), NEW c \in SavedBy(e)
               PROVE  comps'[<<c, On(e)>>] <= e
  BY <1>1 DEF NotLaterInv, Guarded, SavedBy, On
<1> DEFINE k == <<c, On(e)>>
<1>3. e \notin handled
  BY <1>1, <1>2
<1>4. ASSUME e \in saved
      PROVE  e \in Ids /\ k \in Keys /\ comps[k] <= e /\ run.event <= e
  BY <1>1, <1>2, <1>3, <1>4 DEF FollowUpInv, NotLaterInv, InTurn, Keys
<1>5. CASE RunSave \/ RunReplace
  <2> DEFINE r == run.event
  <2>1. PICK b \in Program(r)[run.pc].on :
          /\ r \in Ids /\ run.pc \in DOMAIN Program(r) /\ Op(r, run.pc) \in Saving
          /\ <<b, On(r)>> \in Keys
          /\ \/ comps' = [comps EXCEPT ![<<b, On(r)>>] = r] /\ saved' = saved \cup {r}
             \/ UNCHANGED <<comps, saved>>
    BY <1>1, <1>5, StoringStep
  <2>2. CASE UNCHANGED <<comps, saved>>
    BY <1>2, <1>4, <2>2
  <2>3. CASE comps' = [comps EXCEPT ![<<b, On(r)>>] = r] /\ saved' = saved \cup {r}
    <3>1. comps \in [Keys -> {0} \cup begun]
      BY <1>1 DEF HandlingTypes, TypeOK
    <3>2. CASE e = r
      <4>1. run.pc = 1 /\ \E d : Program(e)[1].on = {d} /\ SavedBy(e) = {d}
        BY <1>1, <1>2, <2>1, <3>2, GuardedForm
      <4>2. b = c
        BY <1>2, <2>1, <3>2, <4>1
      <4>3. comps'[k] = e
        BY <2>1, <2>3, <3>1, <3>2, <4>2
      <4>4. e \in Nat
        BY <1>1, <2>1, <3>2
      <4> QED
        BY <4>3, <4>4
    <3>3. CASE e # r
      <4>1. e \in saved
        BY <1>2, <2>3, <3>3
      <4>2. comps'[k] \in {comps[k], r}
        BY <1>4, <2>1, <2>3, <3>1, <4>1
      <4> QED
        BY <1>4, <4>1, <4>2
    <3> QED
      BY <3>2, <3>3
  <2> QED
    BY <2>1, <2>2, <2>3
<1>6. CASE ~(RunSave \/ RunReplace)
  <2>1. saved' = saved /\ \A j \in Keys : comps'[j] \in {0, comps[j]}
    BY <1>1, <1>6, OthersSaveNothing
  <2>2. e \in Nat /\ comps[k] <= e /\ comps'[k] \in {0, comps[k]}
    BY <1>1, <1>2, <1>4, <2>1
  <2> QED
    BY <2>2
<1> QED
  BY <1>5, <1>6

LEMMA NextRefused ==
    ASSUME FollowUpInv, [Next]_vars
    PROVE  RefusedInv'
<1>1. /\ InTurn /\ HandlingTypes /\ HandlingTypes' /\ scenario' = scenario /\ Ids' = Ids
      /\ begun' \subseteq Ids
  BY NextInTurn, NextKeepsScenario, HistoryGrows DEF FollowUpInv, InTurn, HandlingTypes, TypeOK
<1> DEFINE e == run'.event
<1>2. SUFFICES ASSUME e # 0, Guarded(e), run'.pc = 2, ~run'.updated,
                      "clears" \notin scenario[e].flags
               PROVE  e \notin saved'
  BY <1>1 DEF RefusedInv, Guarded
<1>3. e \in Ids
  BY <1>1, <1>2 DEF HandlingTypes, TypeOK
<1>4. /\ End(e) \in Nat /\ End(e) >= 3 /\ Op(e, 1) \in Saving /\ 1 \in DOMAIN Program(e)
      /\ \E c : Program(e)[1].on = {c} /\ SavedBy(e) = {c}
  BY <1>1, <1>2, <1>3, GuardedForm
<1>5. CASE RunHandler
  <2>1. /\ run.event = e /\ run.pc \in DOMAIN Program(e) /\ handled' = handled
        /\ run'.pc = run.pc + 1 \/ run'.pc = End(e)
    BY <1>1, <1>2, <1>5, HandlerMoves
  <2>2. run.pc = 1
    <3>1. DOMAIN Program(e) = 1..Len(Program(e))
      BY <1>1, <1>3, ProgramOf
    <3>2. run.pc \in Nat /\ run.pc + 1 = 2
      BY <1>2, <1>4, <2>1, <3>1
    <3> QED
      BY <3>2
  <2>3. RunSave \/ RunReplace
    BY <1>2, <1>4, <1>5, <2>1, <2>2 DEF RunHandler, RunStatus, RunEnsure, RunIfCreated,
       RunResolve, RunReassign, RunRemove, RunIfUpdated, RunOwn, RunSway, RunCrossing,
       RunFollowUp, RunTell, RunIndex, Running, Op, Saving, FollowUps
  <2>4. PICK c \in Program(e)[1].on :
          \/ run'.updated = TRUE
          \/ saved' = saved /\ ~(comps[<<c, On(e)>>] <= e)
    BY <1>1, <2>1, <2>2, <2>3, StoringStep
  <2>5. SUFFICES ASSUME e \in saved PROVE FALSE
    BY <1>2, <2>4
  <2>6. e \notin handled
    BY <1>1, <1>4, <2>1, <2>2 DEF InTurn
  <2>7. c \in SavedBy(e)
    BY <1>4, <2>4
  <2>8. comps[<<c, On(e)>>] <= e
    BY <1>2, <2>5, <2>6, <2>7 DEF FollowUpInv, NotLaterInv
  <2> QED
    BY <1>2, <2>4, <2>8
<1>6. CASE Begin
  BY <1>2, <1>6 DEF Begin, Idle
<1>7. CASE Finalize
  <2>1. run'.event = run.event /\ run.pc = End(run.event) /\ run'.pc = run.pc + 1
    BY <1>1, <1>7, RunStays, RunFields DEF Finalize, Return, End, Stays, HandlingTypes
  <2> QED
    BY <1>2, <1>4, <2>1
<1>8. CASE Rests /\ run' = Idle
  BY <1>2, <1>8 DEF Idle
<1>9. CASE Rests /\ run' = run
  BY <1>2, <1>9 DEF Rests, componentVars, FollowUpInv, RefusedInv
<1> QED
  BY <1>5, <1>6, <1>7, <1>8, <1>9, OtherSteps

LEMMA NextDone ==
    ASSUME FollowUpInv, [Next]_vars
    PROVE  DoneInv'
<1>1. /\ InTurn /\ HandlingTypes /\ scenario' = scenario /\ Ids' = Ids
      /\ begun' \subseteq Ids /\ handled \subseteq handled'
      /\ effects \subseteq effects'
  BY NextInTurn, NextKeepsScenario, HistoryGrows, EffectsGrow
     DEF FollowUpInv, InTurn, HandlingTypes, TypeOK
<1>2. SUFFICES ASSUME NEW e \in begun' \ skipped', NEW i \in DOMAIN Program(e),
                      Op(e, i) \in FollowUps, Past(e, i)',
                      ~({<<e, Op(e, i), n>> : n \in Program(e)[i].on} \subseteq effects')
               PROVE  e \notin saved' /\ Returned(e)'
  BY <1>1, SaysTheSame DEF DoneInv, Op, Program
<1>3. e \in Ids /\ e \notin skipped
  <2>1. skipped \subseteq skipped'
    <3>1. CASE RunHandler
      BY <1>1, <3>1, HandlerMoves
    <3>2. CASE Begin \/ Finalize
      BY <3>2 DEF Begin, Finalize, progressVars
    <3> QED
      BY <3>1, <3>2, OtherSteps DEF Rests
  <2> QED
    BY <1>1, <1>2, <2>1
<1>4. /\ e \in begun
      /\ \/ Past(e, i)
         \/ /\ RunHandler /\ run.event = e /\ e \notin handled /\ run.pc \in 1..i
            /\ \/ run.pc = i
               \/ Leaves(e) /\ run'.event = e /\ run'.pc = End(e)
  BY <1>1, <1>2, <1>3, PastBefore
<1>5. i \in Nat /\ End(e) \in Nat /\ End(e) + 1 >= End(e) /\ DOMAIN Program(e) = 1..(End(e) - 1)
  <2>1. DOMAIN Program(e) = 1..Len(Program(e)) /\ Len(Program(e)) \in Nat
    BY <1>1, <1>3, ProgramOf
  <2> QED
    BY <1>2, <2>1 DEF End
<1>6. CASE Past(e, i)
  <2>1. e \notin saved /\ Returned(e)
    BY <1>1, <1>2, <1>3, <1>4, <1>6 DEF FollowUpInv, DoneInv
  <2>2. ~(RunHandler /\ run.event = e)
    <3>1. SUFFICES ASSUME RunHandler, run.event = e PROVE FALSE
      OBVIOUS
    <3>2. run.pc \in DOMAIN Program(e)
      BY <1>1, <3>1, HandlerMoves
    <3>3. e \notin handled
      BY <1>1, <1>5, <3>1, <3>2 DEF InTurn
    <3> QED
      BY <1>5, <2>1, <3>2, <3>3 DEF Returned
  <2>3. e \notin saved'
    <3>1. CASE RunSave \/ RunReplace
      <4>1. RunHandler /\ saved' \subseteq saved \cup {run.event}
        BY <1>1, <3>1, StoringStep
      <4> QED
        BY <2>1, <2>2, <4>1
    <3> QED
      BY <1>1, <2>1, <3>1, OthersSaveNothing
  <2>4. Returned(e)'
    <3>1. CASE e \in handled'
      BY <3>1 DEF Returned
    <3>2. CASE e \notin handled'
      <4>1. run'.event = e /\ run.event = e /\ run.pc >= End(e) /\ e # 0 /\ e \notin handled
        <5>1. e \notin handled /\ run.event = e /\ run.pc >= End(e) /\ run'.event = e
          BY <1>1, <1>2, <2>1, <3>2 DEF Returned, Past
        <5>2. e # 0
          BY <1>1, <1>3, ScenarioFacts DEF HandlingTypes, TypeOK
        <5> QED
          BY <5>1, <5>2
      <4>2. ~Begin
        BY <4>1 DEF Begin
      <4>3. ~Finalize
        BY <3>2, <4>1 DEF Finalize
      <4>4. run' = run
        BY <2>2, <4>1, <4>2, <4>3, OtherSteps DEF Idle
      <4> QED
        BY <1>1, <4>1, <4>4 DEF Returned, End, Program
    <3> QED
      BY <3>1, <3>2
  <2> QED
    BY <2>3, <2>4
<1>7. CASE /\ RunHandler /\ run.event = e /\ e \notin handled /\ run.pc \in 1..i
           /\ Leaves(e) /\ run'.event = e /\ run'.pc = End(e)
  <2>1. Op(e, run.pc) = "ifUpdated" /\ ~run.updated /\ "clears" \notin scenario[e].flags
    BY <1>2, <1>7 DEF Leaves
  <2>2. Guarded(e) /\ run.pc \in DOMAIN Program(e)
    BY <1>2, <1>5, <1>7, <2>1 DEF Guarded, Places, Op, Program
  <2>3. run.pc = 2
    BY <1>1, <1>3, <2>1, <2>2, GuardedForm
  <2>4. e \notin saved
    BY <1>1, <1>3, <1>7, <2>1, <2>2, <2>3, ScenarioFacts
       DEF FollowUpInv, RefusedInv, HandlingTypes, TypeOK
  <2>5. ~(RunSave \/ RunReplace)
    BY <1>7, <2>1 DEF RunSave, RunReplace, Running, Op
  <2>6. e \notin saved'
    BY <1>1, <2>4, <2>5, OthersSaveNothing
  <2>7. Returned(e)'
    BY <1>1, <1>5, <1>7 DEF Returned, End, Program
  <2> QED
    BY <2>6, <2>7
<1>8. CASE RunHandler /\ run.event = e /\ run.pc = i
  BY <1>1, <1>2, <1>8, EffectsGrow
<1> QED
  BY <1>4, <1>6, <1>7, <1>8

LEMMA InitFollowUp == Init => FollowUpInv
<1> SUFFICES ASSUME Init PROVE FollowUpInv
  OBVIOUS
<1>1. InTurn
  BY InitInTurn
<1> QED
  BY <1>1 DEF Init, Idle, FollowUpInv, DoneInv, RefusedInv, NotLaterInv

LEMMA NextFollowUp == FollowUpInv /\ [Next]_vars => FollowUpInv'
<1> SUFFICES ASSUME FollowUpInv, [Next]_vars PROVE FollowUpInv'
  OBVIOUS
<1>1. InTurn'
  BY NextInTurn DEF FollowUpInv
<1> QED
  BY <1>1, NextDone, NextRefused, NextNotLater DEF FollowUpInv

\* Of all histories, stored in any order: an event that was saved and handled
\* had every follow-up done that its handler repeats, whatever document is
\* stored, however often it crashed after saving (an event is not refused for
\* being the one stored).
THEOREM FollowUpsSurviveHolds == Spec => []FollowUpsSurvive
<1>1. FollowUpInv => FollowUpsSurvive
  <2>1. SUFFICES ASSUME FollowUpInv, NEW e \in (handled \cap saved) \ skipped,
                        NEW op \in FollowUps, NEW n \in Named(scenario[e].type, op)
                 PROVE  <<e, op, n>> \in effects
    BY DEF FollowUpsSurvive
  <2>2. e \in begun /\ e \in Ids
    BY <2>1 DEF FollowUpInv, InTurn, HandlingTypes, TypeOK
  <2>3. PICK i \in DOMAIN Program(e) : Op(e, i) = op /\ n \in Program(e)[i].on
    BY <2>1, <2>2, NamedAt DEF FollowUpInv, InTurn
  <2> QED
    BY <2>1, <2>2, <2>3 DEF FollowUpInv, DoneInv, Past
<1> QED
  BY <1>1, InitFollowUp, NextFollowUp, PTL DEF Spec

(***************************************************************************)
(* Tasks that end.                                                         *)
(***************************************************************************)
\* f ends the task s started, of the kind base.
EndsBy(f, s, base) ==
    /\ IsStart(s, base) /\ Same(s, f) /\ s < f
    /\ \A t \in (s + 1)..(f - 1) : ~(IsStart(t, base) /\ Same(s, t))

\* Where the handler of f looks for the start of the kind base, in any case.
LooksAt(f, i, base) ==
    /\ base \in Program(f)[i].on
    /\ \/ Op(f, i) = "resolve"
       \/ Op(f, i) = "resolveIfCrew" /\ "aboard" \in scenario[f].flags

ResolvedInv ==
    /\ InTurn /\ WaitingInv
    /\ InOrder(Ids) =>
         \A s, f \in Ids : \A i \in DOMAIN Program(f) : \A base \in Bases :
           LooksAt(f, i, base) /\ EndsBy(f, s, base) /\ f \in begun \ skipped /\ Past(f, i)
             => waiting[s] = {}

\* What stopped waiting does not begin to wait again, unless its own handler runs.
LEMMA StaysResolved ==
    ASSUME [Next]_vars, NEW s \in Ids, waiting[s] = {}, ~(RunHandler /\ run.event = s)
    PROVE  waiting'[s] = {}
<1>1. CASE RunEnsure
  BY <1>1 DEF RunEnsure, RunHandler
<1>2. CASE RunResolve
  BY <1>2 DEF RunResolve
<1>3. CASE RunReassign
  BY <1>3 DEF RunReassign, Reassigned
<1> QED
  BY <1>1, <1>2, <1>3, OthersLeaveActivities

\* Skipping is for good.
LEMMA SkippedGrows ==
    ASSUME InTurn, [Next]_vars
    PROVE  skipped \subseteq skipped'
<1>1. CASE RunHandler
  BY <1>1, HandlerMoves DEF InTurn
<1>2. CASE Begin \/ Finalize
  BY <1>2 DEF Begin, Finalize, progressVars
<1> QED
  BY <1>1, <1>2, OtherSteps DEF Rests

\* The only start the handler can find is the one its event ends.
LEMMA FindsItsStart ==
    ASSUME HandlingTypes, NEW f \in Ids, NEW s \in activities, NEW base, EndsBy(f, s, base),
           \A a \in activities : IsStart(a, base) /\ Same(a, f) /\ Time(a) <= Time(f) => a < f,
           \A a \in activities : IsStart(a, base) /\ Same(a, s) /\ a < s => Time(a) < Time(s)
    PROVE  \A a \in FindStart(f, base) : a = s
<1>1. /\ activities \subseteq Ids /\ Ids \subseteq Nat /\ s \in Ids
      /\ \A e \in Ids : Time(e) \in Nat
      /\ \A e, x \in Ids : e <= x => Time(e) <= Time(x)
  BY ScenarioFacts DEF HandlingTypes, TypeOK
<1>2. s \in Nat /\ f \in Nat /\ s < f /\ Time(s) <= Time(f)
  BY <1>1 DEF EndsBy
<1>3. s \in Starts(f, base)
  BY <1>2 DEF EndsBy, Starts, IsStart, Same
<1>4. ASSUME NEW a \in Newest(Starts(f, base)) PROVE a = s /\ a < f
  <2>1. /\ a \in activities /\ IsStart(a, base) /\ Same(a, f) /\ Time(a) <= Time(f)
        /\ Time(s) <= Time(a)
    BY <1>3, <1>4 DEF Newest, Starts, IsStart, Same
  <2>2. a \in Nat /\ Time(a) \in Nat /\ Time(s) \in Nat /\ a < f /\ Same(a, s) /\ Same(s, a)
    BY <1>1, <2>1 DEF EndsBy, Same
  <2>3. a \notin (s + 1)..(f - 1)
    BY <2>1, <2>2 DEF EndsBy
  <2>4. ~(a < s)
    BY <2>1, <2>2
  <2>5. \A n \in Nat : n < f /\ n \notin (s + 1)..(f - 1) /\ ~(n < s) => n = s
    BY <1>2
  <2> QED
    BY <2>2, <2>3, <2>4, <2>5
<1> QED
  BY <1>3, <1>4 DEF FindStart

\* The step at which a handler looks for the start.
LEMMA ResolvingStep ==
    ASSUME HandlingTypes, RunHandler, NEW base,
           LooksAt(run.event, run.pc, base), NEW s \in Ids,
           waiting[s] # {} => \A a \in FindStart(run.event, base) : a = s
    PROVE  waiting'[s] = {}
<1> DEFINE f == run.event
<1>1. f \in Ids /\ run.pc \in DOMAIN Program(f)
  BY HandlerMoves
<1>2. RunResolve /\ Looks
  <2>1. Op(f, run.pc) \in {"resolve", "resolveIfCrew"}
    BY DEF LooksAt
  <2>2. RunResolve
    BY <2>1 DEF RunHandler, RunStatus, RunEnsure, RunIfCreated, RunReassign, RunSave,
       RunReplace, RunRemove, RunIfUpdated, RunOwn, RunSway, RunCrossing, RunFollowUp,
       RunTell, RunIndex, Running, Op, FollowUps
  <2>3. Looks
    BY <1>1, <2>2 DEF RunResolve, Running, Looks, LooksAt, Op
  <2> QED
    BY <2>2, <2>3
<1>3. Names = {base}
  <2>1. run.pc \in Places(scenario[f].type, Single)
    BY <1>1 DEF LooksAt, Places, Single, Resolving, Op, Program
  <2>2. \E name \in Program(f)[run.pc].on : Program(f)[run.pc].on = {name}
    BY <1>1, <2>1, ProgramOf, ProgramForms DEF Program
  <2> QED
    BY <2>2 DEF LooksAt, Names
<1>4. PICK a \in FindStart(f, base) : waiting' = [e \in Ids |-> IF e = a THEN {} ELSE waiting[e]]
  BY <1>2, <1>3 DEF RunResolve
<1> QED
  BY <1>4

LEMMA NextResolved ==
    ASSUME StartsApart
    PROVE  ResolvedInv /\ [Next]_vars => ResolvedInv'
<1> SUFFICES ASSUME ResolvedInv, [Next]_vars PROVE ResolvedInv'
  OBVIOUS
<1>1. /\ InTurn /\ InTurn' /\ WaitingInv /\ WaitingInv' /\ HandlingTypes
      /\ scenario' = scenario /\ Ids' = Ids
      /\ begun \subseteq Ids /\ activities \subseteq begun /\ Ids \subseteq Nat
      /\ skipped \subseteq skipped'
  BY NextInTurn, NextWaiting, NextKeepsScenario, HistoryGrows, ScenarioFacts, SkippedGrows
     DEF ResolvedInv, InTurn, HandlingTypes, TypeOK
<1>2. SUFFICES ASSUME InOrder(Ids), NEW s \in Ids, NEW f \in Ids, NEW i \in DOMAIN Program(f),
                      NEW base \in Bases, LooksAt(f, i, base), EndsBy(f, s, base),
                      f \notin skipped', Past(f, i)'
               PROVE  waiting'[s] = {}
  BY <1>1, HistoryGrows, SaysTheSame
     DEF ResolvedInv, LooksAt, EndsBy, IsStart, Same, On, Op, Program
<1>3. s \in Nat /\ f \in Nat /\ s < f /\ f \notin skipped
  BY <1>1, <1>2 DEF EndsBy
<1>4. scenario[f].type \in DOMAIN Programs /\ DOMAIN Program(f) = 1..Len(Program(f))
      /\ Len(Program(f)) \in Nat
  BY <1>1, ProgramOf
<1>5. Op(f, i) \in Resolving /\ base \in Named(scenario[f].type, Op(f, i))
  BY <1>2 DEF LooksAt, Resolving, Named, Op, Program
<1>6. /\ f \in begun
      /\ Past(f, i) \/ (RunHandler /\ run.event = f /\ run.pc = i)
  <2>1. ASSUME Leaves(f), run.pc \in 1..i PROVE FALSE
    <3>1. run.pc \in DOMAIN Program(f)
      BY <1>4, <2>1
    <3>2. Op(f, run.pc) = "ifUpdated"
      BY <1>2, <2>1 DEF Leaves
    <3>3. Places(scenario[f].type, {"ifUpdated"}) # {} /\ i \in Places(scenario[f].type, Resolving)
      BY <1>5, <3>1, <3>2 DEF Places, Op, Program
    <3> QED
      BY <1>4, <3>3, ProgramForms
  <2> QED
    BY <1>1, <1>2, <2>1, PastBefore
<1>7. CASE Past(f, i)
  <2>1. waiting[s] = {}
    BY <1>2, <1>3, <1>6, <1>7 DEF ResolvedInv
  <2>2. ~(RunHandler /\ run.event = s)
    BY <1>1, <1>2, <1>3, <1>6, RunningIsOvertaken DEF InOrder
  <2> QED
    BY <2>1, <2>2, StaysResolved
<1>8. CASE RunHandler /\ run.event = f /\ run.pc = i
  <2>1. ASSUME waiting[s] # {} PROVE \A a \in FindStart(f, base) : a = s
    <3>1. s \in activities
      BY <1>1, <2>1 DEF WaitingInv
    <3>2. ASSUME NEW a \in activities, IsStart(a, base) PROVE a < f
      <4>1. a \in Ids /\ a \in begun /\ a \in Nat
        BY <1>1, <3>2
      <4>2. ~(f < a)
        BY <1>1, <1>2, <1>8, <4>1, RunningIsOvertaken DEF InOrder
      <4>3. a # f
        BY <1>4, <1>5, <3>2, ProgramForms DEF IsStart
      <4> QED
        BY <1>3, <4>1, <4>2, <4>3
    <3>3. ASSUME NEW a \in activities, IsStart(a, base), Same(a, s), a < s
          PROVE  Time(a) < Time(s)
      <4>1. a \in DOMAIN scenario /\ s \in DOMAIN scenario /\ scenario \in Scenarios
        BY <1>1, <3>3 DEF Ids, HandlingTypes, TypeOK
      <4> QED
        BY <1>2, <3>3, <4>1 DEF StartsApart, EndsBy, IsStart, Same, On, Time
    <3> QED
      BY <1>1, <1>2, <3>1, <3>2, <3>3, FindsItsStart
  <2> QED
    BY <1>1, <1>2, <1>8, <2>1, ResolvingStep
<1> QED
  BY <1>6, <1>7, <1>8

\* Of all histories handled in order, in which no task starts in the block of
\* another of its kind: nothing waits for a task whose finish was handled, unless
\* the finish crashed after its activity was created (resolveStartActivity).
THEOREM StartsResolvedHolds ==
    ASSUME StartsApart
    PROVE  Spec => []StartsResolved
<1>1. Init => ResolvedInv
  BY InitInTurn, InitWaiting DEF Init, ResolvedInv
<1>2. ResolvedInv => StartsResolved
  <2>1. SUFFICES ASSUME ResolvedInv, NEW s \in Ids, NEW f \in Ids, f \in handled \ skipped,
                        InOrder(Ids), NEW base \in StartsOf(f), EndsBy(f, s, base)
                 PROVE  waiting[s] = {}
    BY DEF StartsResolved, Ends, EndsBy
  <2>2. f \in begun /\ HandlingTypes /\ scenario[f].type \in DOMAIN Programs
    BY <2>1, ProgramOf DEF ResolvedInv, InTurn, HandlingTypes, TypeOK
  <2>3. PICK op \in {"resolve", "resolveIfCrew"} :
          /\ base \in Named(scenario[f].type, op)
          /\ op = "resolveIfCrew" => "aboard" \in scenario[f].flags
    BY <2>1, <2>2, ProgramForms DEF StartsOf
  <2>4. \E i \in DOMAIN Program(f) : LooksAt(f, i, base)
    BY <2>2, <2>3, NamedAt DEF LooksAt
  <2>5. base \in Bases
    BY <2>2, <2>3 DEF Bases, Resolving
  <2> QED
    BY <2>1, <2>2, <2>4, <2>5 DEF ResolvedInv, Past
<1>3. ResolvedInv /\ [Next]_vars => ResolvedInv'
  BY NextResolved
<1> QED
  BY <1>1, <1>2, <1>3, PTL DEF Spec

\* The handler of a delivery received resolves before it asks whether its
\* activity is new.
LEMMA ReceivedProgram ==
    /\ DOMAIN Programs["DeliveryReceived"] = 1..4
    /\ Programs["DeliveryReceived"][1].op = "ensure"
    /\ Programs["DeliveryReceived"][2] = [op |-> "resolve", on |-> {"DeliverySent"}]
    /\ Programs["DeliveryReceived"][3].op = "ifCreated"
    /\ Programs["DeliveryReceived"][4].op = "tell"
<1> DEFINE ensure == [op |-> "ensure", on |-> {}]
           resolve == [op |-> "resolve", on |-> {"DeliverySent"}]
           ifCreated == [op |-> "ifCreated", on |-> {}]
           tell == [op |-> "tell", on |-> DeliveryParties]
           S == {ensure, resolve, ifCreated, tell}
           one == <<ensure>>
           two == one \o <<resolve>>
           three == two \o <<ifCreated>>
           all == three \o <<tell>>
<1>1. Programs["DeliveryReceived"] = all
  <2>1. Programs["DeliveryReceived"] = DeliveryReceived
    BY DEF Programs
  <2>2. DeliveryReceived = all
    BY DEF DeliveryReceived, Ensure, EnsureFor, Resolves, IfCreated, Tell, Effect
  <2> QED
    BY <2>1, <2>2
<1>2. ensure.op = "ensure" /\ ifCreated.op = "ifCreated" /\ tell.op = "tell"
  OBVIOUS
<1> HIDE DEF ensure, ifCreated, tell
<1>3. one \in Seq(S) /\ Len(one) = 1 /\ one[1] = ensure
  OBVIOUS
<1> HIDE DEF one
<1>4. two \in Seq(S) /\ Len(two) = 2 /\ two[1] = ensure /\ two[2] = resolve
  <2>1. /\ two \in Seq(S) /\ Len(two) = Len(one) + 1 /\ two[Len(one) + 1] = resolve
        /\ \A i \in 1..Len(one) : two[i] = one[i]
    <3>1. resolve \in S
      OBVIOUS
    <3>2. one \in Seq(S)
      BY <1>3
    <3> HIDE DEF S
    <3> QED
      BY <3>1, <3>2, OneMore
  <2> HIDE DEF two
  <2> QED
    BY <1>3, <2>1
<1> HIDE DEF two
<1>5. three \in Seq(S) /\ Len(three) = 3 /\ three[1] = ensure /\ three[2] = resolve
      /\ three[3] = ifCreated
  <2>1. /\ three \in Seq(S) /\ Len(three) = Len(two) + 1 /\ three[Len(two) + 1] = ifCreated
        /\ \A i \in 1..Len(two) : three[i] = two[i]
    <3>1. ifCreated \in S
      OBVIOUS
    <3>2. two \in Seq(S)
      BY <1>4
    <3> HIDE DEF S
    <3> QED
      BY <3>1, <3>2, OneMore
  <2> HIDE DEF three
  <2> QED
    BY <1>4, <2>1
<1> HIDE DEF three
<1>6. all \in Seq(S) /\ Len(all) = 4 /\ all[1] = ensure /\ all[2] = resolve
      /\ all[3] = ifCreated /\ all[4] = tell
  <2>1. /\ all \in Seq(S) /\ Len(all) = Len(three) + 1 /\ all[Len(three) + 1] = tell
        /\ \A i \in 1..Len(three) : all[i] = three[i]
    <3>1. tell \in S
      OBVIOUS
    <3>2. three \in Seq(S)
      BY <1>5
    <3> HIDE DEF S
    <3> QED
      BY <3>1, <3>2, OneMore
  <2> HIDE DEF all
  <2> QED
    BY <1>5, <2>1
<1> HIDE DEF all
<1>7. DOMAIN all = 1..4
  BY <1>6
<1> QED
  BY <1>1, <1>2, <1>6, <1>7

\* f receives the delivery s sent.
Receives(f, s) == scenario[f].type = "DeliveryReceived" /\ EndsBy(f, s, "DeliverySent")

ReceivedInv ==
    /\ InTurn /\ WaitingInv
    /\ \A s, f \in Ids :
         Receives(f, s) /\ InOrder({s, f}) /\ f \in begun /\ Past(f, 2) => waiting[s] = {}

LEMMA NextReceived ==
    ASSUME StartsApart, SentApart, "DeliverySent" \in Bases
    PROVE  ReceivedInv /\ [Next]_vars => ReceivedInv'
<1> SUFFICES ASSUME ReceivedInv, [Next]_vars PROVE ReceivedInv'
  OBVIOUS
<1>1. /\ InTurn /\ InTurn' /\ WaitingInv /\ WaitingInv' /\ HandlingTypes
      /\ scenario' = scenario /\ Ids' = Ids /\ scenario \in Scenarios
      /\ begun \subseteq Ids /\ activities \subseteq begun /\ Ids \subseteq Nat
      /\ \A e \in Ids : Time(e) \in Nat
  BY NextInTurn, NextWaiting, NextKeepsScenario, HistoryGrows, ScenarioFacts
     DEF ReceivedInv, InTurn, HandlingTypes, TypeOK
<1>2. SUFFICES ASSUME NEW s \in Ids, NEW f \in Ids, Receives(f, s), InOrder({s, f}), Past(f, 2)'
               PROVE  waiting'[s] = {}
  BY <1>1, HistoryGrows, SaysTheSame DEF ReceivedInv, Receives, EndsBy, IsStart, Same, On
<1>3. s \in Nat /\ f \in Nat /\ s < f /\ Versions("DeliverySent") = {"DeliverySent"}
  BY <1>1, <1>2 DEF Receives, EndsBy, Versions
<1>4. /\ 2 \in DOMAIN Program(f) /\ Op(f, 1) = "ensure" /\ Op(f, 2) = "resolve"
      /\ LooksAt(f, 2, "DeliverySent")
  BY <1>2, ReceivedProgram DEF Receives, Program, Op, LooksAt
<1>5. /\ f \in begun
      /\ Past(f, 2) \/ (RunHandler /\ run.event = f /\ run.pc = 2)
  <2>1. 1..2 = {1, 2}
    OBVIOUS
  <2>2. Leaves(f) => run.pc \notin 1..2
    BY <1>4, <2>1 DEF Leaves
  <2> QED
    BY <1>1, <1>2, <1>4, <2>2, PastBefore
<1>6. CASE Past(f, 2)
  <2>1. waiting[s] = {}
    BY <1>2, <1>5, <1>6 DEF ReceivedInv
  <2>2. ~(RunHandler /\ run.event = s)
    BY <1>1, <1>2, <1>3, <1>5, RunningIsOvertaken DEF InOrder
  <2> QED
    BY <2>1, <2>2, StaysResolved
<1>7. CASE RunHandler /\ run.event = f /\ run.pc = 2
  <2>1. ASSUME waiting[s] # {} PROVE \A a \in FindStart(f, "DeliverySent") : a = s
    <3>1. s \in activities
      BY <1>1, <2>1 DEF WaitingInv
    <3>2. ASSUME NEW a \in activities, IsStart(a, "DeliverySent"), Same(a, f), Time(a) <= Time(f)
          PROVE  a < f
      <4>1. a \in DOMAIN scenario /\ f \in DOMAIN scenario /\ a \in Nat
            /\ Time(a) \in Nat /\ Time(f) \in Nat
        BY <1>1, <3>2 DEF Ids
      <4>2. scenario[a].type = "DeliverySent" /\ scenario[f].type = "DeliveryReceived"
        BY <1>2, <1>3, <3>2 DEF IsStart, Receives
      <4>3. f < a => Time(f) < Time(a)
        BY <1>1, <3>2, <4>1, <4>2 DEF SentApart, Same, On, Time
      <4>4. ~(f < a)
        BY <3>2, <4>1, <4>3
      <4> QED
        BY <1>3, <4>1, <4>2, <4>4
    <3>3. ASSUME NEW a \in activities, IsStart(a, "DeliverySent"), Same(a, s), a < s
          PROVE  Time(a) < Time(s)
      <4>1. a \in DOMAIN scenario /\ s \in DOMAIN scenario
        BY <1>1, <3>3 DEF Ids
      <4> QED
        BY <1>1, <1>2, <3>3, <4>1 DEF StartsApart, Receives, EndsBy, IsStart, Same, On, Time
    <3> QED
      BY <1>1, <1>2, <3>1, <3>2, <3>3, FindsItsStart DEF Receives
  <2> QED
    BY <1>1, <1>2, <1>4, <1>7, <2>1, ResolvingStep
<1> QED
  BY <1>5, <1>6, <1>7

\* Of all histories in which nothing is sent in the block in which it was sent or
\* received before: a delivery handled in order waits no longer once it was
\* received, also when the handler crashed after its activity was created, and
\* whatever else is handled out of order (DeliveryReceived).
THEOREM ReceivedDespiteCrashHolds ==
    ASSUME StartsApart, SentApart
    PROVE  Spec => []ReceivedDespiteCrash
<1>1. Init => ReceivedInv
  BY InitInTurn, InitWaiting DEF Init, ReceivedInv
<1>2. "DeliverySent" \in Bases
  <2>1. "DeliveryReceived" \in DOMAIN Programs
    BY DEF Programs
  <2>2. "DeliverySent" \in Named("DeliveryReceived", "resolve")
    BY ReceivedProgram DEF Named
  <2> QED
    BY <2>1, <2>2 DEF Bases, Resolving
<1>3. ReceivedInv => ReceivedDespiteCrash
  <2>1. SUFFICES ASSUME ReceivedInv, NEW s \in Ids, NEW f \in Ids, f \in handled,
                        scenario[f].type = "DeliveryReceived", NEW base \in StartsOf(f),
                        EndsBy(f, s, base), InOrder({s, f})
                 PROVE  waiting[s] = {}
    BY DEF ReceivedDespiteCrash, Ends, EndsBy
  <2>2. base = "DeliverySent"
    <3>1. /\ DOMAIN Programs["DeliveryReceived"] = {1, 2, 3, 4}
          /\ Programs["DeliveryReceived"][2].on = {"DeliverySent"}
          /\ \A i \in {1, 3, 4} : Programs["DeliveryReceived"][i].op \notin Resolving
      <4>1. 1..4 = {1, 2, 3, 4}
        OBVIOUS
      <4> QED
        BY <4>1, ReceivedProgram DEF Resolving
    <3>2. \A op \in Resolving : Named("DeliveryReceived", op) \subseteq {"DeliverySent"}
      BY <3>1 DEF Named
    <3> QED
      BY <2>1, <3>2 DEF StartsOf, Resolving
  <2>3. f \in begun
    BY <2>1 DEF ReceivedInv, InTurn, HandlingTypes, TypeOK
  <2> QED
    BY <2>1, <2>2, <2>3 DEF ReceivedInv, Receives, Past
<1>4. ReceivedInv /\ [Next]_vars => ReceivedInv'
  BY <1>2, NextReceived
<1> QED
  BY <1>1, <1>3, <1>4, PTL DEF Spec

(***************************************************************************)
(* Withdrawals of SWAY.                                                    *)
(***************************************************************************)
Sways(e) == Named(scenario[e].type, "sway")
Changing(S, change) == {e \in S : change \in Sways(e)}

\* No event is missing before one that has begun.
Prefix == \A e \in begun, d \in Ids : d < e => d \in begun

\* The counts of withdrawals are those of the events counted, which are all that
\* have been through their first effect.
SwayExact(x) ==
    /\ sway[x] \in [pending : Int, ready : Int, events : SUBSET begun]
    /\ \A e \in sway[x].events : On(e) = x
    /\ \A e \in begun : On(e) = x /\ Sways(e) # {} /\ Past(e, 1) => e \in sway[x].events
    /\ sway[x].pending = Cardinality(Changing(sway[x].events, "initialize"))
                           - Cardinality(Changing(sway[x].events, "incrementReady"))
    /\ sway[x].ready = Cardinality(Changing(sway[x].events, "incrementReady"))
                         - Cardinality(Changing(sway[x].events, "decrementReady"))

SwayInv ==
    /\ InTurn
    /\ DOMAIN sway = Entities
    /\ InOrder(Ids) /\ Prefix => \A x \in Entities : SwayExact(x)

\* A withdrawal is the first effect of its handler, and it is one.
LEMMA SwaysFirst ==
    ASSUME HandlingTypes, NEW e \in Ids, Sways(e) # {}
    PROVE  /\ 1 \in DOMAIN Program(e) /\ Op(e, 1) = "sway"
           /\ \E change \in {"initialize", "incrementReady", "decrementReady"} :
                Program(e)[1].on = {change} /\ Sways(e) = {change}
<1>1. scenario[e].type \in DOMAIN Programs
  BY ProgramOf
<1>2. PICK name \in Sways(e) : TRUE
  OBVIOUS
<1>3. PICK i \in DOMAIN Program(e) :
        /\ Op(e, i) = "sway"
        /\ i \in Places(scenario[e].type, Owning \cup {"cross", "sway"})
  BY <1>2, NamedAt DEF Sways
<1>4. i = 1
  BY <1>1, <1>3, ProgramForms
<1>5. 1 \in Places(scenario[e].type, Single)
  BY <1>3, <1>4 DEF Places, Op, Program, Single
<1>6. PICK change \in Program(e)[1].on : Program(e)[1].on = {change}
  BY <1>1, <1>5, ProgramForms DEF Program
<1>7. \A j \in DOMAIN Program(e) : Op(e, j) = "sway" => j = 1
  <2>1. \A j \in DOMAIN Program(e) : Op(e, j) = "sway" =>
          j \in Places(scenario[e].type, Owning \cup {"cross", "sway"})
    BY DEF Places, Op, Program
  <2> QED
    BY <1>1, <2>1, ProgramForms
<1>8. Sways(e) = {change}
  BY <1>3, <1>4, <1>6, <1>7 DEF Sways, Named, Op, Program
<1>9. change \in {"initialize", "incrementReady", "decrementReady"}
  BY <1>1, <1>8, ProgramForms DEF Sways
<1> QED
  BY <1>3, <1>4, <1>6, <1>8, <1>9

LEMMA SwayRuns ==
    ASSUME RunHandler, Op(run.event, run.pc) = "sway"
    PROVE  RunSway
BY DEF RunHandler, RunStatus, RunEnsure, RunIfCreated, RunResolve, RunReassign,
   RunSave, RunReplace, RunRemove, RunIfUpdated, RunOwn, RunCrossing,
   RunFollowUp, RunTell, RunIndex, Running, Op, FollowUps

LEMMA OnlySwaySways ==
    ASSUME [Next]_vars, ~RunSway
    PROVE  sway' = sway
<1>1. CASE RunHandler
  BY <1>1 DEF RunHandler, RunStatus, RunEnsure, RunIfCreated, RunResolve, RunReassign,
     RunSave, RunReplace, RunRemove, RunIfUpdated, RunOwn, RunCrossing, RunFollowUp,
     RunTell, RunIndex, bridgeVars
<1>2. CASE Begin \/ Finalize
  BY <1>2 DEF Begin, Finalize, bridgeVars
<1> QED
  BY <1>1, <1>2, OtherSteps DEF Rests, bridgeVars

\* An event that was not counted adds one to what it changes, and to nothing else.
LEMMA CountOne ==
    ASSUME HandlingTypes, NEW S \in SUBSET Ids, NEW r \in Ids, r \notin S, NEW change
    PROVE  /\ Cardinality(Changing(S, change)) \in Nat
           /\ change \in Sways(r) => Cardinality(Changing(S \cup {r}, change))
                                       = Cardinality(Changing(S, change)) + 1
           /\ change \notin Sways(r) => Changing(S \cup {r}, change) = Changing(S, change)
<1>1. IsFiniteSet(Ids)
  <2>1. Ids = 1..Len(scenario) /\ Len(scenario) \in Nat
    BY ScenarioAssumption DEF HandlingTypes, TypeOK, Ids
  <2> QED
    BY <2>1, FS_Interval
<1>2. IsFiniteSet(Changing(S, change)) /\ r \notin Changing(S, change)
  BY <1>1, FS_Subset DEF Changing
<1>3. change \in Sways(r) => Changing(S \cup {r}, change) = Changing(S, change) \cup {r}
  BY DEF Changing
<1>4. change \notin Sways(r) => Changing(S \cup {r}, change) = Changing(S, change)
  BY DEF Changing
<1> QED
  BY <1>2, <1>3, <1>4, FS_AddElement, FS_CardinalityType

\* Where nothing is missing and all was in order, it was so before the step.
LEMMA PrefixBefore ==
    ASSUME InTurn, [Next]_vars, InOrder(Ids)', Prefix'
    PROVE  InOrder(Ids) /\ Prefix
<1>1. /\ InOrder(Ids) /\ Ids' = Ids /\ begun \subseteq Ids /\ Ids \subseteq Nat
  BY HistoryGrows, ScenarioFacts DEF InTurn, HandlingTypes, TypeOK
<1>2. CASE Begin
  <2>1. PICK e \in Backlog : /\ begun' = begun \cup {e}
                             /\ overtaken' = overtaken \cup {<<e, x>> : x \in {y \in begun : e < y}}
    BY <1>2 DEF Begin
  <2>2. e \in Ids
    BY <2>1 DEF Backlog, InTurn, HandlingTypes, TypeOK
  <2>3. SUFFICES ASSUME NEW x \in begun, NEW d \in Ids, d < x, d \notin begun PROVE FALSE
    BY <1>1 DEF Prefix
  <2>4. d = e
    BY <1>1, <2>1, <2>3 DEF Prefix
  <2>5. <<e, x>> \in overtaken'
    BY <2>1, <2>3, <2>4
  <2> QED
    BY <1>1, <2>2, <2>5 DEF InOrder
<1>3. CASE ~Begin
  <2>1. begun' = begun
    <3>1. CASE RunHandler
      BY <3>1, HandlerMoves DEF InTurn
    <3>2. CASE Finalize
      BY <3>2 DEF Finalize, inputVars
    <3> QED
      BY <1>3, <3>1, <3>2, OtherSteps DEF Rests
  <2> QED
    BY <1>1, <2>1 DEF Prefix
<1> QED
  BY <1>2, <1>3

\* The counts are those of the events in the document.
Balanced(s) ==
    /\ s.pending = Cardinality(Changing(s.events, "initialize"))
                     - Cardinality(Changing(s.events, "incrementReady"))
    /\ s.ready = Cardinality(Changing(s.events, "incrementReady"))
                   - Cardinality(Changing(s.events, "decrementReady"))

\* Counting one more event keeps them so, where the first is a withdrawal.
LEMMA CountsOneMore ==
    ASSUME HandlingTypes, NEW r \in Ids, NEW change, Sways(r) = {change},
           change \in {"initialize", "incrementReady", "decrementReady"},
           NEW s \in [pending : Int, ready : Int, events : SUBSET Ids],
           Balanced(s), r \notin s.events, s.events = {} => change = "initialize"
    PROVE  /\ Counted(s, change, r) \in [pending : Int, ready : Int, events : SUBSET Ids]
           /\ Counted(s, change, r).events = s.events \cup {r}
           /\ Balanced(Counted(s, change, r))
<1> DEFINE t == Counted(s, change, r)
           Count(S, c) == Cardinality(Changing(S, c))
           T == s.events \cup {r}
<1>1. /\ s = [pending |-> s.pending, ready |-> s.ready, events |-> s.events]
      /\ s.pending \in Int /\ s.ready \in Int /\ s.events \subseteq Ids
  OBVIOUS
<1>2. \A c : /\ Count(s.events, c) \in Nat
             /\ c = change => Count(T, c) = Count(s.events, c) + 1
             /\ c # change => Count(T, c) = Count(s.events, c)
  <2> SUFFICES ASSUME NEW c
               PROVE  /\ Count(s.events, c) \in Nat
                      /\ c = change => Count(T, c) = Count(s.events, c) + 1
                      /\ c # change => Count(T, c) = Count(s.events, c)
    OBVIOUS
  <2>1. c \in Sways(r) <=> c = change
    OBVIOUS
  <2> QED
    BY <1>1, <2>1, CountOne
<1>3. /\ s.pending = Count(s.events, "initialize") - Count(s.events, "incrementReady")
      /\ s.ready = Count(s.events, "incrementReady") - Count(s.events, "decrementReady")
  BY DEF Balanced
<1> SUFFICES /\ t \in [pending : Int, ready : Int, events : SUBSET Ids] /\ t.events = T
             /\ t.pending = Count(T, "initialize") - Count(T, "incrementReady")
             /\ t.ready = Count(T, "incrementReady") - Count(T, "decrementReady")
  BY DEF Balanced
<1>4. CASE change = "initialize"
  <2>1. t = [pending |-> s.pending + 1, ready |-> s.ready, events |-> T]
    BY <1>1, <1>4 DEF Counted
  <2> HIDE DEF t, T, Count
  <2>2. t.pending = s.pending + 1 /\ t.ready = s.ready /\ t.events = T
    BY <2>1
  <2>3. t \in [pending : Int, ready : Int, events : SUBSET Ids]
    BY <1>1, <2>1 DEF T
  <2> QED
    BY <1>2, <1>3, <1>4, <2>2, <2>3
<1>5. CASE change = "incrementReady"
  <2>1. t = [pending |-> s.pending - 1, ready |-> s.ready + 1, events |-> T]
    BY <1>1, <1>5 DEF Counted
  <2> HIDE DEF t, T, Count
  <2>2. t.pending = s.pending - 1 /\ t.ready = s.ready + 1 /\ t.events = T
    BY <2>1
  <2>3. t \in [pending : Int, ready : Int, events : SUBSET Ids]
    BY <1>1, <2>1 DEF T
  <2> QED
    BY <1>2, <1>3, <1>5, <2>2, <2>3
<1>6. CASE change = "decrementReady"
  <2>1. t = [pending |-> s.pending, ready |-> s.ready - 1, events |-> T]
    BY <1>1, <1>6 DEF Counted
  <2> HIDE DEF t, T, Count
  <2>2. t.pending = s.pending /\ t.ready = s.ready - 1 /\ t.events = T
    BY <2>1
  <2>3. t \in [pending : Int, ready : Int, events : SUBSET Ids]
    BY <1>1, <2>1 DEF T
  <2> QED
    BY <1>2, <1>3, <1>6, <2>2, <2>3
<1> QED
  BY <1>4, <1>5, <1>6

LEMMA NextSway ==
    ASSUME WithdrawnFirst
    PROVE  SwayInv /\ [Next]_vars => SwayInv'
<1> SUFFICES ASSUME SwayInv, [Next]_vars PROVE SwayInv'
  OBVIOUS
<1>1. /\ InTurn /\ InTurn' /\ HandlingTypes /\ scenario' = scenario /\ Ids' = Ids
      /\ Entities' = Entities /\ scenario \in Scenarios
      /\ begun \subseteq begun' /\ handled \subseteq handled' /\ handled \subseteq begun
      /\ begun' \subseteq Ids /\ Ids \subseteq Nat /\ \A e : Sways(e)' = Sways(e)
      /\ \A S, c : Changing(S, c)' = Changing(S, c)
  BY NextInTurn, NextKeepsScenario, ScenarioKept, HistoryGrows, ScenarioFacts
     DEF SwayInv, InTurn, HandlingTypes, TypeOK, Sways, Changing
<1>2. DOMAIN sway' = Entities
  <2>1. CASE RunSway
    BY <2>1 DEF RunSway, SwayInv
  <2> QED
    BY <2>1, OnlySwaySways DEF SwayInv
<1>3. SUFFICES ASSUME InOrder(Ids)', Prefix', NEW x \in Entities PROVE SwayExact(x)'
  BY <1>1, <1>2 DEF SwayInv
<1>4. InOrder(Ids) /\ Prefix /\ SwayExact(x)
  BY <1>1, <1>3, PrefixBefore DEF SwayInv
<1>5. ASSUME NEW e \in begun', On(e) = x, Sways(e) # {}, Past(e, 1)',
             ~(RunSway /\ run.event = e)
      PROVE  e \in sway[x].events
  <2>1. e \in Ids /\ 1 \in DOMAIN Program(e) /\ Op(e, 1) = "sway"
    BY <1>1, <1>5, SwaysFirst
  <2>2. ~(RunHandler /\ run.event = e /\ run.pc = 1)
    BY <1>5, <2>1, SwayRuns
  <2>3. ~(run.pc \in 1..1) \/ run.pc = 1
    OBVIOUS
  <2>4. e \in begun /\ Past(e, 1)
    BY <1>1, <1>5, <2>1, <2>2, <2>3, PastBefore
  <2> QED
    BY <1>4, <1>5, <2>4 DEF SwayExact
<1>6. CASE RunSway
  <2> DEFINE r == run.event
  <2>1. /\ r \in begun /\ r \in Ids /\ run.pc \in DOMAIN Program(r)
        /\ UNCHANGED <<begun, handled>> /\ Op(r, run.pc) = "sway"
    BY <1>1, <1>6, HandlerMoves DEF RunHandler, RunSway, Running, Op
  <2>2. run.pc = 1 /\ Sways(r) # {}
    <3>1. /\ run.pc \in Places(scenario[r].type, Owning \cup {"cross", "sway"})
          /\ run.pc \in Places(scenario[r].type, Single)
      BY <2>1 DEF Places, Op, Program, Single
    <3>2. scenario[r].type \in DOMAIN Programs
      BY <1>1, <2>1, ProgramOf
    <3>3. \E name \in Program(r)[run.pc].on : TRUE
      BY <3>1, <3>2, ProgramForms DEF Program
    <3>4. run.pc = 1
      BY <3>1, <3>2, ProgramForms
    <3>5. Sways(r) # {}
      BY <2>1, <3>3 DEF Sways, Named, Op, Program
    <3> QED
      BY <3>4, <3>5
  <2>3. PICK change \in {"initialize", "incrementReady", "decrementReady"} :
          Program(r)[1].on = {change} /\ Sways(r) = {change}
    BY <1>1, <2>1, <2>2, SwaysFirst
  <2>4. sway' = [sway EXCEPT ![On(r)] = SwayAfter(@, change, r)]
    BY <1>6, <2>2, <2>3 DEF RunSway, Names
  <2>5. CASE On(r) # x
    <3>1. sway'[x] = sway[x]
      BY <2>4, <2>5
    <3>2. \A e \in begun' : On(e) = x /\ Sways(e) # {} /\ Past(e, 1)' => e \in sway[x].events
      BY <1>5, <2>5
    <3> QED
      BY <1>1, <1>4, <2>1, <3>1, <3>2, SaysTheSame DEF SwayExact
  <2>6. CASE On(r) = x
    <3> DEFINE s == sway[x]
    <3>1. sway'[x] = SwayAfter(s, change, r)
      BY <2>4, <2>6 DEF SwayInv
    <3>2. CASE r \in s.events
      <4>1. sway'[x] = s
        BY <3>1, <3>2 DEF SwayAfter
      <4>2. \A e \in begun' : On(e) = x /\ Sways(e) # {} /\ Past(e, 1)' => e \in s.events
        BY <1>5, <3>2
      <4> QED
        BY <1>1, <1>4, <2>1, <4>1, <4>2, SaysTheSame DEF SwayExact
    <3>3. CASE r \notin s.events
      <4>1. s.events = {} => change = "initialize"
        <5>1. SUFFICES ASSUME change # "initialize" PROVE s.events # {}
          OBVIOUS
        <5>2. PICK i \in 1..(r - 1) : /\ scenario[i].on = scenario[r].on
                                      /\ "initialize" \in Named(scenario[i].type, "sway")
          BY <1>1, <2>1, <2>3, <5>1 DEF WithdrawnFirst, Sways, Ids
        <5>3. i \in Ids /\ i < r
          <6>1. Ids = 1..Len(scenario) /\ Len(scenario) \in Nat
            BY <1>1, ScenarioAssumption DEF Ids
          <6> QED
            BY <2>1, <6>1
        <5>4. i \in begun
          BY <1>4, <2>1, <5>3 DEF Prefix
        <5>5. i \in handled
          <6>0. i \in Nat /\ run.event \in Nat
            BY <1>1, <2>1, <5>3
          <6>2. ~(run.event <= i)
            BY <5>3, <6>0
          <6>1. i \notin begun \ handled
            BY <1>1, <6>2 DEF InTurn
          <6> QED
            BY <5>4, <6>1
        <5>6. On(i) = x /\ Sways(i) # {}
          BY <2>6, <5>2 DEF On, Sways
        <5> QED
          BY <1>4, <5>4, <5>5, <5>6 DEF SwayExact, Past
      <4>2. s \in [pending : Int, ready : Int, events : SUBSET Ids] /\ Balanced(s)
        <5>1. s \in [pending : Int, ready : Int, events : SUBSET begun]
          BY <1>4 DEF SwayExact
        <5>2. begun \subseteq Ids
          BY <1>1
        <5> QED
          BY <1>4, <5>1, <5>2 DEF SwayExact, Balanced
      <4>3. sway'[x] = Counted(s, change, r)
        BY <3>1, <3>3 DEF SwayAfter
      <4>4. /\ sway'[x] \in [pending : Int, ready : Int, events : SUBSET Ids]
            /\ sway'[x].events = s.events \cup {r} /\ Balanced(sway'[x])
        <5> HIDE DEF s, r
        <5>1. HandlingTypes /\ r \in Ids /\ Sways(r) = {change}
          BY <1>1, <2>1, <2>3
        <5> QED
          BY <3>3, <4>1, <4>2, <4>3, <5>1, CountsOneMore
      <4>5. s.events \subseteq begun /\ \A e \in s.events : On(e) = x
        BY <1>4 DEF SwayExact
      <4>6. sway'[x] \in [pending : Int, ready : Int, events : SUBSET begun]
        <5>1. sway'[x].events \in SUBSET begun
          BY <2>1, <4>4, <4>5
        <5> QED
          BY <4>4, <5>1
      <4>7. \A e \in begun' : On(e) = x /\ Sways(e) # {} /\ Past(e, 1)' => e \in sway'[x].events
        BY <1>5, <4>4
      <4>8. \A e \in sway'[x].events : On(e) = x
        BY <2>6, <4>4, <4>5
      <4> QED
        BY <1>1, <2>1, <4>4, <4>6, <4>7, <4>8, SaysTheSame DEF SwayExact, Balanced
    <3> QED
      BY <3>2, <3>3
  <2> QED
    BY <2>5, <2>6
<1>7. CASE ~RunSway
  <2>1. sway' = sway
    BY <1>7, OnlySwaySways
  <2>2. \A e \in begun' : On(e) = x /\ Sways(e) # {} /\ Past(e, 1)' => e \in sway[x].events
    BY <1>5, <1>7
  <2>3. sway[x] \in [pending : Int, ready : Int, events : SUBSET begun']
    BY <1>1, <1>4 DEF SwayExact
  <2> QED
    BY <1>1, <1>4, <2>1, <2>2, <2>3, SaysTheSame DEF SwayExact
<1> QED
  BY <1>6, <1>7

\* Of all histories in which nothing is proven or consumed before a withdrawal of
\* the same amount to the same address: where all was handled in order, the
\* withdrawals shown as pending and ready are those initiated, proven and
\* consumed, however often the handlers crashed and were called again
\* (SwayCrossingService).
THEOREM SwayCountedHolds ==
    ASSUME WithdrawnFirst
    PROVE  Spec => []SwayCounted
<1>1. Init => SwayInv
  <2>1. SUFFICES ASSUME Init, NEW x \in Entities
                 PROVE  SwayExact(x) /\ InTurn /\ DOMAIN sway = Entities
    BY InitInTurn DEF SwayInv, Init
  <2>2. sway[x] = NoSway /\ begun = {} /\ DOMAIN sway = Entities
    BY <2>1 DEF Init
  <2>3. \A c : Cardinality(Changing({}, c)) = 0
    <3>1. \A c : Changing({}, c) = {}
      BY DEF Changing
    <3> QED
      BY <3>1, FS_EmptySet
  <2> QED
    BY <2>1, <2>2, <2>3, InitInTurn DEF SwayExact, NoSway
<1>2. SwayInv => SwayCounted
  <2>1. SUFFICES ASSUME SwayInv, Quiet, InOrder(Ids), handled = 1..Cardinality(handled),
                        NEW x \in Entities
                 PROVE  /\ sway[x].pending =
                             SwayEvents(x, "initialize") - SwayEvents(x, "incrementReady")
                        /\ sway[x].ready =
                             SwayEvents(x, "incrementReady") - SwayEvents(x, "decrementReady")
    BY DEF SwayCounted
  <2>2. handled = begun /\ begun \subseteq Ids /\ HandlingTypes
    BY <2>1 DEF SwayInv, InTurn, HandlingTypes, TypeOK, Quiet
  <2>3. Prefix
    <3>1. SUFFICES ASSUME NEW e \in begun, NEW d \in Ids, d < e PROVE d \in begun
      BY DEF Prefix
    <3>2. IsFiniteSet(handled)
      <4>1. Ids = 1..Len(scenario) /\ Len(scenario) \in Nat
        BY <2>2, ScenarioAssumption DEF HandlingTypes, TypeOK, Ids
      <4>2. IsFiniteSet(Ids)
        BY <4>1, FS_Interval
      <4>3. handled \subseteq Ids
        BY <2>2
      <4> QED
        BY <4>2, <4>3, FS_Subset
    <3>3. Cardinality(handled) \in Nat
      BY <3>2, FS_CardinalityType
    <3>4. d \in Nat /\ d # 0
      BY <2>2, ScenarioFacts DEF HandlingTypes, TypeOK
    <3>5. e \in 1..Cardinality(handled)
      BY <2>1, <2>2
    <3>6. d \in 1..Cardinality(handled)
      BY <3>1, <3>3, <3>4, <3>5
    <3> QED
      BY <2>1, <2>2, <3>6
  <2>4. SwayExact(x)
    BY <2>1, <2>3 DEF SwayInv
  <2>5. \A c : SwayEvents(x, c) = Cardinality(Changing(sway[x].events, c))
    <3> SUFFICES ASSUME NEW c PROVE SwayEvents(x, c) = Cardinality(Changing(sway[x].events, c))
      OBVIOUS
    <3>1. {e \in handled : On(e) = x /\ c \in Named(scenario[e].type, "sway")}
            = Changing(sway[x].events, c)
      <4>1. sway[x].events \subseteq begun
        BY <2>4 DEF SwayExact
      <4> QED
        BY <2>2, <2>4, <4>1 DEF SwayExact, Changing, Sways, Past
    <3> QED
      BY <3>1 DEF SwayEvents
  <2> QED
    BY <2>4, <2>5 DEF SwayExact
<1>3. SwayInv /\ [Next]_vars => SwayInv'
  BY NextSway
<1> QED
  BY <1>1, <1>2, <1>3, PTL DEF Spec

(***************************************************************************)
(* The search index.                                                       *)
(***************************************************************************)
\* The processor is past its stamp only when the event is stamped.
Stamped == run.event # 0 /\ run.pc = End(run.event) + 1 => run.event \in handled

Indexes(e, role) == role \in Named(scenario[e].type, "index")
QueuesAt(e, i, role) == Op(e, i) = "index" /\ role \in Program(e)[i].on

\* The handler of e has queued the document in this role, this time.
Queued(e, role) == \E i \in DOMAIN Program(e) : QueuesAt(e, i, role) /\ Past(e, i)

\* Items are of events that queued them; those of this life of the processes are
\* of handlers that will not queue them again.
ItemsInv ==
    \A item \in queue \cup indexer.batch :
      \E e \in begun : \E role, try :
        /\ Indexes(e, role) /\ try \in 0..crashes
        /\ item = [doc |-> <<role, On(e)>>, event |-> e, try |-> try]
        /\ try = crashes => Queued(e, role)

\* What the indexer holds is in the queue, and it writes only what it formatted.
IndexerInv ==
    /\ indexer = [pc |-> indexer.pc, batch |-> indexer.batch, left |-> indexer.left,
                  docs |-> indexer.docs]
    /\ indexer.pc \in {"idle", "format", "bulk", "delete"}
    /\ indexer.left \subseteq indexer.batch /\ indexer.batch \subseteq queue
    /\ indexer.pc = "idle" <=> indexer.batch = {}
    /\ indexer.pc = "format" => indexer.left # {}
    /\ DOMAIN search = Documents
    /\ indexer.pc \in {"format", "bulk"} =>
         /\ DOMAIN indexer.docs = Documents
         /\ \A d \in Documents :
              (\A item \in indexer.batch : item.doc # d) => indexer.docs[d] = search[d]

\* The document as it is or is about to be written, and whether it will be
\* formatted again.
Latest(d) == IF indexer.pc \in {"format", "bulk"} THEN indexer.docs[d] ELSE search[d]
Covered(d) ==
    \/ \E item \in queue \ indexer.batch : item.doc = d
    \/ indexer.pc = "format" /\ \E item \in indexer.left : item.doc = d

\* A handler that was begun has yet to queue the document.
Coming(e, role) == e \in begun \ handled /\ ~Queued(e, role)

\* It wrote the component, or removes it: the change is the reason to queue it.
WritesOwners(e) == Places(scenario[e].type, Owning) # {}
Wrote(e) == e \in saved \/ "clears" \in scenario[e].flags

\* Every event that was begun and writes the component queues the document.
AllQueue(k, role) ==
    \A y \in begun : k[1] \in SavedBy(y) /\ On(y) = k[2] => Indexes(y, role)
AllOwnersQueue(x, role) == \A y \in begun : On(y) = x /\ WritesOwners(y) => Indexes(y, role)
NoneSkipped(x) == \A y \in skipped : On(y) # x

ComponentsFresh ==
    \A k \in Keys : \A role :
      <<role, k[2]>> \in Documents /\ NoneSkipped(k[2]) /\ AllQueue(k, role) =>
        \/ Covered(<<role, k[2]>>)
        \/ \E y \in begun : k[1] \in SavedBy(y) /\ On(y) = k[2] /\ Wrote(y) /\ Coming(y, role)
        \/ Latest(<<role, k[2]>>).comps[k] = comps[k]

OwnersFresh ==
    \A x \in Entities : \A role :
      <<role, x>> \in Documents /\ NoneSkipped(x) /\ AllOwnersQueue(x, role) =>
        \/ Covered(<<role, x>>)
        \/ \E y \in begun : On(y) = x /\ WritesOwners(y) /\ Coming(y, role)
        \/ Latest(<<role, x>>).owners = owners[x]

SearchInv ==
    FollowUpInv /\ Stamped /\ ItemsInv /\ IndexerInv /\ ComponentsFresh /\ OwnersFresh

\* The steps, as far as the index and the lives of the processes matter.
LEMMA QueueSteps ==
    ASSUME [Next]_vars
    PROVE  \/ Indexing \/ IndexerCrash
           \/ /\ UNCHANGED indexVars
              /\ RunIndex \/ queue' = queue
              /\ \/ crashes' = crashes
                 \/ Crash
<1> USE DEF indexVars, progressVars, inputVars
<1>1. CASE Arrival
  BY <1>1 DEF Arrival, Arrive
<1>2. CASE RunHandler /\ ~RunIndex
  BY <1>2 DEF RunHandler, RunStatus, RunEnsure, RunIfCreated, RunResolve, RunReassign,
     RunSave, RunReplace, RunRemove, RunIfUpdated, RunOwn, RunSway, RunCrossing,
     RunFollowUp, RunTell
<1>3. CASE RunIndex
  BY <1>3 DEF RunIndex
<1>4. CASE Begin \/ Finalize \/ Emit \/ Crash
  BY <1>4 DEF Begin, Finalize, Emit, Crash
<1>5. CASE UNCHANGED vars
  BY <1>5 DEF vars
<1> QED
  BY <1>1, <1>2, <1>3, <1>4, <1>5 DEF Next, Process

\* The processor in the steps of the indexer.
LEMMA IndexerSteps ==
    ASSUME Indexing \/ IndexerCrash
    PROVE  /\ UNCHANGED <<inputVars, handled, skipped, told, run, activityVars,
                          componentVars, bridgeVars, effects>>
           /\ crashes' = crashes \/ (IndexerCrash /\ crashes' = crashes + 1)
           /\ queue' \cup indexer'.batch \subseteq queue \cup indexer.batch
<1> USE DEF progressVars, IndexerIdle
<1>1. CASE IndexerFetch
  BY <1>1 DEF IndexerFetch
<1>2. CASE IndexerFormat
  <2>1. indexer'.batch = indexer.batch
    BY <1>2 DEF IndexerFormat
  <2> QED
    BY <1>2, <2>1 DEF IndexerFormat
<1>3. CASE IndexerBulk
  BY <1>3 DEF IndexerBulk
<1>4. CASE IndexerDelete
  BY <1>4 DEF IndexerDelete, Remaining
<1>5. CASE IndexerCrash
  BY <1>5 DEF IndexerCrash
<1> QED
  BY <1>1, <1>2, <1>3, <1>4, <1>5 DEF Indexing

LEMMA CrashesCounted == HandlingTypes => crashes \in Nat
  BY CrashAssumption DEF HandlingTypes, TypeOK

LEMMA NextStamped ==
    ASSUME InTurn, Stamped, [Next]_vars
    PROVE  Stamped'
<1>1. /\ HandlingTypes /\ InTurn' /\ scenario' = scenario /\ \A e : End(e)' = End(e)
  BY NextInTurn, NextKeepsScenario, ProgramKept DEF InTurn
<1>2. CASE Begin
  <2>1. PICK e \in Backlog : run' = [Idle EXCEPT !.event = e]
    BY <1>2 DEF Begin
  <2>2. e \in Ids
    BY <1>1, <2>1 DEF Backlog, HandlingTypes, TypeOK
  <2>3. run'.event = e /\ run'.pc = 1
    BY <2>1 DEF Idle
  <2>4. End(e) \in Nat /\ End(e) >= 1
    BY <1>1, <2>2, ProgramOf DEF End
  <2> QED
    BY <1>1, <2>3, <2>4 DEF Stamped
<1>3. CASE RunHandler
  <2>1. /\ run.event \in Ids /\ run.pc \in DOMAIN Program(run.event)
        /\ run'.event = run.event /\ run'.pc \in {run.pc + 1, End(run.event)}
    BY <1>1, <1>3, HandlerMoves
  <2>2. DOMAIN Program(run.event) = 1..Len(Program(run.event)) /\ Len(Program(run.event)) \in Nat
    BY <1>1, <2>1, ProgramOf
  <2>3. End(run.event) \in Nat /\ run.pc \in Nat /\ run.pc < End(run.event)
    BY <2>1, <2>2 DEF End
  <2>4. run.pc + 1 # End(run.event) + 1 /\ End(run.event) # End(run.event) + 1
    BY <2>3
  <2> QED
    BY <1>1, <2>1, <2>4 DEF Stamped
<1>4. CASE Finalize
  <2>1. run'.event = run.event /\ handled' = handled \cup {run.event}
    BY <1>1, <1>4, RunStays DEF Finalize, Stays, HandlingTypes
  <2> QED
    BY <2>1 DEF Stamped
<1>5. CASE Rests /\ run' = Idle
  BY <1>5 DEF Stamped, Idle
<1>6. CASE Rests /\ run' = run
  BY <1>1, <1>6 DEF Stamped, Rests
<1> QED
  BY <1>2, <1>3, <1>4, <1>5, <1>6, OtherSteps

\* What a handler has passed stays behind it until it crashes.
LEMMA PastKept ==
    ASSUME InTurn, Stamped, [Next]_vars, crashes' = crashes,
           NEW e \in Ids, NEW i \in DOMAIN Program(e), Past(e, i)
    PROVE  Past(e, i)'
<1>1. /\ HandlingTypes /\ handled \subseteq handled' /\ e # 0 /\ crashes \in Nat
      /\ i \in Nat /\ 1 <= i /\ i < End(e)
  <2>1. DOMAIN Program(e) = 1..Len(Program(e)) /\ Len(Program(e)) \in Nat
    BY ProgramOf DEF InTurn
  <2>2. HandlingTypes /\ crashes \in Nat /\ handled \subseteq handled'
    BY CrashesCounted, HistoryGrows DEF InTurn
  <2>3. e # 0
    BY <2>2, ScenarioFacts DEF HandlingTypes, TypeOK
  <2>4. i \in Nat /\ 1 <= i /\ i < End(e)
    BY <2>1 DEF End
  <2> QED
    BY <2>2, <2>3, <2>4
<1>2. SUFFICES ASSUME e \notin handled' PROVE run'.event = e /\ run'.pc > i
  BY DEF Past
<1>3. run.event = e /\ run.pc > i
  BY <1>1, <1>2 DEF Past
<1>4. CASE Begin
  BY <1>1, <1>3, <1>4 DEF Begin
<1>5. CASE RunHandler
  <2>1. /\ run.pc \in DOMAIN Program(e)
        /\ run'.event = e /\ run'.pc \in {run.pc + 1, End(e)}
    BY <1>1, <1>3, <1>5, HandlerMoves
  <2>3. run.pc \in Nat
    <3>1. DOMAIN Program(e) = 1..Len(Program(e))
      BY <1>1, ProgramOf
    <3> QED
      BY <2>1, <3>1
  <2>4. End(e) \in Nat
    BY <1>1, ProgramOf DEF End
  <2>5. run.pc + 1 > i /\ End(e) > i
    BY <1>1, <1>3, <2>3, <2>4
  <2> QED
    BY <2>1, <2>5
<1>6. CASE Finalize
  BY <1>2, <1>3, <1>6 DEF Finalize
<1>7. CASE Emit
  BY <1>1, <1>2, <1>3, <1>7 DEF Emit, Stamped, Return, End
<1>8. CASE Crash
  BY <1>1, <1>8 DEF Crash
<1>9. CASE Arrival
  BY <1>3, <1>9 DEF Arrival, Arrive
<1>10. CASE Indexing \/ IndexerCrash
  BY <1>3, <1>10, IndexerSteps
<1>11. CASE UNCHANGED vars
  BY <1>3, <1>11 DEF vars
<1> QED
  BY <1>4, <1>5, <1>6, <1>7, <1>8, <1>9, <1>10, <1>11 DEF Next, Process

LEMMA QueuedKept ==
    ASSUME InTurn, Stamped, [Next]_vars, crashes' = crashes,
           NEW e \in Ids, NEW role, Queued(e, role)
    PROVE  Queued(e, role)'
<1>1. PICK i \in DOMAIN Program(e) : QueuesAt(e, i, role) /\ Past(e, i)
  BY DEF Queued
<1>2. Past(e, i)'
  BY <1>1, PastKept
<1>3. Program(e)' = Program(e)
  BY NextKeepsScenario, ProgramKept
<1> QED
  BY <1>1, <1>2, <1>3 DEF Queued, QueuesAt, Op

LEMMA NextItems ==
    ASSUME InTurn, Stamped, ItemsInv, [Next]_vars
    PROVE  ItemsInv'
<1>1. /\ HandlingTypes /\ scenario' = scenario /\ begun \subseteq begun' /\ begun \subseteq Ids
      /\ \A e : On(e)' = On(e) /\ Program(e)' = Program(e)
      /\ crashes \in Nat
  <2>1. HandlingTypes /\ scenario' = scenario /\ begun \subseteq begun' /\ begun \subseteq Ids
    BY NextKeepsScenario, HistoryGrows DEF InTurn, HandlingTypes, TypeOK
  <2> QED
    BY <2>1, SaysTheSame, CrashesCounted
<1>2. crashes' = crashes \/ crashes' = crashes + 1
  BY QueueSteps, IndexerSteps DEF Crash
<1>3. ASSUME NEW item \in queue \cup indexer.batch
      PROVE  \E e \in begun' : \E role, try :
               /\ Indexes(e, role)' /\ try \in 0..crashes'
               /\ item = [doc |-> <<role, On(e)'>>, event |-> e, try |-> try]
               /\ try = crashes' => Queued(e, role)'
  <2>1. PICK e \in begun : \E role, try :
          /\ Indexes(e, role) /\ try \in 0..crashes
          /\ item = [doc |-> <<role, On(e)>>, event |-> e, try |-> try]
          /\ try = crashes => Queued(e, role)
    BY DEF ItemsInv
  <2>2. PICK role, try :
          /\ Indexes(e, role) /\ try \in 0..crashes
          /\ item = [doc |-> <<role, On(e)>>, event |-> e, try |-> try]
          /\ try = crashes => Queued(e, role)
    BY <2>1
  <2>3. try \in 0..crashes' /\ (try = crashes' => crashes' = crashes)
    BY <1>1, <1>2, <2>2
  <2>4. try = crashes' => Queued(e, role)'
    BY <1>1, <2>2, <2>3, QueuedKept
  <2>5. Indexes(e, role)'
    BY <1>1, <2>2 DEF Indexes
  <2> QED
    BY <1>1, <2>2, <2>3, <2>4, <2>5
<1>4. CASE RunIndex
  <2>0. PICK r, i : r = run.event /\ i = run.pc
    OBVIOUS
  <2>1. RunHandler /\ r \in begun /\ r \in Ids /\ i \in DOMAIN Program(r)
    BY <1>1, <1>4, <2>0, HandlerMoves DEF RunHandler
  <2>2. /\ Op(r, i) = "index" /\ crashes' = crashes /\ indexer' = indexer
        /\ queue' = queue \cup {Item(role, r) : role \in Program(r)[i].on}
        /\ run' = Onward(run)
    BY <1>4, <2>0 DEF RunIndex, Running, Op, Names, progressVars, indexVars
  <2>3. run'.event = r /\ run'.pc = i + 1
    BY <1>1, <2>0, <2>2, RunStays, RunFields DEF Stays, HandlingTypes
  <2>4. i \in Nat
    <3>1. DOMAIN Program(r) = 1..Len(Program(r))
      BY <1>1, <2>1, ProgramOf
    <3> QED
      BY <2>1, <3>1
  <2>5. Past(r, i)'
    <3>1. i + 1 > i
      BY <2>4
    <3> QED
      BY <2>3, <3>1 DEF Past
  <2> SUFFICES ASSUME NEW role \in Program(r)[i].on
        PROVE  \E e \in begun' : \E p, try :
                 /\ Indexes(e, p)' /\ try \in 0..crashes'
                 /\ Item(role, r) = [doc |-> <<p, On(e)'>>, event |-> e, try |-> try]
                 /\ try = crashes' => Queued(e, p)'
    BY <1>3, <2>2 DEF ItemsInv
  <2>6. Indexes(r, role)'
    BY <1>1, <2>1, <2>2 DEF Indexes, Named, Op, Program
  <2>7. Queued(r, role)'
    BY <1>1, <2>1, <2>2, <2>5 DEF Queued, QueuesAt, Op
  <2>8. Item(role, r) = [doc |-> <<role, On(r)'>>, event |-> r, try |-> crashes]
    BY <1>1 DEF Item
  <2>9. crashes \in 0..crashes'
    BY <1>1, <2>2
  <2> QED
    BY <1>1, <2>1, <2>2, <2>6, <2>7, <2>8, <2>9
<1>5. CASE ~RunIndex
  <2>1. queue' \cup indexer'.batch \subseteq queue \cup indexer.batch
    BY <1>5, QueueSteps, IndexerSteps DEF indexVars
  <2> QED
    BY <1>3, <2>1 DEF ItemsInv
<1> QED
  BY <1>4, <1>5

LEMMA ItemDocuments ==
    ASSUME HandlingTypes, ItemsInv
    PROVE  \A item \in queue \cup indexer.batch : item.doc \in Documents
<1> SUFFICES ASSUME NEW item \in queue \cup indexer.batch PROVE item.doc \in Documents
  OBVIOUS
<1>1. PICK e \in begun : \E role, try :
        Indexes(e, role) /\ item = [doc |-> <<role, On(e)>>, event |-> e, try |-> try]
  BY DEF ItemsInv
<1>2. PICK role : Indexes(e, role) /\ item.doc = <<role, On(e)>>
  BY <1>1
<1>3. e \in Ids
  BY DEF HandlingTypes, TypeOK
<1> QED
  BY <1>2, <1>3 DEF Documents, Indexes

LEMMA DocumentsKept ==
    ASSUME scenario' = scenario
    PROVE  Documents' = Documents
  BY DEF Documents, On, Ids

\* The parts of a record that is formed so.
LEMMA IndexerParts ==
    ASSUME NEW pc, NEW batch, NEW left, NEW docs,
           indexer' = [pc |-> pc, batch |-> batch, left |-> left, docs |-> docs]
    PROVE  /\ indexer'.pc = pc /\ indexer'.batch = batch /\ indexer'.left = left
           /\ indexer'.docs = docs
           /\ indexer' = [pc |-> indexer'.pc, batch |-> indexer'.batch, left |-> indexer'.left,
                          docs |-> indexer'.docs]
  OBVIOUS

\* Formatting one document, as a step of these parts.
LEMMA FormatParts ==
    ASSUME IndexerInv, IndexerFormat
    PROVE  \E item \in indexer.left :
             /\ indexer.pc = "format" /\ search' = search /\ queue' = queue
             /\ UNCHANGED <<comps, owners>>
             /\ indexer' = [pc |-> IF indexer.left = {item} THEN "bulk" ELSE "format",
                            batch |-> indexer.batch, left |-> indexer.left \ {item},
                            docs |-> [indexer.docs EXCEPT ![item.doc] = Shown(item.doc[2])]]
<1>1. indexer.pc = "format" /\ indexer.left # {}
  BY DEF IndexerFormat, IndexerInv
<1> DEFINE item == CHOOSE i \in indexer.left : TRUE
<1>2. item \in indexer.left
  BY <1>1
<1>3. /\ indexer' = [indexer EXCEPT !.pc = IF indexer.left = {item} THEN "bulk" ELSE "format",
                                    !.left = @ \ {item},
                                    !.docs[item.doc] = Shown(item.doc[2])]
      /\ search' = search /\ queue' = queue /\ UNCHANGED <<comps, owners>>
  BY DEF IndexerFormat, componentVars, bridgeVars
<1>4. indexer = [pc |-> indexer.pc, batch |-> indexer.batch, left |-> indexer.left,
                 docs |-> indexer.docs]
  BY DEF IndexerInv
<1> HIDE DEF item
<1>5. indexer' = [pc |-> IF indexer.left = {item} THEN "bulk" ELSE "format",
                  batch |-> indexer.batch, left |-> indexer.left \ {item},
                  docs |-> [indexer.docs EXCEPT ![item.doc] = Shown(item.doc[2])]]
  BY <1>3, <1>4
<1> QED
  BY <1>1, <1>2, <1>3, <1>5

LEMMA NextIndexer ==
    ASSUME HandlingTypes, ItemsInv, IndexerInv, [Next]_vars
    PROVE  IndexerInv'
<1>1. Documents' = Documents
  BY NextKeepsScenario, DocumentsKept
<1> USE <1>1
<1>2. CASE IndexerFetch
  <2>1. /\ indexer' = [pc |-> "format", batch |-> queue, left |-> queue, docs |-> search]
        /\ queue # {} /\ queue' = queue /\ search' = search
    BY <1>2 DEF IndexerFetch
  <2>2. /\ indexer'.pc = "format" /\ indexer'.batch = queue /\ indexer'.left = queue
        /\ indexer'.docs = search
        /\ indexer' = [pc |-> indexer'.pc, batch |-> indexer'.batch, left |-> indexer'.left,
                       docs |-> indexer'.docs]
    BY <2>1, IndexerParts
  <2> QED
    BY <2>1, <2>2 DEF IndexerInv
<1>3. CASE IndexerFormat
  <2>1. PICK item \in indexer.left :
          /\ indexer.pc = "format" /\ search' = search /\ queue' = queue
          /\ indexer' = [pc |-> IF indexer.left = {item} THEN "bulk" ELSE "format",
                         batch |-> indexer.batch, left |-> indexer.left \ {item},
                         docs |-> [indexer.docs EXCEPT ![item.doc] = Shown(item.doc[2])]]
    BY <1>3, FormatParts
  <2>2. /\ indexer'.pc = (IF indexer.left = {item} THEN "bulk" ELSE "format")
        /\ indexer'.batch = indexer.batch /\ indexer'.left = indexer.left \ {item}
        /\ indexer'.docs = [indexer.docs EXCEPT ![item.doc] = Shown(item.doc[2])]
        /\ indexer' = [pc |-> indexer'.pc, batch |-> indexer'.batch, left |-> indexer'.left,
                       docs |-> indexer'.docs]
    BY <2>1, IndexerParts
  <2>3. item \in indexer.batch
    BY <2>1 DEF IndexerInv
  <2>4. \A d \in Documents : (\A i \in indexer.batch : i.doc # d) => indexer'.docs[d] = search[d]
    BY <2>1, <2>2, <2>3 DEF IndexerInv
  <2>5. DOMAIN indexer'.docs = Documents
    BY <2>1, <2>2 DEF IndexerInv
  <2> QED
    BY <2>1, <2>2, <2>3, <2>4, <2>5 DEF IndexerInv
<1>4. CASE IndexerBulk
  <2>1. /\ indexer' = [indexer EXCEPT !.pc = "delete"] /\ indexer.pc = "bulk"
        /\ search' = indexer.docs /\ queue' = queue
    BY <1>4 DEF IndexerBulk
  <2>2. indexer' = [pc |-> "delete", batch |-> indexer.batch, left |-> indexer.left,
                    docs |-> indexer.docs]
    BY <2>1 DEF IndexerInv
  <2>3. /\ indexer'.pc = "delete" /\ indexer'.batch = indexer.batch
        /\ indexer'.left = indexer.left /\ indexer'.docs = indexer.docs
        /\ indexer' = [pc |-> indexer'.pc, batch |-> indexer'.batch, left |-> indexer'.left,
                       docs |-> indexer'.docs]
    BY <2>2, IndexerParts
  <2> QED
    BY <2>1, <2>3 DEF IndexerInv
<1>5. CASE IndexerDelete \/ IndexerCrash
  <2>1. indexer' = IndexerIdle /\ search' = search
    BY <1>5 DEF IndexerDelete, IndexerCrash
  <2>2. /\ indexer'.pc = "idle" /\ indexer'.batch = {} /\ indexer'.left = {}
        /\ indexer' = [pc |-> indexer'.pc, batch |-> indexer'.batch, left |-> indexer'.left,
                       docs |-> indexer'.docs]
    BY <2>1, IndexerParts DEF IndexerIdle
  <2> QED
    BY <2>1, <2>2 DEF IndexerInv
<1>6. CASE ~(Indexing \/ IndexerCrash)
  <2>1. indexer' = indexer /\ search' = search /\ queue \subseteq queue'
    BY <1>6, QueueSteps DEF indexVars, RunIndex
  <2> QED
    BY <2>1 DEF IndexerInv
<1> QED
  BY <1>2, <1>3, <1>4, <1>5, <1>6 DEF Indexing

\* A step leaves a document to be formatted, or formats it as things are, or
\* leaves it alone where nothing was to be done.
LEMMA NextCovered ==
    ASSUME HandlingTypes, ItemsInv, IndexerInv, [Next]_vars, NEW d \in Documents
    PROVE  \/ Covered(d)'
           \/ Latest(d)' = Shown(d[2]) /\ UNCHANGED <<comps, owners>>
           \/ ~Covered(d) /\ Latest(d)' = Latest(d)
<1>1. CASE IndexerFetch
  <2>1. /\ indexer' = [pc |-> "format", batch |-> queue, left |-> queue, docs |-> search]
        /\ indexer.pc = "idle" /\ queue' = queue /\ search' = search
    BY <1>1 DEF IndexerFetch
  <2>2. /\ indexer'.pc = "format" /\ indexer'.batch = queue /\ indexer'.left = queue
        /\ indexer'.docs = search
    BY <2>1
  <2> QED
    BY <2>1, <2>2 DEF Covered, Latest
<1>2. CASE IndexerFormat
  <2>1. PICK item \in indexer.left :
          /\ indexer.pc = "format" /\ search' = search /\ queue' = queue
          /\ UNCHANGED <<comps, owners>>
          /\ indexer' = [pc |-> IF indexer.left = {item} THEN "bulk" ELSE "format",
                         batch |-> indexer.batch, left |-> indexer.left \ {item},
                         docs |-> [indexer.docs EXCEPT ![item.doc] = Shown(item.doc[2])]]
    BY <1>2, FormatParts
  <2>2. /\ indexer'.pc = (IF indexer.left = {item} THEN "bulk" ELSE "format")
        /\ indexer'.batch = indexer.batch /\ indexer'.left = indexer.left \ {item}
        /\ indexer'.docs = [indexer.docs EXCEPT ![item.doc] = Shown(item.doc[2])]
    BY <2>1
  <2>3. DOMAIN indexer.docs = Documents
    BY <2>1 DEF IndexerInv
  <2>4. CASE item.doc = d
    BY <2>1, <2>2, <2>3, <2>4 DEF Latest
  <2>5. CASE item.doc # d
    <3>1. Latest(d)' = Latest(d)
      BY <2>1, <2>2, <2>3, <2>5 DEF Latest
    <3>2. Covered(d) => Covered(d)'
      BY <2>1, <2>2, <2>5 DEF Covered
    <3> QED
      BY <3>1, <3>2
  <2> QED
    BY <2>4, <2>5
<1>3. CASE IndexerBulk
  <2>1. /\ indexer' = [indexer EXCEPT !.pc = "delete"] /\ indexer.pc = "bulk"
        /\ search' = indexer.docs /\ queue' = queue
    BY <1>3 DEF IndexerBulk
  <2>2. indexer' = [pc |-> "delete", batch |-> indexer.batch, left |-> indexer.left,
                    docs |-> indexer.docs]
    BY <2>1 DEF IndexerInv
  <2>3. /\ indexer'.pc = "delete" /\ indexer'.batch = indexer.batch
    BY <2>2
  <2> QED
    BY <2>1, <2>3 DEF Covered, Latest
<1>4. CASE IndexerDelete
  <2>1. /\ indexer' = IndexerIdle /\ search' = search /\ indexer.pc = "delete"
        /\ queue' = queue \ indexer.batch
    BY <1>4 DEF IndexerDelete, Remaining
  <2>2. indexer'.pc = "idle" /\ indexer'.batch = {}
    BY <2>1 DEF IndexerIdle
  <2> QED
    BY <2>1, <2>2 DEF Covered, Latest
<1>5. CASE IndexerCrash
  <2>1. indexer' = IndexerIdle /\ search' = search /\ queue' = queue
    BY <1>5 DEF IndexerCrash
  <2>2. indexer'.pc = "idle" /\ indexer'.batch = {}
    BY <2>1 DEF IndexerIdle
  <2>3. CASE \E item \in queue : item.doc = d
    BY <2>1, <2>2, <2>3 DEF Covered
  <2>4. CASE \A item \in queue : item.doc # d
    <3>1. ~Covered(d)
      BY <2>4 DEF Covered, IndexerInv
    <3>2. Latest(d) = search[d]
      BY <2>4 DEF Latest, IndexerInv
    <3>3. Latest(d)' = search[d]
      BY <2>1, <2>2 DEF Latest
    <3> QED
      BY <3>1, <3>2, <3>3
  <2> QED
    BY <2>3, <2>4
<1>6. CASE ~(Indexing \/ IndexerCrash)
  <2>1. indexer' = indexer /\ search' = search /\ queue \subseteq queue'
    BY <1>6, QueueSteps DEF indexVars, RunIndex
  <2> QED
    BY <2>1 DEF Covered, Latest
<1> QED
  BY <1>1, <1>2, <1>3, <1>4, <1>5, <1>6 DEF Indexing

\* A handler on its way to queue a document for a change it made does queue it.
LEMMA ComingKept ==
    ASSUME InTurn, RefusedInv, ItemsInv, [Next]_vars,
           NEW y \in begun, NEW role, Coming(y, role), Indexes(y, role), y \notin skipped',
           Wrote(y) \/ WritesOwners(y), NEW d, d = <<role, On(y)>>
    PROVE  Coming(y, role)' \/ Covered(d)'
<1>1. /\ HandlingTypes /\ InTurn' /\ scenario' = scenario /\ y \in Ids /\ begun \subseteq begun'
      /\ scenario[y].type \in DOMAIN Programs /\ DOMAIN Program(y) = 1..Len(Program(y))
      /\ Len(Program(y)) \in Nat /\ y \notin handled
  <2>1. HandlingTypes /\ y \in Ids
    BY DEF InTurn, HandlingTypes, TypeOK
  <2> QED
    BY <2>1, NextInTurn, NextKeepsScenario, HistoryGrows, ProgramOf DEF Coming
<1>2. Program(y)' = Program(y)
  BY <1>1, ProgramKept
<1>3. SUFFICES ASSUME ~Coming(y, role)' PROVE Covered(d)'
  OBVIOUS
<1>4. PICK i \in DOMAIN Program(y) : QueuesAt(y, i, role) /\ Past(y, i)'
  <2>1. CASE Queued(y, role)'
    BY <1>2, <2>1 DEF Queued, QueuesAt, Op
  <2>2. CASE y \in handled'
    <3>1. \E i \in DOMAIN Program(y) : QueuesAt(y, i, role)
      BY <1>1, NamedAt DEF Indexes, QueuesAt
    <3> QED
      BY <2>2, <3>1 DEF Past
  <2> QED
    BY <1>1, <1>3, <2>1, <2>2 DEF Coming
<1>5. ~Past(y, i)
  BY <1>4 DEF Coming, Queued
<1>6. RunHandler /\ run.event = y /\ run.pc \in 1..i /\ (run.pc = i \/ Leaves(y))
  BY <1>1, <1>4, <1>5, PastBefore
<1>7. ~Leaves(y)
  <2>1. SUFFICES ASSUME Leaves(y) PROVE FALSE
    OBVIOUS
  <2>2. Op(y, run.pc) = "ifUpdated" /\ ~run.updated /\ "clears" \notin scenario[y].flags
    BY <2>1 DEF Leaves
  <2>3. run.pc \in DOMAIN Program(y)
    BY <1>1, <1>6, HandlerMoves
  <2>4. Guarded(y)
    BY <2>2, <2>3 DEF Guarded, Places, Op, Program
  <2>5. run.pc = 2 /\ Op(y, 1) \in Saving
    BY <1>1, <2>2, <2>3, <2>4, GuardedForm
  <2>6. y \notin saved
    BY <1>1, <1>6, <2>2, <2>4, <2>5, ScenarioFacts DEF RefusedInv, HandlingTypes, TypeOK
  <2>7. ~WritesOwners(y)
    <3>1. SUFFICES ASSUME NEW j \in Places(scenario[y].type, Owning) PROVE FALSE
      BY DEF WritesOwners
    <3>2. j \in Places(scenario[y].type, Owning \cup {"cross", "sway"})
      BY DEF Places
    <3>3. j = 1
      BY <1>1, <3>2, ProgramForms
    <3> QED
      BY <2>5, <3>3 DEF Places, Op, Program, Owning, Saving
  <2> QED
    BY <2>2, <2>6, <2>7 DEF Wrote
<1>8. RunIndex
  BY <1>4, <1>6, <1>7 DEF RunHandler, RunStatus, RunEnsure, RunIfCreated, RunResolve,
     RunReassign, RunSave, RunReplace, RunRemove, RunIfUpdated, RunOwn, RunSway,
     RunCrossing, RunFollowUp, RunTell, RunIndex, Running, QueuesAt, Op, FollowUps
<1>9. /\ queue' = queue \cup {Item(p, y) : p \in Program(y)[i].on} /\ indexer' = indexer
  BY <1>6, <1>7, <1>8 DEF RunIndex, Names, indexVars
<1>10. Item(role, y) \in queue' /\ Item(role, y).doc = d
  BY <1>4, <1>9 DEF QueuesAt, Item
<1>11. Item(role, y) \notin indexer'.batch
  <2>1. SUFFICES ASSUME Item(role, y) \in indexer.batch PROVE FALSE
    BY <1>9
  <2>2. PICK e \in begun : \E p, try :
          /\ Item(role, y) = [doc |-> <<p, On(e)>>, event |-> e, try |-> try]
          /\ try = crashes => Queued(e, p)
    BY <2>1 DEF ItemsInv
  <2>3. PICK p, try :
          /\ Item(role, y) = [doc |-> <<p, On(e)>>, event |-> e, try |-> try]
          /\ try = crashes => Queued(e, p)
    BY <2>2
  <2>4. e = y /\ p = role /\ try = crashes
    BY <2>3 DEF Item
  <2> QED
    BY <2>3, <2>4 DEF Coming
<1> DEFINE item == Item(role, y)
<1>12. \E x \in queue' \ indexer'.batch : x.doc = d
  BY <1>10, <1>11
<1> QED
  BY <1>12 DEF Covered

\* What is shown changes before the handler queues it.
LEMMA ChangesThenQueues ==
    ASSUME InTurn, [Next]_vars, RunHandler, NEW r, NEW i, r = run.event, i = run.pc,
           Op(r, i) \in Saving \cup Owning, NEW role
    PROVE  /\ r \in begun /\ r \in Ids /\ i \in DOMAIN Program(r)
           /\ Coming(r, role)'
<1>1. /\ HandlingTypes /\ scenario' = scenario
      /\ r \in begun /\ r \in Ids /\ r # 0 /\ i \in DOMAIN Program(r)
      /\ begun' = begun /\ handled' = handled
  BY HandlerMoves, NextKeepsScenario DEF InTurn
<1>2. run'.event = r /\ run'.pc = i + 1
  <2>1. Op(r, i) \notin {"ifCreated", "ifUpdated"}
    BY DEF Saving, Owning
  <2> QED
    BY <1>1, <2>1, HandlerMoves
<1>3. /\ scenario[r].type \in DOMAIN Programs /\ DOMAIN Program(r) = 1..Len(Program(r))
      /\ Len(Program(r)) \in Nat /\ Program(r)' = Program(r)
  BY <1>1, ProgramOf, ProgramKept
<1>4. r \notin handled
  <2>1. i # End(r) + 1
    BY <1>1, <1>3 DEF End
  <2> QED
    BY <2>1 DEF InTurn
<1>5. SUFFICES ASSUME NEW p \in DOMAIN Program(r), QueuesAt(r, p, role), Past(r, p)' PROVE FALSE
  <2>1. (\A p \in DOMAIN Program(r) : ~(QueuesAt(r, p, role) /\ Past(r, p)')) => ~Queued(r, role)'
    BY <1>3 DEF Queued, QueuesAt, Op
  <2> QED
    BY <1>1, <1>4, <2>1 DEF Coming
<1>6. i + 1 > p
  BY <1>1, <1>2, <1>4, <1>5 DEF Past
<1>7. i < p
  <2>1. /\ i \in Places(scenario[r].type, Saving \cup Owning)
        /\ p \in Places(scenario[r].type, {"index"})
    BY <1>1, <1>5 DEF Places, QueuesAt, Op, Program
  <2> QED
    BY <1>3, <2>1, ProgramForms
<1>8. i \in Nat /\ p \in Nat
  BY <1>1, <1>3
<1> QED
  BY <1>6, <1>7, <1>8

\* A component changes by an effect of its event, which queues it afterwards.
LEMMA ComponentChanges ==
    ASSUME InTurn, [Next]_vars, NEW k \in Keys, comps'[k] # comps[k], NEW role,
           \A y \in begun : k[1] \in SavedBy(y) /\ On(y) = k[2] => Indexes(y, role)
    PROVE  \E y \in begun : k[1] \in SavedBy(y) /\ On(y) = k[2] /\ Wrote(y)' /\ Coming(y, role)'
<1> SUFFICES ASSUME NEW r, NEW i, r = run.event, i = run.pc
             PROVE  \E y \in begun :
                      k[1] \in SavedBy(y) /\ On(y) = k[2] /\ Wrote(y)' /\ Coming(y, role)'
  OBVIOUS
<1>1. HandlingTypes /\ scenario' = scenario /\ comps \in [Keys -> {0} \cup begun]
      /\ begun \subseteq begun'
  BY NextKeepsScenario, HistoryGrows DEF InTurn, HandlingTypes, TypeOK
<1>2. /\ RunHandler /\ Op(r, i) \in Saving
      /\ "clears" \in scenario[r].flags \/ r \in saved'
      /\ \E c \in Program(r)[i].on : k = <<c, On(r)>>
  <2>1. CASE RunSave \/ RunReplace
    <3>1. PICK c \in Program(r)[i].on :
            /\ RunHandler /\ Op(r, i) \in Saving
            /\ \/ comps' = [comps EXCEPT ![<<c, On(r)>>] = r] /\ saved' = saved \cup {r}
               \/ UNCHANGED <<comps, saved>>
      BY <1>1, <2>1, StoringStep
    <3>2. comps' = [comps EXCEPT ![<<c, On(r)>>] = r] /\ saved' = saved \cup {r}
      BY <3>1
    <3>3. k = <<c, On(r)>>
      BY <1>1, <3>2
    <3> QED
      BY <3>1, <3>2, <3>3
  <2>2. CASE RunRemove
    <3>1. PICK c \in Program(r)[i].on : comps' = [comps EXCEPT ![<<c, On(r)>>] = 0]
      BY <2>2 DEF RunRemove, Names
    <3>2. k = <<c, On(r)>>
      BY <1>1, <3>1
    <3>3. RunHandler /\ Op(r, i) \in Saving /\ "clears" \in scenario[r].flags
      BY <2>2 DEF RunRemove, RunHandler, Running, Op, Saving
    <3> QED
      BY <3>2, <3>3
  <2>3. CASE ~(RunSave \/ RunReplace \/ RunRemove)
    <3>1. comps' = comps
      <4>1. CASE RunHandler
        BY <2>3, <4>1 DEF RunHandler, RunStatus, RunEnsure, RunIfCreated, RunResolve,
           RunReassign, RunIfUpdated, RunOwn, RunSway, RunCrossing, RunFollowUp, RunTell,
           RunIndex, componentVars
      <4>2. CASE Begin \/ Finalize
        BY <4>2 DEF Begin, Finalize, componentVars
      <4> QED
        BY <4>1, <4>2, OtherSteps DEF Rests, componentVars
    <3> QED
      BY <3>1
  <2> QED
    BY <2>1, <2>2, <2>3
<1>3. r \in begun /\ r \in Ids /\ i \in DOMAIN Program(r) /\ Coming(r, role)'
  BY <1>2, ChangesThenQueues
<1>4. k[1] \in SavedBy(r) /\ On(r) = k[2]
  <2>1. k[1] \in Program(r)[i].on /\ On(r) = k[2]
    BY <1>2
  <2>2. k[1] \in Named(scenario[r].type, Op(r, i))
    BY <1>3, <2>1 DEF Named, Op, Program
  <2>3. Op(r, i) \in {"save", "saveOrRemove", "replace"}
    BY <1>2 DEF Saving
  <2> QED
    BY <2>1, <2>2, <2>3 DEF SavedBy
<1>5. Wrote(r)'
  BY <1>1, <1>2 DEF Wrote
<1> QED
  BY <1>3, <1>4, <1>5

\* Owners change by an effect of an event that queues them afterwards.
LEMMA OwnersChange ==
    ASSUME InTurn, [Next]_vars, NEW x \in Entities, owners'[x] # owners[x], NEW role
    PROVE  \E y \in begun : On(y) = x /\ WritesOwners(y) /\ Coming(y, role)'
<1> SUFFICES ASSUME NEW r, NEW i, r = run.event, i = run.pc
             PROVE  \E y \in begun : On(y) = x /\ WritesOwners(y) /\ Coming(y, role)'
  OBVIOUS
<1>1. RunOwn
  BY OnlyOwnersOwn
<1>2. /\ RunHandler /\ Op(r, i) \in Owning
      /\ owners' = [owners EXCEPT ![On(r)] = OwnersAfter(Op(r, i), @, r)]
  BY <1>1 DEF RunOwn, RunHandler, Running, Op, Owning
<1>3. On(r) = x
  <2>1. owners \in [Entities -> [{Starknet, Ethereum} -> {0} \cup begun]]
    BY DEF InTurn, HandlingTypes, TypeOK
  <2> QED
    BY <1>2, <2>1
<1>4. r \in begun /\ i \in DOMAIN Program(r) /\ Coming(r, role)'
  BY <1>2, ChangesThenQueues
<1>5. WritesOwners(r)
  BY <1>2, <1>4 DEF WritesOwners, Places, Op, Program
<1> QED
  BY <1>3, <1>4, <1>5

\* What a document shows of an entity.
LEMMA ShownParts ==
    ASSUME NEW x
    PROVE  /\ Shown(x).owners = owners[x]
           /\ \A k \in Keys : k[2] = x => Shown(x).comps[k] = comps[k]
<1>1. \A k \in Keys : k[2] = x => k \in KeysOf(x)
  BY DEF KeysOf
<1> QED
  BY <1>1 DEF Shown

\* What holds of all events that were begun held before of those begun then.
LEMMA SearchKept ==
    ASSUME InTurn, [Next]_vars
    PROVE  /\ scenario' = scenario /\ Keys' = Keys /\ Entities' = Entities
           /\ Documents' = Documents /\ begun \subseteq begun' /\ begun \subseteq Ids
           /\ skipped \subseteq skipped' /\ saved \subseteq saved' /\ HandlingTypes
           /\ \A e : /\ On(e)' = On(e) /\ SavedBy(e)' = SavedBy(e)
                     /\ WritesOwners(e)' = WritesOwners(e)
                     /\ \A role : Indexes(e, role)' = Indexes(e, role)
<1>1. scenario' = scenario /\ HandlingTypes
  BY NextKeepsScenario DEF InTurn
<1>2. saved \subseteq saved'
  <2>1. CASE RunSave \/ RunReplace
    BY <1>1, <2>1, StoringStep
  <2> QED
    BY <1>1, <2>1, OthersSaveNothing
<1>3. begun \subseteq begun' /\ skipped \subseteq skipped' /\ begun \subseteq Ids
  BY HistoryGrows, SkippedGrows DEF InTurn, HandlingTypes, TypeOK
<1>4. Keys' = Keys /\ Entities' = Entities /\ Documents' = Documents /\ \A e : On(e)' = On(e)
  BY <1>1, ScenarioKept, DocumentsKept
<1>5. \A e : /\ SavedBy(e)' = SavedBy(e) /\ WritesOwners(e)' = WritesOwners(e)
             /\ \A role : Indexes(e, role)' = Indexes(e, role)
  BY <1>1 DEF SavedBy, WritesOwners, Indexes
<1> QED
  BY <1>1, <1>2, <1>3, <1>4, <1>5

LEMMA NextComponentsFresh ==
    ASSUME SearchInv, [Next]_vars
    PROVE  ComponentsFresh'
<1>1. /\ InTurn /\ RefusedInv /\ ItemsInv /\ IndexerInv /\ ComponentsFresh /\ HandlingTypes
      /\ scenario' = scenario
  BY NextKeepsScenario DEF SearchInv, FollowUpInv, InTurn
<1>2. SUFFICES ASSUME NEW k \in Keys, NEW role, NEW x, NEW d, x = k[2], d = <<role, x>>,
                      d \in Documents, \A y \in skipped' : On(y) # x,
                      \A y \in begun' : k[1] \in SavedBy(y) /\ On(y) = x => Indexes(y, role)
               PROVE  \/ Covered(d)'
                      \/ \E y \in begun' : /\ k[1] \in SavedBy(y) /\ On(y) = x
                                           /\ Wrote(y)' /\ Coming(y, role)'
                      \/ Latest(d)'.comps[k] = comps'[k]
  BY <1>1, SearchKept DEF ComponentsFresh, NoneSkipped, AllQueue
<1>3. /\ begun \subseteq begun' /\ skipped \subseteq skipped' /\ saved \subseteq saved'
  BY <1>1, SearchKept
<1>4. \/ Covered(d)'
      \/ Latest(d)' = Shown(x) /\ UNCHANGED <<comps, owners>>
      \/ ~Covered(d) /\ Latest(d)' = Latest(d)
  BY <1>1, <1>2, NextCovered
<1>5. CASE Latest(d)' = Shown(x) /\ UNCHANGED <<comps, owners>>
  BY <1>2, <1>5, ShownParts
<1>6. CASE ~Covered(d) /\ Latest(d)' = Latest(d)
  <2>1. \/ \E y \in begun : k[1] \in SavedBy(y) /\ On(y) = x /\ Wrote(y) /\ Coming(y, role)
        \/ Latest(d).comps[k] = comps[k]
    <3>1. NoneSkipped(k[2]) /\ AllQueue(k, role) /\ <<role, k[2]>> \in Documents
      BY <1>2, <1>3 DEF NoneSkipped, AllQueue
    <3> QED
      BY <1>1, <1>2, <1>6, <3>1 DEF ComponentsFresh
  <2>2. CASE \E y \in begun : k[1] \in SavedBy(y) /\ On(y) = x /\ Wrote(y) /\ Coming(y, role)
    <3>1. PICK y \in begun : k[1] \in SavedBy(y) /\ On(y) = x /\ Wrote(y) /\ Coming(y, role)
      BY <2>2
    <3>2. Indexes(y, role) /\ y \notin skipped'
      BY <1>2, <1>3, <3>1
    <3>3. Coming(y, role)' \/ Covered(d)'
      BY <1>1, <1>2, <3>1, <3>2, ComingKept
    <3>4. Wrote(y)'
      BY <1>1, <1>3, <3>1 DEF Wrote
    <3> QED
      BY <1>3, <3>1, <3>3, <3>4
  <2>3. CASE Latest(d).comps[k] = comps[k] /\ comps'[k] # comps[k]
    <3>1. \A y \in begun : k[1] \in SavedBy(y) /\ On(y) = k[2] => Indexes(y, role)
      BY <1>2, <1>3
    <3> QED
      BY <1>1, <1>2, <1>3, <2>3, <3>1, ComponentChanges
  <2> QED
    BY <1>6, <2>1, <2>2, <2>3
<1> QED
  BY <1>4, <1>5, <1>6

LEMMA NextOwnersFresh ==
    ASSUME SearchInv, [Next]_vars
    PROVE  OwnersFresh'
<1>1. /\ InTurn /\ RefusedInv /\ ItemsInv /\ IndexerInv /\ OwnersFresh /\ HandlingTypes
      /\ scenario' = scenario
  BY NextKeepsScenario DEF SearchInv, FollowUpInv, InTurn
<1>2. SUFFICES ASSUME NEW x \in Entities, NEW role, NEW d, d = <<role, x>>,
                      d \in Documents, \A y \in skipped' : On(y) # x,
                      \A y \in begun' : On(y) = x /\ WritesOwners(y) => Indexes(y, role)
               PROVE  \/ Covered(d)'
                      \/ \E y \in begun' : On(y) = x /\ WritesOwners(y) /\ Coming(y, role)'
                      \/ Latest(d)'.owners = owners'[x]
  BY <1>1, SearchKept DEF OwnersFresh, NoneSkipped, AllOwnersQueue
<1>3. begun \subseteq begun' /\ skipped \subseteq skipped'
  BY <1>1, SearchKept
<1>4. \/ Covered(d)'
      \/ Latest(d)' = Shown(x) /\ UNCHANGED <<comps, owners>>
      \/ ~Covered(d) /\ Latest(d)' = Latest(d)
  BY <1>1, <1>2, NextCovered
<1>5. CASE Latest(d)' = Shown(x) /\ UNCHANGED <<comps, owners>>
  BY <1>2, <1>5, ShownParts
<1>6. CASE ~Covered(d) /\ Latest(d)' = Latest(d)
  <2>1. \/ \E y \in begun : On(y) = x /\ WritesOwners(y) /\ Coming(y, role)
        \/ Latest(d).owners = owners[x]
    <3>1. NoneSkipped(x) /\ AllOwnersQueue(x, role)
      BY <1>2, <1>3 DEF NoneSkipped, AllOwnersQueue
    <3> QED
      BY <1>1, <1>2, <1>6, <3>1 DEF OwnersFresh
  <2>2. CASE \E y \in begun : On(y) = x /\ WritesOwners(y) /\ Coming(y, role)
    <3>1. PICK y \in begun : On(y) = x /\ WritesOwners(y) /\ Coming(y, role)
      BY <2>2
    <3>2. Indexes(y, role) /\ y \notin skipped'
      BY <1>2, <1>3, <3>1
    <3>3. Coming(y, role)' \/ Covered(d)'
      BY <1>1, <1>2, <3>1, <3>2, ComingKept
    <3> QED
      BY <1>3, <3>1, <3>3
  <2>3. CASE Latest(d).owners = owners[x] /\ owners'[x] # owners[x]
    BY <1>1, <1>2, <1>3, <2>3, OwnersChange
  <2> QED
    BY <1>6, <2>1, <2>2, <2>3
<1> QED
  BY <1>4, <1>5, <1>6

LEMMA NextSearch == SearchInv /\ [Next]_vars => SearchInv'
<1> SUFFICES ASSUME SearchInv, [Next]_vars PROVE SearchInv'
  OBVIOUS
<1>1. /\ FollowUpInv /\ InTurn /\ Stamped /\ ItemsInv /\ IndexerInv /\ HandlingTypes
  BY DEF SearchInv, FollowUpInv, InTurn
<1> QED
  BY <1>1, NextFollowUp, NextStamped, NextItems, NextIndexer, NextComponentsFresh,
     NextOwnersFresh DEF SearchInv

LEMMA InitSearch == Init => SearchInv
<1> SUFFICES ASSUME Init PROVE SearchInv
  OBVIOUS
<1>1. FollowUpInv /\ HandlingTypes
  BY InitFollowUp, InitTypes
<1>2. Stamped /\ ItemsInv
  BY DEF Init, Stamped, ItemsInv, Idle, IndexerIdle
<1>3. IndexerInv
  BY DEF Init, IndexerInv, IndexerIdle
<1>4. ASSUME NEW d \in Documents PROVE Latest(d) = Shown(d[2])
  BY <1>4 DEF Init, Latest, IndexerIdle
<1>5. ComponentsFresh
  BY <1>4, ShownParts DEF ComponentsFresh
<1>6. OwnersFresh
  BY <1>4, ShownParts DEF OwnersFresh
<1> QED
  BY <1>1, <1>2, <1>3, <1>5, <1>6 DEF SearchInv

\* Of all histories, in whatever order they are handled: once the queue is empty
\* the documents show the components and owners they are queued for as they are,
\* whatever changed between the reading of a document and the deletion of its
\* items, and whichever process crashed when (SearchCurrent).
THEOREM SearchCurrentHolds == Spec => []SearchCurrent
<1>1. SearchInv => SearchCurrent
  <2>1. SUFFICES ASSUME SearchInv, Quiet, queue = {}, NEW e \in handled,
                        NEW role \in Named(scenario[e].type, "index"),
                        \A y \in skipped : ~Same(y, e)
                 PROVE  /\ \A c \in {c \in SavedBy(e) : Queues(<<c, On(e)>>, role)} :
                             search[<<role, On(e)>>].comps[<<c, On(e)>>] = comps[<<c, On(e)>>]
                        /\ QueuesOwners(On(e), role) =>
                             search[<<role, On(e)>>].owners = owners[On(e)]
    BY DEF SearchCurrent
  <2> DEFINE x == On(e)
             d == <<role, x>>
  <2>2. /\ begun = handled /\ e \in Ids /\ NoneSkipped(x)
    BY <2>1 DEF SearchInv, FollowUpInv, InTurn, HandlingTypes, TypeOK, Quiet, NoneSkipped, Same
  <2>3. d \in Documents /\ x \in Entities
    BY <2>1, <2>2 DEF Documents, Entities
  <2>4. indexer.pc = "idle" /\ ~Covered(d) /\ Latest(d) = search[d]
    <3>1. indexer.batch = {}
      BY <2>1 DEF SearchInv, IndexerInv
    <3>2. indexer.pc = "idle"
      BY <2>1, <3>1 DEF SearchInv, IndexerInv
    <3> QED
      BY <2>1, <3>2 DEF Covered, Latest
  <2>5. \A y, p : ~Coming(y, p)
    BY <2>2 DEF Coming
  <2>6. ASSUME NEW c \in SavedBy(e), Queues(<<c, x>>, role)
        PROVE  search[d].comps[<<c, x>>] = comps[<<c, x>>]
    <3> DEFINE k == <<c, x>>
    <3>1. k \in Keys /\ k[2] = x /\ k[1] = c
      BY <2>2 DEF Keys
    <3>2. AllQueue(k, role)
      BY <2>2, <2>6 DEF AllQueue, Queues, Indexes
    <3> HIDE DEF k
    <3>3. Latest(<<role, k[2]>>).comps[k] = comps[k]
      BY <2>1, <2>2, <2>3, <2>4, <2>5, <3>1, <3>2 DEF SearchInv, ComponentsFresh
    <3>4. search[d].comps[k] = comps[k]
      BY <2>4, <3>1, <3>3
    <3> QED
      BY <3>4 DEF k
  <2>7. ASSUME QueuesOwners(x, role) PROVE search[d].owners = owners[x]
    <3>1. AllOwnersQueue(x, role)
      BY <2>2, <2>7 DEF AllOwnersQueue, QueuesOwners, WritesOwners, Indexes
    <3> QED
      BY <2>1, <2>2, <2>3, <2>4, <2>5, <3>1 DEF SearchInv, OwnersFresh
  <2> QED
    BY <2>6, <2>7
<1> QED
  BY <1>1, InitSearch, NextSearch, PTL DEF Spec

================================================================================
