----------------------------- MODULE LotTenancy -----------------------------
(***************************************************************************)
(* The packed lot data of one asteroid: a cached array of words in which    *)
(* every lot has a few bits (building, lease status, crew). It is derived   *)
(* from the component documents and refreshed by the handlers of the event  *)
(* processor and by the scheduled agreement audit. Each refresh reads the   *)
(* whole array, computes from the documents, and writes the whole array     *)
(* back. (common/services/PackedData/LotData.js, common/services/Lot.js,    *)
(* common/lib/PackedData.js, workers/agreementAudit.js)                     *)
(*                                                                         *)
(* Widths are scaled: 5 bits a lot and 8 bits a word for the code's 10 and  *)
(* 32, so that the value of a lot spans two words, as it does there.        *)
(***************************************************************************)
EXTENDS Integers, FiniteSets, SequencesExt

CONSTANTS LotCount,    \* lots of the asteroid, Asteroid.getSurfaceArea
          Policies,    \* kinds of USE_LOT policies: prepaid, public, contract
          Managed,     \* lots where the controller of the asteroid builds
          BuildingTypes, \* 0 for none, at most 3 (a building, a construction site)
          MaxLotEvents, \* events processed
          MaxLotCrashes \* crashes of the processor

ASSUME LotAssumption ==
  /\ LotCount \in Nat \ {0}
  /\ Managed \subseteq 0 .. LotCount - 1
  /\ BuildingTypes \subseteq 0..3 /\ 0 \in BuildingTypes
  /\ MaxLotEvents \in Nat /\ MaxLotCrashes \in Nat

VARIABLES
  agreement,  \* per lot, the latest lease: "none", "running", "expired" (a contract
              \* is a lease that keeps running)
  policy,     \* the asteroid's USE_LOT policies
  building,   \* per lot, what buildingType shows
  crew,       \* lots with a crew
  array,      \* the cached words, or Missing
  refresh,    \* per writer, the refresh under way
  auditQueue, \* lots the audit's cursor still has to return
  redo,       \* the refresh of an event the processor has to process again
  disturbed,  \* history: an update was lost, or a refresh nobody repeats was
  lotEvents, lotCrashes

factVars == <<agreement, policy, building, crew>>
lotVars == <<factVars, array, refresh, auditQueue, redo, disturbed, lotEvents,
             lotCrashes>>

LotIndices == 0 .. LotCount - 1
Writers == {"processor", "audit"}
Width == 5
WordBits == 8
Words == 0 .. ((LotCount * Width + WordBits - 1) \div WordBits) - 1
Missing == <<>>
Zeros == [w \in Words |-> 0]
NoRefresh == [stage |-> "none"]

-----------------------------------------------------------------------------
(* PackedData: value i occupies the bits from i * Width, high bits first.   *)
WordOf(i) == (i * Width) \div WordBits
Available(i) == WordBits - ((i * Width) % WordBits)
Fits(i) == Width <= Available(i)
Spill(i) == Width - Available(i)

\* Replace `size` bits of a word that end `shift` bits above its end.
Put(word, value, size, shift) ==
  word + ((value % 2^size) - ((word \div 2^shift) % 2^size)) * 2^shift

PackedGet(packed, i) ==
  IF Fits(i)
  THEN (packed[WordOf(i)] \div 2^(Available(i) - Width)) % 2^Width
  ELSE (packed[WordOf(i)] % 2^Available(i)) * 2^Spill(i)
         + (packed[WordOf(i) + 1] \div 2^(WordBits - Spill(i)))

\* Mutant: the word that ends with the first bits of the value starts afresh.
PackedSet_WordAfresh(packed, i, value) ==
  IF Fits(i)
  THEN [packed EXCEPT ![WordOf(i)] = Put(@, value, Width, Available(i) - Width)]
  ELSE [packed EXCEPT ![WordOf(i)] = value \div 2^Spill(i),
                      ![WordOf(i) + 1] =
                         Put(@, value, Spill(i), WordBits - Spill(i))]

PackedSet(packed, i, value) ==
  IF Fits(i)
  THEN [packed EXCEPT ![WordOf(i)] = Put(@, value, Width, Available(i) - Width)]
  ELSE [packed EXCEPT ![WordOf(i)] = Put(@, value \div 2^Spill(i), Available(i), 0),
                      ![WordOf(i) + 1] =
                         Put(@, value, Spill(i), WordBits - Spill(i))]

-----------------------------------------------------------------------------
(* LotAttribute: where an attribute is in the value of a lot, how it is     *)
(* computed. (hasSamples, always 0, is left out.)                           *)
LotAttribute == [hasCrew      |-> [shift |-> 0, size |-> 1],
                 leaseStatus  |-> [shift |-> 1, size |-> 2],
                 buildingType |-> [shift |-> 3, size |-> 2]]
Attribute(value, name) ==
  (value \div 2^LotAttribute[name].shift) % 2^LotAttribute[name].size
WithAttribute(value, name, new) ==
  Put(value, new, LotAttribute[name].size, LotAttribute[name].shift)

OwnBuilding == {lot \in Managed : building[lot] # 0}

HasLeaseAgreement(lot) == agreement[lot] = "running"

GetLeaseStatus(lot) ==
  CASE HasLeaseAgreement(lot) -> 2
    [] ~HasLeaseAgreement(lot) /\ policy # {} /\ lot \notin OwnBuilding -> 1
    [] OTHER -> 0

Compute(lot, name) ==
  CASE name = "hasCrew" -> IF lot \in crew THEN 1 ELSE 0
    [] name = "leaseStatus" -> GetLeaseStatus(lot)
    [] name = "buildingType" -> building[lot]

ShowsAgreement(value) == Attribute(value, "leaseStatus") = 2

-----------------------------------------------------------------------------
(* What a refresh makes of the array it read.                               *)
UpdateLotAttribute(packed, lot, name) ==
  PackedSet(packed, lot,
            WithAttribute(PackedGet(packed, lot), name, Compute(lot, name)))

Update(packed, lot) ==
  PackedSet(packed, lot,
            Compute(lot, "hasCrew")
              + Compute(lot, "leaseStatus") * 2^LotAttribute.leaseStatus.shift
              + Compute(lot, "buildingType") * 2^LotAttribute.buildingType.shift)

SetLeaseStatus(packed, lots, status) ==
  FoldSet(LAMBDA lot, p : PackedSet(p, lot, WithAttribute(PackedGet(p, lot),
                                                          "leaseStatus", status)),
          packed, lots)

WithoutAgreement(packed) ==
  {lot \in LotIndices : ~ShowsAgreement(PackedGet(packed, lot))}

\* Mutant: lots under an agreement are offered like the others.
UpdateLotsToLeaseable_AllLots(packed) ==
  SetLeaseStatus(packed, LotIndices \ OwnBuilding, 1)

UpdateLotsToLeaseable(packed) ==
  SetLeaseStatus(packed, WithoutAgreement(packed) \ OwnBuilding, 1)

UpdateLotsToNonLeaseable(packed) ==
  SetLeaseStatus(packed, WithoutAgreement(packed), 0)

Refreshed(packed, job) ==
  CASE job.what = "lot" -> Update(packed, job.lot)
    [] job.what = "leaseable" -> UpdateLotsToLeaseable(packed)
    [] job.what = "nonLeaseable" -> UpdateLotsToNonLeaseable(packed)
    [] OTHER -> UpdateLotAttribute(packed, job.lot, job.what)

-----------------------------------------------------------------------------
(* The three steps of a refresh, of either writer. get() creates the array  *)
(* of zeros when the cache has none; nothing is written when nothing        *)
(* changed in a single lot.                                                 *)
Due(what, lot, again) ==
  [stage |-> "due", what |-> what, lot |-> lot, again |-> again,
   read |-> Missing, packed |-> Missing, overtaken |-> FALSE]

LotRead(w) ==
  /\ refresh[w].stage = "due"
  /\ array' = IF array = Missing THEN Zeros ELSE array
  /\ refresh' = [refresh EXCEPT ![w].stage = "read", ![w].read = array',
                                ![w].packed = array']
  /\ UNCHANGED <<factVars, auditQueue, redo, disturbed, lotEvents, lotCrashes>>

LotCompute(w) ==
  /\ refresh[w].stage = "read"
  /\ refresh' = [refresh EXCEPT ![w].stage = "computed",
                                ![w].packed = Refreshed(@, refresh[w])]
  /\ UNCHANGED <<factVars, array, auditQueue, redo, disturbed, lotEvents, lotCrashes>>

\* Another writer that finishes in between leaves this one with an older array,
\* and with documents read before the other's event: its write undoes the other's
\* refresh, or it takes the array for up to date and writes nothing.
LotWrite(w) ==
  /\ refresh[w].stage = "computed"
  /\ LET same == refresh[w].packed = refresh[w].read
     IN /\ array' = IF same THEN array ELSE refresh[w].packed
        /\ disturbed' = (disturbed \/ refresh[w].overtaken)
        /\ refresh' = [v \in Writers |->
             IF v = w THEN NoRefresh
             ELSE IF refresh[v].stage \notin {"read", "computed"}
                  THEN refresh[v]
                  ELSE [refresh[v] EXCEPT !.overtaken = TRUE]]
  /\ UNCHANGED <<factVars, auditQueue, redo, lotEvents, lotCrashes>>

-----------------------------------------------------------------------------
(* Events: the handler stores the component, then refreshes. `again`: the   *)
(* handler refreshes again when the event is processed a second time (a     *)
(* save reports an update; a removal that finds nothing returns, and so do  *)
(* CrewStationed and CrewEjected once their activity exists).               *)
LotEvent(what, lot, again) ==
  /\ refresh["processor"].stage = "none" /\ redo.stage = "none"
  /\ lotEvents < MaxLotEvents
  /\ lotEvents' = lotEvents + 1
  /\ refresh' = [refresh EXCEPT !["processor"] = Due(what, lot, again)]
  /\ UNCHANGED <<array, auditQueue, redo, disturbed, lotCrashes>>

AgreementSigned(lot) ==
  /\ agreement' = [agreement EXCEPT ![lot] = "running"]
  /\ LotEvent("leaseStatus", lot, TRUE)
  /\ UNCHANGED <<policy, building, crew>>

AgreementRemoved(lot) ==
  /\ agreement[lot] # "none"
  /\ agreement' = [agreement EXCEPT ![lot] = "none"]
  /\ LotEvent("leaseStatus", lot, FALSE)
  /\ UNCHANGED <<policy, building, crew>>

PolicyAssigned(p) ==
  /\ policy' = policy \cup {p}
  /\ LotEvent("leaseable", 0, TRUE)
  /\ UNCHANGED <<agreement, building, crew>>

PolicyRemoved(p) ==
  /\ p \in policy
  /\ policy' = policy \ {p}
  /\ LotEvent("nonLeaseable", 0, FALSE)
  /\ UNCHANGED <<agreement, building, crew>>

\* ConstructionPlanned and ConstructionDeconstructed refresh the whole lot.
\* (Their component events came before. A change of control refreshes nothing.)
BuildingChanged(lot, type) ==
  /\ type # building[lot]
  /\ building' = [building EXCEPT ![lot] = type]
  /\ LotEvent("lot", lot, FALSE)
  /\ UNCHANGED <<agreement, policy, crew>>

CrewMoved(lot) ==
  /\ crew' = IF lot \in crew THEN crew \ {lot} ELSE crew \cup {lot}
  /\ LotEvent("hasCrew", lot, FALSE)
  /\ UNCHANGED <<agreement, policy, building>>

Reprocess ==
  /\ redo.stage = "due"
  /\ redo' = NoRefresh
  /\ refresh' = [refresh EXCEPT !["processor"] = redo]
  /\ UNCHANGED <<factVars, array, auditQueue, disturbed, lotEvents, lotCrashes>>

\* Time passes: the lease ends, and nothing is refreshed.
LeaseExpires(lot) ==
  /\ agreement[lot] = "running"
  /\ agreement' = [agreement EXCEPT ![lot] = "expired"]
  /\ UNCHANGED <<policy, building, crew, array, refresh, auditQueue, redo,
                 disturbed, lotEvents, lotCrashes>>

-----------------------------------------------------------------------------
(* workers/agreementAudit.js: refresh the lease status of every lot with an *)
(* expired agreement. (The documents stay: USE_LOT has no retention window.)*)
\* Mutant: the agreements that have not ended.
AuditQueue_Running == {lot \in LotIndices : agreement[lot] = "running"}

AuditQueue == {lot \in LotIndices : agreement[lot] = "expired"}

AuditStart ==
  /\ auditQueue = {} /\ refresh["audit"].stage = "none"
  /\ auditQueue' = AuditQueue
  /\ auditQueue' # {}
  /\ UNCHANGED <<factVars, array, refresh, redo, disturbed, lotEvents, lotCrashes>>

AuditNext ==
  /\ refresh["audit"].stage = "none"
  /\ \E lot \in auditQueue :
       /\ auditQueue' = auditQueue \ {lot}
       /\ refresh' = [refresh EXCEPT !["audit"] = Due("leaseStatus", lot, FALSE)]
  /\ UNCHANGED <<factVars, array, redo, disturbed, lotEvents, lotCrashes>>

\* The platform restarts the processor: the event it was at is processed again.
\* (A stopped audit is a run that found fewer lots; the next one starts afresh.)
LotCrash ==
  /\ refresh["processor"].stage # "none" /\ lotCrashes < MaxLotCrashes
  /\ lotCrashes' = lotCrashes + 1
  /\ LET job == refresh["processor"]
     IN /\ redo' = IF job.again THEN Due(job.what, job.lot, TRUE) ELSE redo
        /\ disturbed' = (disturbed \/ (~job.again /\ job.what # "hasCrew"))
  /\ refresh' = [refresh EXCEPT !["processor"] = NoRefresh]
  /\ UNCHANGED <<factVars, array, auditQueue, lotEvents>>

-----------------------------------------------------------------------------
LotInit ==
  /\ agreement = [lot \in LotIndices |-> "none"]
  /\ policy = {} /\ crew = {}
  /\ building = [lot \in LotIndices |-> 0]
  /\ array = Missing
  /\ refresh = [w \in Writers |-> NoRefresh]
  /\ auditQueue = {} /\ redo = NoRefresh
  /\ disturbed = FALSE /\ lotEvents = 0 /\ lotCrashes = 0

LotRefresh(w) == LotRead(w) \/ LotCompute(w) \/ LotWrite(w)
AuditStep == AuditStart \/ AuditNext \/ LotRefresh("audit")

LotNext ==
  \/ \E lot \in LotIndices :
       \/ AgreementSigned(lot)
       \/ AgreementRemoved(lot)
       \/ \E type \in BuildingTypes : BuildingChanged(lot, type)
       \/ CrewMoved(lot)
       \/ LeaseExpires(lot)
  \/ \E p \in Policies : PolicyAssigned(p) \/ PolicyRemoved(p)
  \/ LotRefresh("processor")
  \/ Reprocess
  \/ AuditStep
  \/ LotCrash

-----------------------------------------------------------------------------
Shown(lot) == IF array = Missing THEN 0 ELSE Attribute(PackedGet(array, lot), "leaseStatus")
ProcessorIdle == refresh["processor"].stage = "none" /\ redo.stage = "none"
AuditIdle == refresh["audit"].stage = "none"

\* A lot with a running lease is shown as leased whenever the processor has
\* finished its events, through policies that come and go, audits, and
\* crashes, unless an update of the array was lost to a concurrent writer; and
\* a lot is offered for lease only while the asteroid has a policy for it.
TenancyShown ==
  ProcessorIdle /\ ~disturbed =>
    /\ \A lot \in LotIndices : HasLeaseAgreement(lot) => Shown(lot) = 2
    /\ AuditIdle /\ policy = {} => \A lot \in LotIndices : Shown(lot) # 1

\* A refresh of one lot that overwrites the array it read changes the bits of
\* that lot only, although values share words.
OtherLotsUntouched ==
  [][\A w \in Writers :
       LotWrite(w) /\ ~refresh[w].overtaken
         /\ refresh[w].what \notin {"leaseable", "nonLeaseable"} =>
       \A lot \in LotIndices \ {refresh[w].lot} :
         PackedGet(array', lot) = PackedGet(array, lot)]_lotVars

\* The audit clears the mark of a lease that ran out, lost updates or not:
\* it visits every lot with an expired agreement again in every run.
ExpiredCleared ==
  \A lot \in LotIndices :
    agreement[lot] = "expired" ~> (agreement[lot] # "expired" \/ Shown(lot) # 2)
=============================================================================
