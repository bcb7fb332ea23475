--------------------------- MODULE PaymasterBudget ---------------------------
(***************************************************************************)
(* The fee budget of one starter pack purchase (services/AvnuPaymaster.js):*)
(* concurrent calls of forward() reserve the estimate of each transaction  *)
(* they have AVNU build, and mark the reservation submitted once AVNU has  *)
(* executed it.  A transaction stands for its request fingerprint; builds  *)
(* of one transaction share the prepared fingerprint too, because both     *)
(* leave out its nonce, fee and signature.                                 *)
(***************************************************************************)
EXTENDS Integers, FiniteSets, FiniteSetsExt

CONSTANTS
    Calls,          \* concurrent calls of forward()
    Tx,             \* transactions a wallet asks to sponsor
    Fees,           \* fee estimates, in milliSTRK
    Budget,         \* paymasterMaxStarterPackBudgetStrk, in milliSTRK
    MaxBuilds,      \* bound: builds answered by AVNU
    MaxFailures,    \* bound: failed writes and calls cut short
    None

ASSUME PaymasterAssumption ==
    /\ Fees \subseteq Nat \ {0}
    /\ Budget \in Nat
    /\ MaxBuilds \in Nat
    /\ MaxFailures \in Nat
    /\ IsFiniteSet(Calls)
    /\ IsFiniteSet(Tx)

VARIABLES
    reserved,       \* paymasterReservedMilliStrk of the purchase
    sponsorship,    \* the PaymasterSponsorship document of each transaction, or None
    call,           \* the state of each call
    builds,         \* builds so far
    prepared,       \* builds of each transaction the wallet has yet to execute
    failures,       \* failures so far
    executed,       \* history: the fees AVNU was made to sponsor
    settled,        \* history: reservations a later one of their transaction replaced
    lost,           \* history: the failures that lost something, see Losses
    shared          \* history: two executes of one transaction were under way at once

history == <<executed, settled, lost, shared>>

vars == <<reserved, sponsorship, call, builds, prepared, failures, history>>

\* The version is that of the document (__v); fresh says its TTL has not passed.
Sponsorship == [fee : Fees, status : {"reserved", "submitted"}, v : Nat,
                fresh : BOOLEAN]

ASSUME NoneAssumption == None \notin Tx \cup Sponsorship

Call == [pc : {"idle", "find", "charge", "save", "rollback", "execute", "mark"},
         tx : Tx \cup {None}, fee : Fees \cup {0}, existing : Sponsorship \cup {None},
         increase : Nat, again : BOOLEAN]

\* A write applied whose answer got lost, a call cut short before its end.
Losses == {"reply", "call"}

TypeOK ==
    /\ reserved \in 0..Budget
    /\ sponsorship \in [Tx -> Sponsorship \cup {None}]
    /\ call \in [Calls -> Call]
    /\ builds \in 0..MaxBuilds
    /\ prepared \in [Tx -> Nat]
    /\ failures \in 0..MaxFailures
    /\ executed \in Nat
    /\ settled \in Nat
    /\ lost \subseteq Losses
    /\ shared \in BOOLEAN

Idle == [pc |-> "idle", tx |-> None, fee |-> 0, existing |-> None, increase |-> 0,
         again |-> FALSE]

Init ==
    /\ reserved = 0
    /\ sponsorship = [t \in Tx |-> None]
    /\ call = [c \in Calls |-> Idle]
    /\ builds = 0
    /\ prepared = [t \in Tx |-> 0]
    /\ failures = 0
    /\ executed = 0
    /\ settled = 0
    /\ lost = {}
    /\ shared = FALSE

At(c, pc) == call[c].pc = pc
Goto(c, pc) == call' = [call EXCEPT ![c].pc = pc]
Return(c) == call' = [call EXCEPT ![c] = Idle]

\* AVNU answers paymaster_buildTransaction with a fee estimate.
Build(c) ==
    /\ At(c, "idle")
    /\ builds < MaxBuilds
    /\ builds' = builds + 1
    /\ \E t \in Tx, fee \in Fees :
         call' = [call EXCEPT ![c] = [Idle EXCEPT !.pc = "find", !.tx = t, !.fee = fee]]
    /\ UNCHANGED <<reserved, sponsorship, prepared, failures, history>>

\* The top of the loop of reserveBudget: the sponsorship of the request.
FindExisting(c) ==
    /\ At(c, "find")
    /\ call' = [call EXCEPT ![c].pc = "charge", ![c].existing = sponsorship[call[c].tx]]
    /\ UNCHANGED <<reserved, sponsorship, builds, prepared, failures, history>>

\* What the build costs on top of what its transaction has reserved.
PreviousReservation(existing) ==
    IF existing # None /\ existing.status = "reserved" THEN existing.fee ELSE 0

BudgetIncrease(c) == Max({0, call[c].fee - PreviousReservation(call[c].existing)})

\* findOneAndUpdate of the purchase, or the budget is exceeded.
Charge_Unchecked(c) ==                              \* mutant: without the $lte filter
    /\ At(c, "charge")
    /\ reserved' = reserved + BudgetIncrease(c)
    /\ call' = [call EXCEPT ![c].pc = "save", ![c].increase = BudgetIncrease(c)]
    /\ UNCHANGED <<sponsorship, builds, prepared, failures, history>>
Charge(c) ==
    /\ At(c, "charge")
    /\ IF reserved <= Budget - BudgetIncrease(c)
         THEN /\ reserved' = reserved + BudgetIncrease(c)
              /\ call' = [call EXCEPT ![c].pc = "save", ![c].increase = BudgetIncrease(c)]
         ELSE /\ Return(c)
              /\ UNCHANGED reserved
    /\ UNCHANGED <<sponsorship, builds, prepared, failures, history>>

\* The document this build writes.
Reservation(c) ==
    [fee |-> Max({PreviousReservation(call[c].existing), call[c].fee}),
     status |-> "reserved",
     v |-> IF call[c].existing = None THEN 0 ELSE call[c].existing.v + 1,
     fresh |-> TRUE]

\* The filter of the compare-and-swap, or the unique index when creating.
Unchanged_VersionOnly(existing, current) ==         \* mutant: without status
    IF existing = None THEN current = None ELSE current.v = existing.v
Unchanged_IdOnly(existing, current) ==              \* mutant: without __v and status
    existing = None => current = None
Unchanged(existing, current) ==
    IF existing = None THEN current = None
    ELSE current.v = existing.v /\ current.status = existing.status

\* updateOne or create of the sponsorship, where the filter lets it.
WriteReservation(c) ==
    LET t == call[c].tx
        existing == call[c].existing
    IN
    /\ Unchanged(existing, sponsorship[t])
    /\ sponsorship' = [sponsorship EXCEPT ![t] = Reservation(c)]
    /\ settled' = settled + (IF existing # None /\ sponsorship[t].status = "submitted"
                               THEN sponsorship[t].fee ELSE 0)

\* The build is answered: the wallet may have its transaction executed.
SaveReservation(c) ==
    /\ At(c, "save")
    /\ WriteReservation(c)
    /\ prepared' = [prepared EXCEPT ![call[c].tx] = @ + 1]
    /\ Return(c)
    /\ UNCHANGED <<reserved, builds, failures, executed, lost, shared>>

\* Another build of the transaction was first: no document modified, or the
\* unique index refuses a second one.
LoseRace(c) ==
    /\ At(c, "save")
    /\ ~Unchanged(call[c].existing, sponsorship[call[c].tx])
    /\ call' = [call EXCEPT ![c].pc = "rollback", ![c].again = TRUE]
    /\ UNCHANGED <<reserved, sponsorship, builds, prepared, failures, history>>

\* The write fails, or its answer is lost: the increase is rolled back, then
\* the error thrown.
SaveFails(c) ==
    /\ At(c, "save")
    /\ failures < MaxFailures
    /\ failures' = failures + 1
    /\ Goto(c, "rollback")
    /\ \/ UNCHANGED <<sponsorship, settled, lost>>
       \/ WriteReservation(c) /\ lost' = lost \cup {"reply"}
    /\ UNCHANGED <<reserved, builds, prepared, executed, shared>>

\* The loop starts over, or the call ends with its error.
AfterRollback_SameRead(c) ==                        \* mutant: without reading again
    IF call[c].again THEN [call[c] EXCEPT !.pc = "charge", !.increase = 0, !.again = FALSE]
    ELSE Idle
AfterRollback(c) ==
    IF call[c].again THEN [call[c] EXCEPT !.pc = "find", !.increase = 0, !.again = FALSE]
    ELSE Idle

Rollback(c) ==
    /\ At(c, "rollback")
    /\ reserved' = reserved - call[c].increase
    /\ call' = [call EXCEPT ![c] = AfterRollback(c)]
    /\ UNCHANGED <<sponsorship, builds, prepared, failures, history>>

Executing(c) == At(c, "execute") \/ At(c, "mark")

\* validateExecuteRequest: a reservation within its TTL.
Validate(c) ==
    /\ At(c, "idle")
    /\ \E t \in Tx :
         /\ sponsorship[t] # None
         /\ sponsorship[t].status = "reserved"
         /\ sponsorship[t].fresh
         /\ call' = [call EXCEPT ![c] = [Idle EXCEPT !.pc = "execute", !.tx = t,
                                                    !.fee = sponsorship[t].fee]]
         /\ shared' = (shared \/ \E d \in Calls : Executing(d) /\ call[d].tx = t)
    /\ UNCHANGED <<reserved, sponsorship, builds, prepared, failures, executed, settled,
                   lost>>

\* AVNU refuses, or executes each prepared transaction at most once.
Execute(c) ==
    LET t == call[c].tx IN
    /\ At(c, "execute")
    /\ \/ /\ Return(c)
          /\ UNCHANGED <<prepared, executed>>
       \/ /\ prepared[t] > 0
          /\ prepared' = [prepared EXCEPT ![t] = @ - 1]
          /\ executed' = executed + call[c].fee
          /\ Goto(c, "mark")
    /\ UNCHANGED <<reserved, sponsorship, builds, failures, settled, lost, shared>>

MarkSubmitted(c) ==
    LET t == call[c].tx IN
    /\ At(c, "mark")
    /\ sponsorship' = IF sponsorship[t].status = "reserved"
                        THEN [sponsorship EXCEPT ![t].status = "submitted"] ELSE sponsorship
    /\ Return(c)
    /\ UNCHANGED <<reserved, builds, prepared, failures, history>>

\* A request of the call fails outside the try block, or the server restarts.
CutShort(c) ==
    /\ ~At(c, "idle")
    /\ failures < MaxFailures
    /\ failures' = failures + 1
    /\ lost' = lost \cup {"call"}
    /\ Return(c)
    /\ UNCHANGED <<reserved, sponsorship, builds, prepared, executed, settled, shared>>

\* The TTL of a reservation passes.
Expire ==
    /\ \E t \in Tx :
         /\ sponsorship[t] # None
         /\ sponsorship[t].fresh
         /\ sponsorship' = [sponsorship EXCEPT ![t].fresh = FALSE]
    /\ UNCHANGED <<reserved, call, builds, prepared, failures, history>>

Proceed(c) ==
    \/ FindExisting(c)
    \/ Charge(c)
    \/ SaveReservation(c)
    \/ LoseRace(c)
    \/ Rollback(c)
    \/ Execute(c)
    \/ MarkSubmitted(c)

Next ==
    \/ \E c \in Calls : Build(c) \/ Validate(c) \/ Proceed(c) \/ SaveFails(c) \/ CutShort(c)
    \/ Expire

Spec == Init /\ [][Next]_vars

\* A call of the server runs on until it answers.
FairSpec == Spec /\ \A c \in Calls : WF_vars(Proceed(c))

-----------------------------------------------------------------------------

\* What calls have charged for documents they have yet to write.
Charging(c) == IF call[c].pc \in {"save", "rollback"} THEN call[c].increase ELSE 0

\* What the document of a transaction says is reserved.
Reserved(t) == IF sponsorship[t] = None THEN 0 ELSE sponsorship[t].fee

TotalReserved == SumFunction([t \in Tx |-> Reserved(t)])
TotalCharging == SumFunction([c \in Calls |-> Charging(c)])

\* What the purchase should be charged: replaced reservations included.
Documented == settled + TotalReserved + TotalCharging

\* However the builds of a transaction interleave, and whichever writes fail,
\* the purchase is charged once for each reservation: the highest estimate of
\* the builds it stands for (reserveBudget charges before it writes, and rolls
\* back what it did not write).  Also a call cut short anywhere leaves the
\* purchase charged for at least what its sponsorships reserve, never for less.
ChargedOnce ==
    /\ "reply" \notin lost => reserved >= Documented
    /\ lost = {} => reserved = Documented

\* AVNU sponsors no more than the budget of the purchase: every execution
\* spends a reservation of its own (validateExecuteRequest, markSubmitted).
WithinBudget == lost = {} => executed <= Budget

\* It keeps to the budget where no two executes of one transaction are under way
\* at once, whatever is built, executed or expires meanwhile: a build that read
\* the reservation before it was marked submitted does not count on it any more.
WithinBudgetUnshared == lost = {} /\ ~shared => executed <= Budget

\* A build that loses the race for its sponsorship starts over on what the
\* winner wrote, and is answered (the loop of reserveBudget).
BuildsAnswered == \A c \in Calls : At(c, "find") ~> At(c, "idle")
=============================================================================
