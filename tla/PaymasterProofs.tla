--------------------------- MODULE PaymasterProofs ---------------------------
(***************************************************************************)
(* The accounting of the paymaster: the purchase is charged once for each   *)
(* reservation, and AVNU keeps to the budget where executes do not overlap. *)
(***************************************************************************)
EXTENDS PaymasterBudget, NatLemmas

(***************************************************************************)
(* The inductive invariant.                                                *)
(***************************************************************************)

\* A call under way has a transaction, and an execute one with a sponsorship.
CallsNamed ==
    \A c \in Calls : /\ ~At(c, "idle") => call[c].tx \in Tx /\ call[c].fee \in Fees
                     /\ Executing(c) => sponsorship[call[c].tx] # None

\* What a build has read of a sponsorship is what its version still says.
Snapshots ==
    \A c \in Calls :
      LET existing == call[c].existing
          current == sponsorship[call[c].tx]
      IN call[c].pc \in {"charge", "save"} /\ existing # None =>
           /\ current # None
           /\ existing.v <= current.v
           /\ existing.v = current.v => existing.fee = current.fee

\* A build that is about to write has charged what it lacked when it read.
Increases == \A c \in Calls : At(c, "save") => call[c].increase = BudgetIncrease(c)

\* Whatever a call may still roll back is part of what is reserved.
ChargesBacked == TotalCharging <= reserved

\* The part of a reservation that its execution has spent.
Covered(t) ==
    IF \/ sponsorship[t] = None
       \/ /\ sponsorship[t].status = "reserved"
          /\ \A c \in Calls : At(c, "mark") => call[c].tx # t
    THEN 0 ELSE sponsorship[t].fee

TotalCovered == SumFunction([t \in Tx |-> Covered(t)])

\* A transaction has one execute under way, of a reservation that is large
\* enough, and reservations spent cover all fees AVNU has sponsored.
Executions ==
    lost = {} /\ ~shared =>
      /\ \A c \in Calls : Executing(c) =>
           /\ sponsorship[call[c].tx].status = "reserved"
           /\ call[c].fee <= sponsorship[call[c].tx].fee
      /\ \A c, d \in Calls :
           Executing(c) /\ Executing(d) /\ call[c].tx = call[d].tx => c = d
      /\ executed <= settled + TotalCovered

CallsInv == TypeOK /\ CallsNamed /\ Snapshots /\ Increases

PaymasterInv == CallsInv /\ ChargesBacked /\ ChargedOnce /\ Executions

-----------------------------------------------------------------------------

LEMMA LargerOfTwo ==
    ASSUME NEW a \in Int, NEW b \in Int
    PROVE  Max({a, b}) = IF a <= b THEN b ELSE a
<1> DEFINE m == IF a <= b THEN b ELSE a
<1>1. m \in {a, b} /\ \A y \in {a, b} : m >= y
  OBVIOUS
<1>2. \A x \in {a, b} : (\A y \in {a, b} : x >= y) => x = m
  OBVIOUS
<1> HIDE DEF m
<1>3. Max({a, b}) = m
  BY <1>1, <1>2 DEF Max
<1> QED
  BY <1>3 DEF m

\* What a charge is, and what the document written for it says.
LEMMA IncreaseIs ==
    ASSUME TypeOK, NEW c \in Calls, ~At(c, "idle"), CallsNamed
    PROVE  /\ PreviousReservation(call[c].existing) \in Nat
           /\ BudgetIncrease(c) \in Nat
           /\ BudgetIncrease(c) =
                IF call[c].fee <= PreviousReservation(call[c].existing) THEN 0
                ELSE call[c].fee - PreviousReservation(call[c].existing)
           /\ Reservation(c).fee = PreviousReservation(call[c].existing) + BudgetIncrease(c)
<1> DEFINE p == PreviousReservation(call[c].existing)
           f == call[c].fee
<1>1. f \in Nat /\ call[c].existing \in Sponsorship \cup {None}
  <2>1. call[c] \in Call /\ f \in Fees
    BY DEF TypeOK, CallsNamed
  <2> QED
    BY <2>1, PaymasterAssumption DEF Call
<1>2. p \in Nat
  BY <1>1, PaymasterAssumption DEF PreviousReservation, Sponsorship
<1> HIDE DEF p
<1>3. Max({0, f - p}) = IF 0 <= f - p THEN f - p ELSE 0
  BY <1>1, <1>2, LargerOfTwo
<1>4. Max({p, f}) = IF p <= f THEN f ELSE p
  BY <1>1, <1>2, LargerOfTwo
<1>5. BudgetIncrease(c) = Max({0, f - p}) /\ Reservation(c).fee = Max({p, f})
  BY DEF BudgetIncrease, Reservation, p
<1> HIDE DEF f
<1>6. BudgetIncrease(c) = IF f <= p THEN 0 ELSE f - p
  BY <1>1, <1>2, <1>3, <1>5
<1>7. Reservation(c).fee = p + BudgetIncrease(c)
  BY <1>1, <1>2, <1>4, <1>5, <1>6
<1> QED
  BY <1>1, <1>2, <1>6, <1>7 DEF p, f

\* A document that is written is one, and it is never smaller than before.
LEMMA ReservationType ==
    ASSUME TypeOK, CallsNamed, NEW c \in Calls, ~At(c, "idle")
    PROVE  Reservation(c) \in Sponsorship
<1> DEFINE p == PreviousReservation(call[c].existing)
           f == call[c].fee
<1>1. f \in Fees /\ call[c].existing \in Sponsorship \cup {None} /\ Fees \subseteq Nat \ {0}
  <2>1. call[c] \in Call /\ f \in Fees
    BY DEF TypeOK, CallsNamed
  <2> QED
    BY <2>1, PaymasterAssumption DEF Call
<1>2. p \in Fees \cup {0}
  BY <1>1 DEF PreviousReservation, Sponsorship
<1>3. Reservation(c).fee = IF p <= f THEN f ELSE p
  <2> HIDE DEF p, f
  <2>1. Max({p, f}) = IF p <= f THEN f ELSE p
    BY <1>1, <1>2, LargerOfTwo
  <2> QED
    BY <2>1 DEF Reservation, p, f
<1>4. Reservation(c).fee \in Fees
  <2> HIDE DEF p, f
  <2> QED BY <1>1, <1>2, <1>3
<1>5. Reservation(c).v \in Nat
  BY <1>1 DEF Reservation, Sponsorship
<1> QED
  BY <1>4, <1>5 DEF Reservation, Sponsorship

\* How the sums change with one call, and with one document.
LEMMA ChargingStep ==
    ASSUME TypeOK, TypeOK', NEW c \in Calls,
           \A d \in Calls \ {c} : call'[d] = call[d]
    PROVE  /\ TotalCharging \in Nat /\ TotalCharging' \in Nat
           /\ Charging(c) \in Nat /\ Charging(c)' \in Nat
           /\ Charging(c) <= TotalCharging
           /\ TotalCharging' = TotalCharging - Charging(c) + Charging(c)'
<1> DEFINE f == [d \in Calls |-> Charging(d)]
           h == [d \in Calls |-> Charging(d)']
<1>1. f \in [Calls -> Nat] /\ h \in [Calls -> Nat]
  BY DEF TypeOK, Charging, Call
<1>2. \A d \in Calls \ {c} : h[d] = f[d]
  BY DEF Charging
<1>3. TotalCharging = SumFunction(f) /\ TotalCharging' = SumFunction(h)
  BY DEF TotalCharging
<1>4. f[c] = Charging(c) /\ h[c] = Charging(c)' /\ f[c] \in Nat /\ h[c] \in Nat
  BY <1>1
<1> HIDE DEF f, h
<1>5. SumFunction(f) \in Nat /\ SumFunction(h) \in Nat
  BY <1>1, SumIsNat, PaymasterAssumption
<1>6. SumFunction(h) = SumFunction(f) - f[c] + h[c] /\ f[c] <= SumFunction(f)
  BY <1>1, <1>2, SumUpdate, PaymasterAssumption
<1> QED
  BY <1>3, <1>4, <1>5, <1>6

LEMMA ChargingIsPart ==
    ASSUME TypeOK, NEW c \in Calls
    PROVE  TotalCharging \in Nat /\ Charging(c) <= TotalCharging
<1> DEFINE f == [d \in Calls |-> Charging(d)]
<1>1. f \in [Calls -> Nat] /\ f[c] = Charging(c)
  BY DEF TypeOK, Charging, Call
<1>2. TotalCharging = SumFunction(f)
  BY DEF TotalCharging
<1> HIDE DEF f
<1>3. \A x \in Calls \ {c} : f[x] = f[x]
  OBVIOUS
<1> QED
  BY <1>1, <1>2, <1>3, SumIsNat, SumUpdate, PaymasterAssumption

LEMMA ChargingType == TypeOK => TotalCharging \in Nat
<1> SUFFICES ASSUME TypeOK PROVE TotalCharging \in Nat
  OBVIOUS
<1> DEFINE f == [c \in Calls |-> Charging(c)]
<1>1. f \in [Calls -> Nat] /\ TotalCharging = SumFunction(f)
  BY DEF TypeOK, Charging, Call, TotalCharging
<1> HIDE DEF f
<1> QED
  BY <1>1, SumIsNat, PaymasterAssumption

LEMMA ReservedStep ==
    ASSUME TypeOK, TypeOK', NEW t \in Tx,
           \A u \in Tx \ {t} : sponsorship'[u] = sponsorship[u]
    PROVE  /\ TotalReserved \in Nat /\ TotalReserved' \in Nat
           /\ Reserved(t) \in Nat /\ Reserved(t)' \in Nat
           /\ Reserved(t) <= TotalReserved
           /\ TotalReserved' = TotalReserved - Reserved(t) + Reserved(t)'
<1> DEFINE f == [u \in Tx |-> Reserved(u)]
           h == [u \in Tx |-> Reserved(u)']
<1>1. f \in [Tx -> Nat] /\ h \in [Tx -> Nat]
  BY PaymasterAssumption DEF TypeOK, Reserved, Sponsorship
<1>2. \A u \in Tx \ {t} : h[u] = f[u]
  BY DEF Reserved
<1>3. TotalReserved = SumFunction(f) /\ TotalReserved' = SumFunction(h)
  BY DEF TotalReserved
<1>4. f[t] = Reserved(t) /\ h[t] = Reserved(t)' /\ f[t] \in Nat /\ h[t] \in Nat
  BY <1>1
<1> HIDE DEF f, h
<1>5. SumFunction(f) \in Nat /\ SumFunction(h) \in Nat
  BY <1>1, SumIsNat, PaymasterAssumption
<1>6. SumFunction(h) = SumFunction(f) - f[t] + h[t] /\ f[t] <= SumFunction(f)
  BY <1>1, <1>2, SumUpdate, PaymasterAssumption
<1> QED
  BY <1>3, <1>4, <1>5, <1>6

LEMMA CoveredType ==
    ASSUME TypeOK
    PROVE  /\ \A t \in Tx : Covered(t) \in Nat /\ Reserved(t) \in Nat /\ Covered(t) <= Reserved(t)
           /\ TotalCovered \in Nat /\ TotalReserved \in Nat
           /\ TotalCovered <= TotalReserved
<1> DEFINE f == [u \in Tx |-> Covered(u)]
           h == [u \in Tx |-> Reserved(u)]
<1>1. ASSUME NEW t \in Tx
      PROVE  Covered(t) \in Nat /\ Reserved(t) \in Nat /\ Covered(t) <= Reserved(t)
  <2>1. sponsorship[t] = None \/ sponsorship[t].fee \in Nat
    BY PaymasterAssumption DEF TypeOK, Sponsorship
  <2>2. Covered(t) = 0 \/ (sponsorship[t] # None /\ Covered(t) = sponsorship[t].fee)
    BY DEF Covered
  <2>3. Reserved(t) = IF sponsorship[t] = None THEN 0 ELSE sponsorship[t].fee
    BY DEF Reserved
  <2> QED
    BY <2>1, <2>2, <2>3
<1>2. f \in [Tx -> Nat] /\ h \in [Tx -> Nat] /\ \A t \in Tx : f[t] <= h[t]
  BY <1>1
<1>3. TotalCovered = SumFunction(f) /\ TotalReserved = SumFunction(h)
  BY DEF TotalCovered, TotalReserved
<1> HIDE DEF f, h
<1>4. SumFunction(f) \in Nat /\ SumFunction(h) \in Nat /\ SumFunction(f) <= SumFunction(h)
  BY <1>2, SumIsNat, SumMonotone, PaymasterAssumption
<1> QED
  BY <1>1, <1>3, <1>4

LEMMA CoveredStep ==
    ASSUME TypeOK, TypeOK', NEW t \in Tx,
           \A u \in Tx \ {t} : Covered(u)' = Covered(u)
    PROVE  TotalCovered' = TotalCovered - Covered(t) + Covered(t)'
<1> DEFINE f == [u \in Tx |-> Covered(u)]
           h == [u \in Tx |-> Covered(u)']
<1>1. f \in [Tx -> Nat]
  BY CoveredType
<1>2. h \in [Tx -> Nat]
  <2>1. ASSUME NEW u \in Tx PROVE Covered(u)' \in Nat
    <3>1. sponsorship'[u] = None \/ sponsorship'[u].fee \in Nat
      BY PaymasterAssumption DEF TypeOK, Sponsorship
    <3>2. Covered(u)' = 0 \/ (sponsorship'[u] # None /\ Covered(u)' = sponsorship'[u].fee)
      BY DEF Covered
    <3> QED
      BY <3>1, <3>2
  <2> QED BY <2>1
<1>3. \A u \in Tx \ {t} : h[u] = f[u]
  OBVIOUS
<1>4. TotalCovered = SumFunction(f) /\ TotalCovered' = SumFunction(h)
  BY DEF TotalCovered
<1>5. f[t] = Covered(t) /\ h[t] = Covered(t)'
  OBVIOUS
<1> HIDE DEF f, h
<1>6. SumFunction(h) = SumFunction(f) - f[t] + h[t]
  BY <1>1, <1>2, <1>3, SumUpdate, PaymasterAssumption
<1> QED
  BY <1>4, <1>5, <1>6

-----------------------------------------------------------------------------
(* What the steps do to calls and documents.                                *)

\* A write replaces the very document the build has read, by one that is a
\* version ahead and holds what the build has charged on top of it.
LEMMA WriteIs ==
    ASSUME CallsInv, NEW c \in Calls, At(c, "save"), WriteReservation(c)
    PROVE  /\ call[c].tx \in Tx
           /\ sponsorship' \in [Tx -> Sponsorship \cup {None}]
           /\ \A u \in Tx \ {call[c].tx} : sponsorship'[u] = sponsorship[u]
           /\ sponsorship'[call[c].tx] = Reservation(c)
           /\ Reservation(c) \in Sponsorship /\ Reservation(c).status = "reserved"
           /\ sponsorship[call[c].tx] # None =>
                sponsorship[call[c].tx].v < Reservation(c).v
           /\ call[c].existing = None <=> sponsorship[call[c].tx] = None
           /\ sponsorship[call[c].tx] # None =>
                /\ call[c].existing.fee = sponsorship[call[c].tx].fee
                /\ call[c].existing.status = sponsorship[call[c].tx].status
           /\ settled' \in Nat
           /\ settled' + Reservation(c).fee
                = settled + Reserved(call[c].tx) + call[c].increase
<1> DEFINE t == call[c].tx
           old == sponsorship[t]
           existing == call[c].existing
<1>1. t \in Tx /\ Reservation(c) \in Sponsorship /\ ~At(c, "idle")
  <2>1. ~At(c, "idle")
    BY DEF At
  <2> QED
    BY <2>1, ReservationType DEF CallsInv, CallsNamed
<1>2. /\ existing \in Sponsorship \cup {None}
      /\ old \in Sponsorship \cup {None}
      /\ sponsorship \in [Tx -> Sponsorship \cup {None}]
      /\ settled \in Nat
  <2>1. call[c] \in Call
    BY DEF CallsInv, TypeOK
  <2> QED
    BY <1>1, <2>1 DEF CallsInv, TypeOK, Call
<1>3. /\ Unchanged(existing, old)
      /\ sponsorship' = [sponsorship EXCEPT ![t] = Reservation(c)]
      /\ settled' = settled + (IF existing # None /\ old.status = "submitted"
                                 THEN old.fee ELSE 0)
  BY DEF WriteReservation
<1>4. /\ existing = None <=> old = None
      /\ old # None => existing.v = old.v /\ existing.status = old.status
                       /\ existing.fee = old.fee
  <2>1. existing # None => old # None
    BY DEF CallsInv, Snapshots, At
  <2>2. existing = None => old = None
    BY <1>3 DEF Unchanged
  <2>3. old # None => existing.v = old.v /\ existing.status = old.status
    BY <1>3, <2>2 DEF Unchanged
  <2>4. old # None => existing.fee = old.fee
    BY <2>2, <2>3 DEF CallsInv, Snapshots, At
  <2> QED
    BY <2>1, <2>2, <2>3, <2>4
<1>5. old # None => old.v < Reservation(c).v
  BY <1>2, <1>4 DEF Reservation, Sponsorship
<1>6. /\ call[c].increase = BudgetIncrease(c) /\ BudgetIncrease(c) \in Nat
      /\ PreviousReservation(existing) \in Nat
      /\ Reservation(c).fee = PreviousReservation(existing) + BudgetIncrease(c)
  BY <1>1, IncreaseIs DEF CallsInv, Increases
<1>7. old = None \/ old.fee \in Nat
  BY <1>2, PaymasterAssumption DEF Sponsorship
<1>8. settled' + Reservation(c).fee = settled + Reserved(t) + call[c].increase /\ settled' \in Nat
  <2>1. CASE old = None
    <3>1. settled' = settled /\ PreviousReservation(existing) = 0 /\ Reserved(t) = 0
      BY <1>2, <1>3, <1>4, <2>1 DEF PreviousReservation, Reserved
    <3> QED
      BY <1>2, <1>6, <3>1
  <2>2. CASE old # None /\ old.status = "reserved"
    <3>1. settled' = settled /\ PreviousReservation(existing) = old.fee /\ Reserved(t) = old.fee
      BY <1>2, <1>3, <1>4, <2>2 DEF PreviousReservation, Reserved
    <3> QED
      BY <1>2, <1>6, <1>7, <3>1
  <2>3. CASE old # None /\ old.status = "submitted"
    <3>1. /\ settled' = settled + old.fee /\ PreviousReservation(existing) = 0
          /\ Reserved(t) = old.fee
      BY <1>2, <1>3, <1>4, <2>3 DEF PreviousReservation, Reserved
    <3> QED
      BY <1>2, <1>6, <1>7, <2>3, <3>1
  <2> QED
    BY <1>2, <2>1, <2>2, <2>3 DEF Sponsorship
<1>9. /\ sponsorship' \in [Tx -> Sponsorship \cup {None}]
      /\ \A u \in Tx \ {t} : sponsorship'[u] = sponsorship[u]
      /\ sponsorship'[t] = Reservation(c)
  BY <1>1, <1>2, <1>3
<1>10. Reservation(c).status = "reserved"
  BY DEF Reservation
<1> QED
  BY <1>1, <1>4, <1>5, <1>8, <1>9, <1>10

LEMMA CallsInit == Init => CallsInv
<1> SUFFICES ASSUME Init PROVE CallsInv
  OBVIOUS
<1>1. Idle \in Call
  BY DEF Idle, Call
<1>2. TypeOK
  <2>1. reserved \in 0..Budget /\ builds \in 0..MaxBuilds /\ failures \in 0..MaxFailures
    BY PaymasterAssumption DEF Init
  <2>2. executed \in Nat /\ settled \in Nat /\ lost \subseteq Losses /\ shared \in BOOLEAN
    BY DEF Init
  <2>3. sponsorship \in [Tx -> Sponsorship \cup {None}] /\ prepared \in [Tx -> Nat]
    BY DEF Init
  <2>4. call \in [Calls -> Call]
    BY <1>1 DEF Init
  <2> QED
    BY <2>1, <2>2, <2>3, <2>4 DEF TypeOK
<1> QED
  BY <1>2 DEF Init, CallsInv, CallsNamed, Snapshots, Increases, Idle, At, Executing

\* A step that changes one call and no document keeps what is known of the others.
LEMMA CallsKept ==
    ASSUME CallsInv, TypeOK', NEW c \in Calls,
           sponsorship' = sponsorship,
           \A d \in Calls \ {c} : call'[d] = call[d],
           ~At(c, "idle")' => call'[c].tx \in Tx /\ call'[c].fee \in Fees,
           Executing(c)' => sponsorship[call'[c].tx] # None,
           call'[c].pc \in {"charge", "save"} /\ call'[c].existing # None =>
              /\ sponsorship[call'[c].tx] # None
              /\ call'[c].existing.v <= sponsorship[call'[c].tx].v
              /\ call'[c].existing.v = sponsorship[call'[c].tx].v =>
                   call'[c].existing.fee = sponsorship[call'[c].tx].fee,
           At(c, "save")' => call'[c].increase = BudgetIncrease(c)'
    PROVE  CallsInv'
<1>1. ASSUME NEW d \in Calls
      PROVE  /\ (~At(d, "idle") => call[d].tx \in Tx /\ call[d].fee \in Fees)'
             /\ (Executing(d) => sponsorship[call[d].tx] # None)'
  <2>1. CASE d = c
    BY <2>1
  <2>2. CASE d # c
    BY <2>2 DEF CallsInv, CallsNamed, At, Executing
  <2> QED
    BY <2>1, <2>2
<1>2. ASSUME NEW d \in Calls, call'[d].pc \in {"charge", "save"}, call'[d].existing # None
      PROVE  /\ sponsorship[call'[d].tx] # None
             /\ call'[d].existing.v <= sponsorship[call'[d].tx].v
             /\ call'[d].existing.v = sponsorship[call'[d].tx].v =>
                  call'[d].existing.fee = sponsorship[call'[d].tx].fee
  <2>1. CASE d = c
    BY <1>2, <2>1
  <2>2. CASE d # c
    <3>1. call'[d] = call[d]
      BY <2>2
    <3> QED
      BY <1>2, <3>1 DEF CallsInv, Snapshots
  <2> QED
    BY <2>1, <2>2
<1>3. ASSUME NEW d \in Calls, At(d, "save")'
      PROVE  call'[d].increase = BudgetIncrease(d)'
  <2>1. CASE d = c
    BY <1>3, <2>1
  <2>2. CASE d # c
    <3>1. call'[d] = call[d]
      BY <2>2
    <3>2. At(d, "save") /\ BudgetIncrease(d)' = BudgetIncrease(d)
      BY <1>3, <3>1 DEF At, BudgetIncrease, PreviousReservation
    <3> QED
      BY <3>1, <3>2 DEF CallsInv, Increases
  <2> QED
    BY <2>1, <2>2
<1>4. CallsNamed'
  BY <1>1 DEF CallsNamed
<1>5. Snapshots'
  BY <1>2 DEF Snapshots
<1>6. Increases'
  BY <1>3 DEF Increases
<1> QED
  BY <1>4, <1>5, <1>6 DEF CallsInv


\* So does a step that changes neither version nor fee of a document, nor any
\* call but those it ends.
LEMMA CallsRefreshed ==
    ASSUME CallsInv, TypeOK',
           \A t \in Tx : /\ sponsorship'[t] = None <=> sponsorship[t] = None
                         /\ sponsorship[t] # None =>
                              /\ sponsorship'[t].v = sponsorship[t].v
                              /\ sponsorship'[t].fee = sponsorship[t].fee,
           \A d \in Calls : call'[d] = call[d] \/ call'[d].pc = "idle"
    PROVE  CallsInv'
<1>1. ASSUME NEW d \in Calls, call'[d].pc # "idle"
      PROVE  /\ call'[d] = call[d] /\ call[d].tx \in Tx /\ call[d].fee \in Fees
             /\ Executing(d) => sponsorship[call[d].tx] # None
             /\ BudgetIncrease(d)' = BudgetIncrease(d)
  <2>1. call'[d] = call[d]
    BY <1>1
  <2> QED
    BY <1>1, <2>1 DEF CallsInv, CallsNamed, At, BudgetIncrease, PreviousReservation
<1>2. CallsNamed'
  BY <1>1 DEF CallsNamed, At, Executing
<1>3. ASSUME NEW d \in Calls, call'[d].pc \in {"charge", "save"}, call'[d].existing # None
      PROVE  /\ sponsorship'[call'[d].tx] # None
             /\ call'[d].existing.v <= sponsorship'[call'[d].tx].v
             /\ call'[d].existing.v = sponsorship'[call'[d].tx].v =>
                  call'[d].existing.fee = sponsorship'[call'[d].tx].fee
  BY <1>1, <1>3 DEF CallsInv, Snapshots
<1>4. Snapshots'
  BY <1>3 DEF Snapshots
<1>5. Increases'
  BY <1>1 DEF CallsInv, Increases, At
<1> QED
  BY <1>2, <1>4, <1>5 DEF CallsInv

\* And one that writes the document of a build, whose version no call has read.
LEMMA CallsWrite ==
    ASSUME CallsInv, TypeOK', NEW c \in Calls, At(c, "save"), WriteReservation(c),
           \A d \in Calls \ {c} : call'[d] = call[d],
           \/ call'[c].pc = "idle"
           \/ /\ call'[c].pc = "rollback"
              /\ call'[c].tx = call[c].tx /\ call'[c].fee = call[c].fee
    PROVE  CallsInv'
<1> DEFINE t == call[c].tx
<1>1. /\ t \in Tx /\ call[c].fee \in Fees
      /\ sponsorship'[t] = Reservation(c) /\ sponsorship'[t] \in Sponsorship
      /\ sponsorship'[t] # None
      /\ sponsorship[t] # None => sponsorship[t].v < sponsorship'[t].v
      /\ \A u \in Tx \ {t} : sponsorship'[u] = sponsorship[u]
  BY WriteIs, NoneAssumption DEF CallsInv, CallsNamed, At
<1>2. ASSUME NEW d \in Calls
      PROVE  /\ (~At(d, "idle") => call[d].tx \in Tx /\ call[d].fee \in Fees)'
             /\ (Executing(d) => sponsorship[call[d].tx] # None)'
  <2>1. CASE d = c
    BY <1>1, <2>1 DEF At, Executing
  <2>2. CASE d # c
    <3>1. call'[d] = call[d]
      BY <2>2
    <3> QED
      BY <1>1, <3>1 DEF CallsInv, CallsNamed, At, Executing
  <2> QED
    BY <2>1, <2>2
<1>3. ASSUME NEW d \in Calls, call'[d].pc \in {"charge", "save"}, call'[d].existing # None
      PROVE  /\ sponsorship'[call'[d].tx] # None
             /\ call'[d].existing.v <= sponsorship'[call'[d].tx].v
             /\ call'[d].existing.v = sponsorship'[call'[d].tx].v =>
                  call'[d].existing.fee = sponsorship'[call'[d].tx].fee
  <2>1. d # c /\ call'[d] = call[d]
    BY <1>3
  <2>2. /\ call[d].tx \in Tx /\ sponsorship[call[d].tx] # None
        /\ call[d].existing.v <= sponsorship[call[d].tx].v
        /\ call[d].existing.v = sponsorship[call[d].tx].v =>
             call[d].existing.fee = sponsorship[call[d].tx].fee
    BY <1>3, <2>1 DEF CallsInv, CallsNamed, Snapshots, At
  <2>3. CASE call[d].tx # t
    BY <1>1, <2>1, <2>2, <2>3
  <2>4. CASE call[d].tx = t
    <3>1. call[d].existing.v \in Nat /\ sponsorship[t].v \in Nat /\ sponsorship'[t].v \in Nat
      <4>1. call[d] \in Call /\ sponsorship[t] \in Sponsorship
        BY <1>1, <2>2, <2>4 DEF CallsInv, TypeOK
      <4>2. call[d].existing \in Sponsorship
        BY <1>3, <2>1, <4>1 DEF Call
      <4> QED
        BY <1>1, <4>1, <4>2 DEF Sponsorship
    <3> QED
      BY <1>1, <2>1, <2>2, <2>4, <3>1
  <2> QED
    BY <2>3, <2>4
<1>4. ASSUME NEW d \in Calls, At(d, "save")'
      PROVE  call'[d].increase = BudgetIncrease(d)'
  <2>1. d # c /\ call'[d] = call[d]
    BY <1>4 DEF At
  <2> QED
    BY <1>4, <2>1 DEF CallsInv, Increases, At, BudgetIncrease, PreviousReservation
<1>5. CallsNamed' /\ Snapshots' /\ Increases'
  BY <1>2, <1>3, <1>4 DEF CallsNamed, Snapshots, Increases
<1> QED
  BY <1>5 DEF CallsInv

\* The calls: what each has read, charged and is about to write stays in step
\* with the documents through every request of every other call.
LEMMA CallsNext ==
    ASSUME CallsInv, ChargesBacked, [Next]_vars
    PROVE  CallsInv'
<1> USE DEF history
<1>0. /\ TypeOK
      /\ \A c \in Calls : call[c] \in Call
  BY DEF CallsInv, TypeOK
<1>1. ASSUME NEW c \in Calls, Build(c) PROVE CallsInv'
  <2>1. PICK t \in Tx, fee \in Fees :
          call' = [call EXCEPT ![c] = [Idle EXCEPT !.pc = "find", !.tx = t, !.fee = fee]]
    BY <1>1 DEF Build
  <2>2. [Idle EXCEPT !.pc = "find", !.tx = t, !.fee = fee] \in Call
    BY DEF Idle, Call
  <2>3. call' \in [Calls -> Call] /\ builds' \in 0..MaxBuilds
    BY <1>0, <1>1, <2>1, <2>2, PaymasterAssumption DEF TypeOK, Build
  <2>4. TypeOK' /\ sponsorship' = sponsorship
    BY <1>0, <1>1, <2>3 DEF TypeOK, Build
  <2>5. call'[c].pc = "find" /\ call'[c].tx = t /\ call'[c].fee = fee
    BY <1>0, <2>1 DEF TypeOK, Idle
  <2>6. \A d \in Calls \ {c} : call'[d] = call[d]
    BY <1>0, <2>1 DEF TypeOK
  <2> QED
    BY <2>4, <2>5, <2>6, CallsKept DEF At, Executing
<1>2. ASSUME NEW c \in Calls, Validate(c) PROVE CallsInv'
  <2>1. PICK t \in Tx :
          /\ sponsorship[t] # None
          /\ call' = [call EXCEPT ![c] = [Idle EXCEPT !.pc = "execute", !.tx = t,
                                                     !.fee = sponsorship[t].fee]]
    BY <1>2 DEF Validate
  <2>2. sponsorship[t].fee \in Fees
    BY <1>0, <2>1 DEF TypeOK, Sponsorship
  <2>3. [Idle EXCEPT !.pc = "execute", !.tx = t, !.fee = sponsorship[t].fee] \in Call
    BY <2>2 DEF Idle, Call
  <2>4. call' \in [Calls -> Call] /\ shared' \in BOOLEAN
    BY <1>0, <1>2, <2>1, <2>3 DEF TypeOK, Validate
  <2>5. TypeOK' /\ sponsorship' = sponsorship
    BY <1>0, <1>2, <2>4 DEF TypeOK, Validate
  <2>6. call'[c].pc = "execute" /\ call'[c].tx = t /\ call'[c].fee \in Fees
    BY <1>0, <2>1, <2>2 DEF TypeOK, Idle
  <2>7. \A d \in Calls \ {c} : call'[d] = call[d]
    BY <1>0, <2>1 DEF TypeOK
  <2> QED
    BY <2>1, <2>5, <2>6, <2>7, CallsKept DEF At, Executing
<1>3. ASSUME NEW c \in Calls, FindExisting(c) PROVE CallsInv'
  <2>1. /\ call[c].tx \in Tx /\ call[c].fee \in Fees
        /\ sponsorship[call[c].tx] \in Sponsorship \cup {None}
    BY <1>0, <1>3 DEF CallsInv, CallsNamed, TypeOK, FindExisting, At
  <2>2. /\ call' = [call EXCEPT ![c] = [call[c] EXCEPT !.pc = "charge",
                                          !.existing = sponsorship[call[c].tx]]]
        /\ sponsorship' = sponsorship
    BY <1>0, <1>3 DEF FindExisting, TypeOK
  <2>3. [call[c] EXCEPT !.pc = "charge", !.existing = sponsorship[call[c].tx]] \in Call
    BY <1>0, <2>1 DEF Call
  <2>4. TypeOK'
    BY <1>0, <1>3, <2>2, <2>3 DEF TypeOK, FindExisting
  <2>5. /\ call'[c].pc = "charge" /\ call'[c].tx = call[c].tx /\ call'[c].fee = call[c].fee
        /\ call'[c].existing = sponsorship[call[c].tx]
    BY <1>0, <2>2 DEF TypeOK, Call
  <2>6. \A d \in Calls \ {c} : call'[d] = call[d]
    BY <1>0, <2>2 DEF TypeOK
  <2>7. sponsorship[call[c].tx] # None => sponsorship[call[c].tx].v \in Nat
    BY <2>1 DEF Sponsorship
  <2> QED
    BY <2>1, <2>2, <2>4, <2>5, <2>6, <2>7, CallsKept DEF At, Executing
<1>4. ASSUME NEW c \in Calls, Charge(c) PROVE CallsInv'
  <2>1. /\ call[c].tx \in Tx /\ call[c].fee \in Fees /\ ~At(c, "idle")
        /\ call[c].pc = "charge" /\ sponsorship' = sponsorship
    BY <1>0, <1>4 DEF CallsInv, CallsNamed, TypeOK, Charge, At
  <2>2. BudgetIncrease(c) \in Nat
    BY <2>1, IncreaseIs DEF CallsInv
  <2>3. CASE reserved <= Budget - BudgetIncrease(c)
    <3>1. /\ call' = [call EXCEPT ![c] = [call[c] EXCEPT !.pc = "save",
                                            !.increase = BudgetIncrease(c)]]
          /\ reserved' = reserved + BudgetIncrease(c)
      BY <1>0, <1>4, <2>3 DEF Charge, TypeOK
    <3>2. [call[c] EXCEPT !.pc = "save", !.increase = BudgetIncrease(c)] \in Call
      BY <1>0, <2>2 DEF Call
    <3>3. reserved' \in 0..Budget
      BY <1>0, <2>2, <2>3, <3>1, PaymasterAssumption DEF TypeOK
    <3>4. TypeOK'
      BY <1>0, <1>4, <3>1, <3>2, <3>3 DEF TypeOK, Charge
    <3>5. /\ call'[c].pc = "save" /\ call'[c].tx = call[c].tx /\ call'[c].fee = call[c].fee
          /\ call'[c].existing = call[c].existing /\ call'[c].increase = BudgetIncrease(c)
      BY <1>0, <3>1 DEF TypeOK, Call
    <3>6. \A d \in Calls \ {c} : call'[d] = call[d]
      BY <1>0, <3>1 DEF TypeOK
    <3>7. BudgetIncrease(c)' = BudgetIncrease(c)
      BY <3>5 DEF BudgetIncrease, PreviousReservation
    <3>8. call[c].existing # None =>
             /\ sponsorship[call[c].tx] # None
             /\ call[c].existing.v <= sponsorship[call[c].tx].v
             /\ call[c].existing.v = sponsorship[call[c].tx].v =>
                  call[c].existing.fee = sponsorship[call[c].tx].fee
      BY <2>1 DEF CallsInv, Snapshots
    <3> QED
      BY <2>1, <3>4, <3>5, <3>6, <3>7, <3>8, CallsKept DEF At, Executing
  <2>4. CASE ~(reserved <= Budget - BudgetIncrease(c))
    <3>1. call' = [call EXCEPT ![c] = Idle] /\ reserved' = reserved
      BY <1>4, <2>4 DEF Charge, Return
    <3>2. Idle \in Call /\ Idle.pc = "idle"
      BY DEF Idle, Call
    <3>3. TypeOK'
      BY <1>0, <1>4, <3>1, <3>2 DEF TypeOK, Charge
    <3>4. call'[c].pc = "idle" /\ \A d \in Calls \ {c} : call'[d] = call[d]
      BY <1>0, <3>1, <3>2 DEF TypeOK
    <3> QED
      BY <2>1, <3>3, <3>4, CallsKept DEF At, Executing
  <2> QED
    BY <2>3, <2>4
<1>5. ASSUME NEW c \in Calls, SaveReservation(c) PROVE CallsInv'
  <2>1. /\ At(c, "save") /\ WriteReservation(c)
        /\ prepared' = [prepared EXCEPT ![call[c].tx] = @ + 1]
        /\ call' = [call EXCEPT ![c] = Idle]
    BY <1>5 DEF SaveReservation, Return
  <2>2. /\ call[c].tx \in Tx /\ settled' \in Nat
        /\ sponsorship' \in [Tx -> Sponsorship \cup {None}]
    BY <2>1, WriteIs
  <2>3. Idle \in Call /\ Idle.pc = "idle"
    BY DEF Idle, Call
  <2>4. prepared' \in [Tx -> Nat] /\ call' \in [Calls -> Call]
    BY <1>0, <2>1, <2>2, <2>3 DEF TypeOK
  <2>5. TypeOK'
    BY <1>0, <1>5, <2>2, <2>4 DEF TypeOK, SaveReservation
  <2>6. call'[c].pc = "idle" /\ \A d \in Calls \ {c} : call'[d] = call[d]
    BY <1>0, <2>1, <2>3 DEF TypeOK
  <2> QED
    BY <2>1, <2>5, <2>6, CallsWrite
<1>6. ASSUME NEW c \in Calls, LoseRace(c) PROVE CallsInv'
  <2>1. /\ call[c].pc = "save" /\ call[c].tx \in Tx /\ call[c].fee \in Fees
        /\ sponsorship' = sponsorship
        /\ call' = [call EXCEPT ![c] = [call[c] EXCEPT !.pc = "rollback", !.again = TRUE]]
    BY <1>0, <1>6 DEF CallsInv, CallsNamed, TypeOK, LoseRace, At
  <2>2. [call[c] EXCEPT !.pc = "rollback", !.again = TRUE] \in Call
    BY <1>0 DEF Call
  <2>3. TypeOK'
    BY <1>0, <1>6, <2>1, <2>2 DEF TypeOK, LoseRace
  <2>4. /\ call'[c].pc = "rollback" /\ call'[c].tx = call[c].tx /\ call'[c].fee = call[c].fee
        /\ \A d \in Calls \ {c} : call'[d] = call[d]
    BY <1>0, <2>1 DEF TypeOK, Call
  <2> QED
    BY <2>1, <2>3, <2>4, CallsKept DEF At, Executing
<1>7. ASSUME NEW c \in Calls, SaveFails(c) PROVE CallsInv'
  <2>1. /\ At(c, "save") /\ call[c].tx \in Tx /\ call[c].fee \in Fees
        /\ call' = [call EXCEPT ![c] = [call[c] EXCEPT !.pc = "rollback"]]
    BY <1>0, <1>7 DEF CallsInv, CallsNamed, TypeOK, SaveFails, Goto, At
  <2>2. [call[c] EXCEPT !.pc = "rollback"] \in Call
    BY <1>0 DEF Call
  <2>3. call' \in [Calls -> Call] /\ failures' \in 0..MaxFailures
    BY <1>0, <1>7, <2>1, <2>2, PaymasterAssumption DEF TypeOK, SaveFails
  <2>4. /\ call'[c].pc = "rollback" /\ call'[c].tx = call[c].tx /\ call'[c].fee = call[c].fee
        /\ \A d \in Calls \ {c} : call'[d] = call[d]
    BY <1>0, <2>1 DEF TypeOK, Call
  <2>5. CASE UNCHANGED <<sponsorship, settled, lost>>
    <3>1. TypeOK'
      BY <1>0, <1>7, <2>3, <2>5 DEF TypeOK, SaveFails
    <3> QED
      BY <2>1, <2>4, <2>5, <3>1, CallsKept DEF At, Executing
  <2>6. CASE WriteReservation(c) /\ lost' = lost \cup {"reply"}
    <3>1. settled' \in Nat /\ sponsorship' \in [Tx -> Sponsorship \cup {None}]
      BY <2>1, <2>6, WriteIs
    <3>2. lost' \subseteq Losses
      BY <1>0, <2>6 DEF TypeOK, Losses
    <3>3. TypeOK'
      BY <1>0, <1>7, <2>3, <3>1, <3>2 DEF TypeOK, SaveFails
    <3> QED
      BY <2>1, <2>4, <2>6, <3>3, CallsWrite
  <2> QED
    BY <1>7, <2>5, <2>6 DEF SaveFails
<1>8. ASSUME NEW c \in Calls, Rollback(c) PROVE CallsInv'
  <2>1. /\ call[c].pc = "rollback" /\ call[c].tx \in Tx /\ call[c].fee \in Fees
        /\ sponsorship' = sponsorship /\ reserved' = reserved - call[c].increase
        /\ call' = [call EXCEPT ![c] = AfterRollback(c)]
    BY <1>0, <1>8 DEF CallsInv, CallsNamed, TypeOK, Rollback, At
  <2>2. AfterRollback(c) \in Call
    BY <1>0 DEF AfterRollback, Idle, Call
  <2>3. /\ AfterRollback(c).pc \in {"find", "idle"}
        /\ AfterRollback(c).pc = "find" =>
             AfterRollback(c).tx = call[c].tx /\ AfterRollback(c).fee = call[c].fee
    BY <1>0 DEF AfterRollback, Idle, Call
  <2>4. reserved' \in 0..Budget
    <3>1. /\ Charging(c) = call[c].increase /\ call[c].increase \in Nat
          /\ Charging(c) <= TotalCharging /\ TotalCharging \in Nat
      BY <1>0, <2>1, ChargingIsPart DEF Charging, Call
    <3> QED
      BY <1>0, <2>1, <3>1, PaymasterAssumption DEF ChargesBacked, TypeOK
  <2>5. TypeOK'
    BY <1>0, <1>8, <2>1, <2>2, <2>4 DEF TypeOK, Rollback
  <2>6. call'[c] = AfterRollback(c) /\ \A d \in Calls \ {c} : call'[d] = call[d]
    BY <1>0, <2>1 DEF TypeOK
  <2> QED
    BY <2>1, <2>3, <2>5, <2>6, CallsKept DEF At, Executing
<1>9. ASSUME NEW c \in Calls, Execute(c) PROVE CallsInv'
  <2>1. /\ call[c].pc = "execute" /\ call[c].tx \in Tx /\ call[c].fee \in Fees
        /\ sponsorship[call[c].tx] # None
        /\ sponsorship' = sponsorship
    BY <1>0, <1>9 DEF CallsInv, CallsNamed, TypeOK, Execute, At, Executing
  <2>2. CASE Return(c) /\ UNCHANGED <<prepared, executed>>
    <3>1. call' = [call EXCEPT ![c] = Idle] /\ Idle \in Call /\ Idle.pc = "idle"
      BY <2>2 DEF Return, Idle, Call
    <3>2. TypeOK'
      BY <1>0, <1>9, <2>2, <3>1 DEF TypeOK, Execute
    <3>3. call'[c].pc = "idle" /\ \A d \in Calls \ {c} : call'[d] = call[d]
      BY <1>0, <3>1 DEF TypeOK
    <3> QED
      BY <2>1, <3>2, <3>3, CallsKept DEF At, Executing
  <2>3. CASE /\ prepared[call[c].tx] > 0
             /\ prepared' = [prepared EXCEPT ![call[c].tx] = @ - 1]
             /\ executed' = executed + call[c].fee
             /\ Goto(c, "mark")
    <3>1. call' = [call EXCEPT ![c] = [call[c] EXCEPT !.pc = "mark"]]
      BY <1>0, <2>3 DEF Goto, TypeOK
    <3>2. [call[c] EXCEPT !.pc = "mark"] \in Call
      BY <1>0 DEF Call
    <3>3. executed' \in Nat /\ prepared' \in [Tx -> Nat] /\ call' \in [Calls -> Call]
      BY <1>0, <2>1, <2>3, <3>1, <3>2, PaymasterAssumption DEF TypeOK
    <3>4. TypeOK'
      BY <1>0, <1>9, <3>3 DEF TypeOK, Execute
    <3>5. /\ call'[c].pc = "mark" /\ call'[c].tx = call[c].tx /\ call'[c].fee = call[c].fee
          /\ \A d \in Calls \ {c} : call'[d] = call[d]
      BY <1>0, <3>1 DEF TypeOK, Call
    <3> QED
      BY <2>1, <3>4, <3>5, CallsKept DEF At, Executing
  <2> QED
    BY <1>9, <2>2, <2>3 DEF Execute
<1>10. ASSUME NEW c \in Calls, MarkSubmitted(c) PROVE CallsInv'
  <2> DEFINE t == call[c].tx
  <2>1. /\ t \in Tx /\ sponsorship[t] # None /\ sponsorship[t] \in Sponsorship
        /\ call' = [call EXCEPT ![c] = Idle]
        /\ sponsorship' = IF sponsorship[t].status = "reserved"
                            THEN [sponsorship EXCEPT ![t] = [sponsorship[t] EXCEPT
                                                              !.status = "submitted"]]
                            ELSE sponsorship
    BY <1>0, <1>10 DEF CallsInv, CallsNamed, TypeOK, MarkSubmitted, Return, At, Executing
  <2>2. Idle \in Call /\ Idle.pc = "idle"
    BY DEF Idle, Call
  <2>3. [sponsorship[t] EXCEPT !.status = "submitted"] \in Sponsorship
    BY <2>1 DEF Sponsorship
  <2>4. sponsorship' \in [Tx -> Sponsorship \cup {None}] /\ call' \in [Calls -> Call]
    BY <1>0, <2>1, <2>2, <2>3 DEF TypeOK
  <2>5. TypeOK'
    BY <1>0, <1>10, <2>4 DEF TypeOK, MarkSubmitted
  <2>6. ASSUME NEW u \in Tx
        PROVE  /\ sponsorship'[u] = None <=> sponsorship[u] = None
               /\ sponsorship[u] # None => /\ sponsorship'[u].v = sponsorship[u].v
                                           /\ sponsorship'[u].fee = sponsorship[u].fee
    <3>1. \/ sponsorship'[u] = sponsorship[u]
          \/ u = t /\ sponsorship'[u] = [sponsorship[u] EXCEPT !.status = "submitted"]
      BY <1>0, <2>1 DEF TypeOK
    <3> QED
      BY <2>1, <2>3, <3>1, NoneAssumption DEF Sponsorship
  <2>7. \A d \in Calls : call'[d] = call[d] \/ call'[d].pc = "idle"
    BY <1>0, <2>1, <2>2 DEF TypeOK
  <2> QED
    BY <2>5, <2>6, <2>7, CallsRefreshed
<1>11. ASSUME NEW c \in Calls, CutShort(c) PROVE CallsInv'
  <2>1. call' = [call EXCEPT ![c] = Idle] /\ Idle \in Call /\ Idle.pc = "idle"
    BY <1>11 DEF CutShort, Return, Idle, Call
  <2>2. failures' \in 0..MaxFailures /\ lost' \subseteq Losses
    BY <1>0, <1>11, PaymasterAssumption DEF CutShort, TypeOK, Losses
  <2>3. TypeOK' /\ sponsorship' = sponsorship
    BY <1>0, <1>11, <2>1, <2>2 DEF TypeOK, CutShort
  <2>4. call'[c].pc = "idle" /\ \A d \in Calls \ {c} : call'[d] = call[d]
    BY <1>0, <2>1 DEF TypeOK
  <2> QED
    BY <2>3, <2>4, CallsKept DEF At, Executing
<1>12. CASE Expire
  <2>1. PICK t \in Tx :
          /\ sponsorship[t] # None
          /\ sponsorship' = [sponsorship EXCEPT ![t].fresh = FALSE]
    BY <1>12 DEF Expire
  <2>2. /\ sponsorship[t] \in Sponsorship
        /\ sponsorship' = [sponsorship EXCEPT ![t] = [sponsorship[t] EXCEPT !.fresh = FALSE]]
    BY <1>0, <2>1 DEF TypeOK
  <2>3. [sponsorship[t] EXCEPT !.fresh = FALSE] \in Sponsorship
    BY <2>2 DEF Sponsorship
  <2>4. sponsorship' \in [Tx -> Sponsorship \cup {None}]
    BY <1>0, <2>2, <2>3 DEF TypeOK
  <2>5. TypeOK' /\ call' = call
    BY <1>0, <1>12, <2>4 DEF TypeOK, Expire
  <2>6. ASSUME NEW u \in Tx
        PROVE  /\ sponsorship'[u] = None <=> sponsorship[u] = None
               /\ sponsorship[u] # None => /\ sponsorship'[u].v = sponsorship[u].v
                                           /\ sponsorship'[u].fee = sponsorship[u].fee
    <3>1. \/ sponsorship'[u] = sponsorship[u]
          \/ u = t /\ sponsorship'[u] = [sponsorship[u] EXCEPT !.fresh = FALSE]
      BY <1>0, <2>2 DEF TypeOK
    <3> QED
      BY <2>1, <2>2, <2>3, <3>1, NoneAssumption DEF Sponsorship
  <2> QED
    BY <2>5, <2>6, CallsRefreshed
<1>13. CASE UNCHANGED vars
  BY <1>13 DEF CallsInv, TypeOK, CallsNamed, Snapshots, Increases, At, Executing,
               BudgetIncrease, PreviousReservation, vars
<1> QED
  BY <1>1, <1>2, <1>3, <1>4, <1>5, <1>6, <1>7, <1>8, <1>9, <1>10, <1>11, <1>12, <1>13
     DEF Next, Proceed

-----------------------------------------------------------------------------
(* The purchase is charged once for each reservation.                       *)

\* Most steps of a call change nothing that is charged.
LEMMA ChargesKept ==
    ASSUME ChargesBacked, ChargedOnce, TotalCharging' = TotalCharging,
           TotalReserved' = TotalReserved, UNCHANGED <<reserved, settled, lost>>
    PROVE  ChargesBacked' /\ ChargedOnce'
BY DEF ChargesBacked, ChargedOnce, Documented

LEMMA ChargedInit == Init => ChargesBacked /\ ChargedOnce
<1> SUFFICES ASSUME Init PROVE ChargesBacked /\ ChargedOnce
  OBVIOUS
<1>1. TotalCharging = SumFunction([c \in Calls |-> 0])
  <2>1. \A c \in Calls : Charging(c) = 0
    BY DEF Init, Idle, Charging
  <2> QED
    BY <2>1 DEF TotalCharging
<1>2. TotalReserved = SumFunction([t \in Tx |-> 0])
  <2>1. \A t \in Tx : Reserved(t) = 0
    BY DEF Init, Reserved
  <2> QED
    BY <2>1 DEF TotalReserved
<1>3. TotalCharging = 0 /\ TotalReserved = 0
  BY <1>1, <1>2, SumOfZeros, PaymasterAssumption
<1> QED
  BY <1>3 DEF Init, ChargesBacked, ChargedOnce, Documented

\* A write turns what its call has charged into what is documented.
LEMMA ChargedWrite ==
    ASSUME CallsInv, CallsInv', NEW c \in Calls, At(c, "save"), WriteReservation(c),
           \A d \in Calls \ {c} : call'[d] = call[d],
           Charging(c)' \in {0, call[c].increase}
    PROVE  /\ reserved \in Nat /\ TotalCharging \in Nat /\ TotalCharging' \in Nat
           /\ TotalCharging' <= TotalCharging
           /\ Documented \in Nat /\ Documented' = Documented + Charging(c)'
<1>0. TypeOK /\ TypeOK'
  BY DEF CallsInv
<1>1. Charging(c) = call[c].increase
  BY DEF Charging, At
<1>2. /\ TotalCharging \in Nat /\ call[c].increase \in Nat /\ Charging(c)' \in Nat
      /\ call[c].increase <= TotalCharging
      /\ TotalCharging' = TotalCharging - call[c].increase + Charging(c)'
  BY <1>0, <1>1, ChargingStep
<1>3. PICK t \in Tx : t = call[c].tx
  BY WriteIs
<1>4. /\ \A u \in Tx \ {t} : sponsorship'[u] = sponsorship[u]
      /\ sponsorship'[t] = Reservation(c) /\ Reservation(c) \in Sponsorship
      /\ settled' \in Nat
      /\ settled' + Reservation(c).fee = settled + Reserved(t) + call[c].increase
  BY <1>3, WriteIs
<1>5. Reserved(t)' = Reservation(c).fee
  BY <1>4, NoneAssumption DEF Reserved
<1>6. /\ TotalReserved \in Nat /\ Reserved(t) \in Nat /\ Reserved(t)' \in Nat
      /\ TotalReserved' = TotalReserved - Reserved(t) + Reserved(t)'
  BY <1>0, <1>4, ReservedStep
<1>7. settled \in Nat /\ reserved \in Nat
  BY <1>0, PaymasterAssumption DEF TypeOK
<1>8. Documented \in Nat /\ Documented' = Documented + Charging(c)'
  BY <1>2, <1>4, <1>5, <1>6, <1>7 DEF Documented
<1>9. TotalCharging' \in Nat /\ TotalCharging' <= TotalCharging
  BY <1>2
<1> QED
  BY <1>2, <1>7, <1>8, <1>9

LEMMA ChargedNext ==
    ASSUME CallsInv, CallsInv', ChargesBacked, ChargedOnce, [Next]_vars
    PROVE  ChargesBacked' /\ ChargedOnce'
<1>0. TypeOK /\ TypeOK'
  BY DEF CallsInv
<1>s. ASSUME sponsorship' = sponsorship PROVE TotalReserved' = TotalReserved
  BY <1>s DEF TotalReserved, Reserved
<1>c. ASSUME NEW c \in Calls, \A d \in Calls \ {c} : call'[d] = call[d],
             Charging(c)' = Charging(c)
      PROVE  TotalCharging' = TotalCharging
  <2>1. /\ TotalCharging \in Nat /\ Charging(c) \in Nat
        /\ TotalCharging' = TotalCharging - Charging(c) + Charging(c)'
    BY <1>0, <1>c, ChargingStep
  <2> QED
    BY <1>c, <2>1
<1>k. ASSUME NEW c \in Calls, \A d \in Calls \ {c} : call'[d] = call[d],
             Charging(c)' = Charging(c), UNCHANGED <<reserved, sponsorship, settled, lost>>
      PROVE  ChargesBacked' /\ ChargedOnce'
  BY <1>s, <1>c, <1>k, ChargesKept
<1>1. ASSUME NEW c \in Calls, Build(c) \/ Validate(c) PROVE ChargesBacked' /\ ChargedOnce'
  <2>1. /\ call[c].pc = "idle" /\ UNCHANGED <<reserved, sponsorship, settled, lost>>
    BY <1>1 DEF Build, Validate, At, history
  <2>3. call'[c].pc \in {"find", "execute"} /\ \A d \in Calls \ {c} : call'[d] = call[d]
    <3>1. CASE Build(c)
      BY <1>0, <3>1 DEF Build, TypeOK, Idle
    <3>2. CASE Validate(c)
      BY <1>0, <3>2 DEF Validate, TypeOK, Idle
    <3> QED
      BY <1>1, <3>1, <3>2
  <2>2. Charging(c) = 0 /\ Charging(c)' = 0
    BY <2>1, <2>3 DEF Charging
  <2> QED
    BY <1>k, <2>1, <2>2, <2>3
<1>2. ASSUME NEW c \in Calls, FindExisting(c) PROVE ChargesBacked' /\ ChargedOnce'
  <2>1. /\ call[c].pc = "find" /\ UNCHANGED <<reserved, sponsorship, settled, lost>>
        /\ call'[c].pc = "charge" /\ \A d \in Calls \ {c} : call'[d] = call[d]
    BY <1>0, <1>2 DEF FindExisting, At, history, TypeOK, Call
  <2>2. Charging(c) = 0 /\ Charging(c)' = 0
    BY <2>1 DEF Charging
  <2> QED
    BY <1>k, <2>1, <2>2
<1>3. ASSUME NEW c \in Calls, Charge(c) PROVE ChargesBacked' /\ ChargedOnce'
  <2>1. call[c].pc = "charge" /\ UNCHANGED <<sponsorship, settled, lost>> /\ Charging(c) = 0
    BY <1>3 DEF Charge, At, history, Charging
  <2>2. CASE /\ reserved' = reserved + BudgetIncrease(c)
             /\ call' = [call EXCEPT ![c].pc = "save", ![c].increase = BudgetIncrease(c)]
    <3>1. /\ call'[c].pc = "save" /\ call'[c].increase = BudgetIncrease(c)
          /\ \A d \in Calls \ {c} : call'[d] = call[d]
      BY <1>0, <2>2 DEF TypeOK, Call
    <3>2. Charging(c)' = BudgetIncrease(c)
      BY <3>1 DEF Charging
    <3>3. /\ TotalCharging \in Nat /\ BudgetIncrease(c) \in Nat
          /\ TotalCharging' = TotalCharging + BudgetIncrease(c)
      BY <1>0, <2>1, <3>1, <3>2, ChargingStep
    <3>4. TotalReserved' = TotalReserved /\ TotalReserved \in Nat
      BY <1>0, <1>s, <2>1, CoveredType
    <3>5. Documented' = Documented + BudgetIncrease(c) /\ Documented \in Nat
      BY <1>0, <2>1, <3>3, <3>4 DEF Documented, TypeOK
    <3> HIDE DEF Documented
    <3>6. reserved \in Nat /\ reserved' = reserved + BudgetIncrease(c) /\ lost' = lost
      BY <1>0, <2>1, <2>2, PaymasterAssumption DEF TypeOK
    <3> QED
      BY <3>3, <3>5, <3>6 DEF ChargesBacked, ChargedOnce
  <2>3. CASE Return(c) /\ UNCHANGED reserved
    <3>1. call'[c].pc = "idle" /\ \A d \in Calls \ {c} : call'[d] = call[d]
      BY <1>0, <2>3 DEF TypeOK, Return, Idle
    <3>2. Charging(c)' = 0
      BY <3>1 DEF Charging
    <3> QED
      BY <1>k, <2>1, <2>3, <3>1, <3>2
  <2> QED
    BY <1>3, <2>2, <2>3 DEF Charge
<1>4. ASSUME NEW c \in Calls, SaveReservation(c) PROVE ChargesBacked' /\ ChargedOnce'
  <2>1. /\ At(c, "save") /\ WriteReservation(c) /\ reserved' = reserved /\ lost' = lost
        /\ call'[c].pc = "idle" /\ \A d \in Calls \ {c} : call'[d] = call[d]
    BY <1>0, <1>4 DEF SaveReservation, Return, TypeOK, Idle
  <2>2. Charging(c)' = 0
    BY <2>1 DEF Charging
  <2>3. /\ TotalCharging' <= TotalCharging /\ Documented' = Documented
        /\ TotalCharging \in Nat /\ TotalCharging' \in Nat /\ reserved \in Nat
    BY <2>1, <2>2, ChargedWrite
  <2> HIDE DEF Documented
  <2> QED
    BY <2>1, <2>3 DEF ChargesBacked, ChargedOnce
<1>5. ASSUME NEW c \in Calls, LoseRace(c) PROVE ChargesBacked' /\ ChargedOnce'
  <2>1. /\ call[c].pc = "save" /\ UNCHANGED <<reserved, sponsorship, settled, lost>>
        /\ call'[c].pc = "rollback" /\ call'[c].increase = call[c].increase
        /\ \A d \in Calls \ {c} : call'[d] = call[d]
    BY <1>0, <1>5 DEF LoseRace, At, history, TypeOK, Call
  <2>2. Charging(c)' = Charging(c)
    BY <2>1 DEF Charging
  <2> QED
    BY <1>k, <2>1, <2>2
<1>6. ASSUME NEW c \in Calls, SaveFails(c) PROVE ChargesBacked' /\ ChargedOnce'
  <2>1. /\ call[c].pc = "save" /\ reserved' = reserved
        /\ call'[c].pc = "rollback" /\ call'[c].increase = call[c].increase
        /\ \A d \in Calls \ {c} : call'[d] = call[d]
    BY <1>0, <1>6 DEF SaveFails, At, Goto, TypeOK, Call
  <2>2. Charging(c)' = Charging(c) /\ Charging(c)' = call[c].increase
    BY <2>1 DEF Charging
  <2>3. CASE UNCHANGED <<sponsorship, settled, lost>>
    BY <1>k, <2>1, <2>2, <2>3
  <2>4. CASE WriteReservation(c) /\ lost' = lost \cup {"reply"}
    <3>1. /\ TotalCharging' <= TotalCharging /\ TotalCharging' \in Nat
          /\ TotalCharging \in Nat /\ reserved \in Nat
      BY <2>1, <2>2, <2>4, ChargedWrite DEF At
    <3> QED
      BY <2>1, <2>4, <3>1 DEF ChargesBacked, ChargedOnce
  <2> QED
    BY <1>6, <2>3, <2>4 DEF SaveFails
<1>7. ASSUME NEW c \in Calls, Rollback(c) PROVE ChargesBacked' /\ ChargedOnce'
  <2>1. /\ call[c].pc = "rollback" /\ UNCHANGED <<sponsorship, settled, lost>>
        /\ reserved' = reserved - call[c].increase
        /\ call'[c].pc \in {"find", "idle"} /\ \A d \in Calls \ {c} : call'[d] = call[d]
    BY <1>0, <1>7 DEF Rollback, AfterRollback, At, history, TypeOK, Call, Idle
  <2>2. Charging(c)' = 0 /\ Charging(c) = call[c].increase
    BY <2>1 DEF Charging
  <2>3. /\ TotalCharging \in Nat /\ call[c].increase \in Nat /\ TotalCharging' \in Nat
        /\ TotalCharging' = TotalCharging - call[c].increase
    BY <1>0, <2>1, <2>2, ChargingStep
  <2>4. TotalReserved' = TotalReserved /\ TotalReserved \in Nat
    BY <1>0, <1>s, <2>1, CoveredType
  <2>5. Documented' = Documented - call[c].increase /\ Documented \in Nat
    BY <1>0, <2>1, <2>3, <2>4 DEF Documented, TypeOK
  <2>6. reserved \in Nat
    BY <1>0, PaymasterAssumption DEF TypeOK
  <2> HIDE DEF Documented
  <2> QED
    BY <2>1, <2>3, <2>5, <2>6 DEF ChargesBacked, ChargedOnce
<1>8. ASSUME NEW c \in Calls, Execute(c) PROVE ChargesBacked' /\ ChargedOnce'
  <2>1. /\ call[c].pc = "execute" /\ UNCHANGED <<reserved, sponsorship, settled, lost>>
        /\ call'[c].pc \in {"idle", "mark"} /\ \A d \in Calls \ {c} : call'[d] = call[d]
    BY <1>0, <1>8 DEF Execute, At, Return, Goto, Idle, TypeOK, Call
  <2>2. Charging(c)' = 0 /\ Charging(c) = 0
    BY <2>1 DEF Charging
  <2> QED
    BY <1>k, <2>1, <2>2
<1>9. ASSUME NEW c \in Calls, MarkSubmitted(c) PROVE ChargesBacked' /\ ChargedOnce'
  <2>1. /\ call[c].pc = "mark" /\ UNCHANGED <<reserved, settled, lost>>
        /\ call'[c].pc = "idle" /\ \A d \in Calls \ {c} : call'[d] = call[d]
    BY <1>0, <1>9 DEF MarkSubmitted, At, Return, Idle, TypeOK, history
  <2>2. Charging(c)' = 0 /\ Charging(c) = 0
    BY <2>1 DEF Charging
  <2>3. TotalCharging' = TotalCharging
    BY <1>c, <2>1, <2>2
  <2>4. call[c].tx \in Tx /\ sponsorship[call[c].tx] \in Sponsorship
    BY <2>1 DEF CallsInv, TypeOK, CallsNamed, At, Executing
  <2>5. ASSUME NEW u \in Tx PROVE Reserved(u)' = Reserved(u)
    <3>1. \/ sponsorship'[u] = sponsorship[u]
          \/ /\ sponsorship[u] \in Sponsorship
             /\ sponsorship'[u] = [sponsorship[u] EXCEPT !.status = "submitted"]
      BY <1>0, <1>9, <2>4 DEF MarkSubmitted, TypeOK
    <3> QED
      BY <3>1, NoneAssumption DEF Reserved, Sponsorship
  <2>6. TotalReserved' = TotalReserved
    BY <2>5 DEF TotalReserved
  <2> QED
    BY <2>1, <2>3, <2>6, ChargesKept
<1>10. ASSUME NEW c \in Calls, CutShort(c) PROVE ChargesBacked' /\ ChargedOnce'
  <2>1. /\ UNCHANGED <<reserved, sponsorship, settled>> /\ lost' = lost \cup {"call"}
        /\ call'[c].pc = "idle" /\ \A d \in Calls \ {c} : call'[d] = call[d]
    BY <1>0, <1>10 DEF CutShort, Return, Idle, TypeOK
  <2>2. Charging(c)' = 0
    BY <2>1 DEF Charging
  <2>3. /\ TotalCharging \in Nat /\ TotalCharging' \in Nat /\ TotalCharging' <= TotalCharging
    BY <1>0, <2>1, <2>2, ChargingStep
  <2>4. TotalReserved' = TotalReserved /\ TotalReserved \in Nat
    BY <1>0, <1>s, <2>1, CoveredType
  <2>5. reserved \in Nat /\ settled \in Nat /\ settled' = settled
    BY <1>0, <2>1, PaymasterAssumption DEF TypeOK
  <2>6. Documented' <= Documented /\ Documented' \in Nat /\ Documented \in Nat
    <3>1. /\ Documented = settled + TotalReserved + TotalCharging
          /\ Documented' = settled + TotalReserved + TotalCharging'
      BY <2>4, <2>5 DEF Documented
    <3>2. \A a, b, x, y \in Nat : y <= x => a + b + y <= a + b + x
      OBVIOUS
    <3>3. settled + TotalReserved + TotalCharging' <= settled + TotalReserved + TotalCharging
      BY <2>3, <2>4, <2>5, <3>2
    <3>4. /\ settled + TotalReserved + TotalCharging' \in Nat
          /\ settled + TotalReserved + TotalCharging \in Nat
      <4>1. \A a, b, x \in Nat : a + b + x \in Nat
        OBVIOUS
      <4> QED
        BY <2>3, <2>4, <2>5, <4>1
    <3> QED
      BY <3>1, <3>3, <3>4
  <2>7. reserved' = reserved /\ lost' # {}
    BY <2>1
  <2>8. "reply" \in lost' <=> "reply" \in lost
    BY <2>1
  <2> HIDE DEF Documented
  <2> QED
    BY <2>3, <2>5, <2>6, <2>7, <2>8 DEF ChargesBacked, ChargedOnce
<1>11. CASE Expire
  <2>1. call' = call /\ UNCHANGED <<reserved, settled, lost>>
    BY <1>11 DEF Expire, history
  <2>2. ASSUME NEW u \in Tx PROVE Reserved(u)' = Reserved(u)
    <3>1. \/ sponsorship'[u] = sponsorship[u]
          \/ /\ sponsorship[u] \in Sponsorship
             /\ sponsorship'[u] = [sponsorship[u] EXCEPT !.fresh = FALSE]
      BY <1>0, <1>11 DEF Expire, TypeOK
    <3> QED
      BY <3>1, NoneAssumption DEF Reserved, Sponsorship
  <2>3. TotalReserved' = TotalReserved
    BY <2>2 DEF TotalReserved
  <2>4. TotalCharging' = TotalCharging
    BY <2>1 DEF TotalCharging, Charging
  <2> QED
    BY <2>1, <2>3, <2>4, ChargesKept
<1>12. CASE UNCHANGED vars
  <2>1. call' = call /\ sponsorship' = sponsorship /\ UNCHANGED <<reserved, settled, lost>>
    BY <1>12 DEF vars, history
  <2>2. TotalCharging' = TotalCharging
    BY <2>1 DEF TotalCharging, Charging
  <2> QED
    BY <1>s, <2>1, <2>2, ChargesKept
<1> QED
  BY <1>1, <1>2, <1>3, <1>4, <1>5, <1>6, <1>7, <1>8, <1>9, <1>10, <1>11, <1>12 DEF Next, Proceed

-----------------------------------------------------------------------------
(* What has been executed is covered by reservations of its own.            *)

\* A write settles the reservation it replaces if that one is spent, and never
\* makes smaller one that may yet be.
LEMMA WriteSettles ==
    ASSUME CallsInv, NEW c \in Calls, At(c, "save"), WriteReservation(c),
           NEW t \in Tx, t = call[c].tx
    PROVE  /\ sponsorship[t] = None => settled' = settled
           /\ sponsorship[t] # None /\ sponsorship[t].status = "reserved" =>
                settled' = settled /\ sponsorship[t].fee <= Reservation(c).fee
           /\ sponsorship[t] # None /\ sponsorship[t].status = "submitted" =>
                settled' = settled + sponsorship[t].fee
<1>1. /\ call[c].existing = None <=> sponsorship[t] = None
      /\ settled' = settled + (IF call[c].existing # None /\ sponsorship[t].status = "submitted"
                                 THEN sponsorship[t].fee ELSE 0)
  BY WriteIs DEF WriteReservation
<1>2. settled \in Nat /\ Reservation(c) \in Sponsorship
  BY WriteIs DEF CallsInv, TypeOK
<1>3. sponsorship[t] # None => sponsorship[t].fee \in Nat
  BY PaymasterAssumption DEF CallsInv, TypeOK, Sponsorship
<1>4. sponsorship[t] = None \/ sponsorship[t].status # "submitted" => settled' = settled
  BY <1>1, <1>2
<1>5. ASSUME sponsorship[t] # None, sponsorship[t].status = "reserved"
      PROVE  sponsorship[t].fee <= Reservation(c).fee
  <2>1. /\ Reservation(c).fee = PreviousReservation(call[c].existing) + BudgetIncrease(c)
        /\ PreviousReservation(call[c].existing) \in Nat /\ BudgetIncrease(c) \in Nat
    BY IncreaseIs DEF CallsInv, At
  <2>2. call[c].existing.fee = sponsorship[t].fee /\ call[c].existing.status = "reserved"
    BY <1>5, WriteIs
  <2>3. PreviousReservation(call[c].existing) = sponsorship[t].fee
    BY <1>1, <1>5, <2>2 DEF PreviousReservation
  <2> QED
    BY <2>1, <2>3
<1> QED
  BY <1>1, <1>4, <1>5

\* Steps that neither execute nor write leave what is covered alone.
LEMMA ExecutionsKept ==
    ASSUME CallsInv, CallsInv', Executions, lost = {}, ~shared,
           UNCHANGED <<executed, settled>>,
           \A d \in Calls : /\ Executing(d)' => /\ Executing(d)
                                                /\ call'[d].tx = call[d].tx
                                                /\ call'[d].fee = call[d].fee
                            /\ At(d, "mark")' <=> At(d, "mark"),
           \A t \in Tx : /\ sponsorship'[t] = None <=> sponsorship[t] = None
                         /\ sponsorship[t] # None =>
                              /\ sponsorship'[t].fee = sponsorship[t].fee
                              /\ sponsorship'[t].status = sponsorship[t].status
    PROVE  Executions'
<1>1. \A d \in Calls : Executing(d) => call[d].tx \in Tx /\ sponsorship[call[d].tx] # None
  BY DEF CallsInv, CallsNamed, Executing, At
<1>2. ASSUME NEW t \in Tx PROVE Covered(t)' = Covered(t)
  <2>1. \A d \in Calls : At(d, "mark")' => call'[d].tx = call[d].tx
    BY DEF Executing
  <2> QED
    BY <2>1 DEF Covered
<1>3. TotalCovered' = TotalCovered
  BY <1>2 DEF TotalCovered
<1>4. \A d \in Calls : Executing(d)' => /\ sponsorship'[call'[d].tx].status = "reserved"
                                        /\ call'[d].fee <= sponsorship'[call'[d].tx].fee
  BY <1>1 DEF Executions
<1>5. \A c, d \in Calls : Executing(c)' /\ Executing(d)' /\ call'[c].tx = call'[d].tx => c = d
  BY DEF Executions
<1>6. executed' <= settled' + TotalCovered'
  BY <1>3 DEF Executions
<1> QED
  BY <1>4, <1>5, <1>6 DEF Executions

LEMMA ExecutionsInit == Init => Executions
<1> SUFFICES ASSUME Init PROVE Executions
  OBVIOUS
<1>1. CallsInv
  BY CallsInit
<1>2. TotalCovered \in Nat
  BY <1>1, CoveredType DEF CallsInv
<1>3. \A c \in Calls : ~Executing(c)
  BY DEF Init, Idle, Executing, At
<1>4. executed <= settled + TotalCovered
  BY <1>2 DEF Init
<1> QED
  BY <1>3, <1>4 DEF Executions

LEMMA ExecutionsNext ==
    ASSUME CallsInv, CallsInv', Executions, [Next]_vars
    PROVE  Executions'
<1>0. TypeOK /\ TypeOK'
  BY DEF CallsInv
<1> SUFFICES ASSUME lost' = {}, ~shared' PROVE Executions'
  BY DEF Executions
<1>a. lost \subseteq lost' /\ (shared => shared')
  <2>1. shared \in BOOLEAN
    BY <1>0 DEF TypeOK
  <2>2. CASE UNCHANGED <<lost, shared>>
    BY <2>2
  <2>3. ASSUME NEW c \in Calls, Build(c) \/ FindExisting(c) \/ Charge(c) \/ SaveReservation(c)
                                  \/ LoseRace(c) \/ Rollback(c) \/ Execute(c) \/ MarkSubmitted(c)
        PROVE  UNCHANGED <<lost, shared>>
    BY <2>3 DEF Build, FindExisting, Charge, SaveReservation, LoseRace, Rollback, Execute,
                MarkSubmitted, history
  <2>4. ASSUME NEW c \in Calls, Validate(c) \/ SaveFails(c) \/ CutShort(c)
        PROVE  lost \subseteq lost' /\ (shared => shared')
    BY <2>1, <2>4 DEF Validate, SaveFails, CutShort
  <2>5. Expire \/ UNCHANGED vars => UNCHANGED <<lost, shared>>
    BY DEF Expire, vars, history
  <2> QED
    BY <2>2, <2>3, <2>4, <2>5 DEF Next, Proceed
<1>b. lost = {} /\ ~shared
  BY <1>a
<1>e. /\ \A c \in Calls : Executing(c) =>
           /\ call[c].tx \in Tx
           /\ sponsorship[call[c].tx] # None
           /\ sponsorship[call[c].tx].status = "reserved"
           /\ call[c].fee <= sponsorship[call[c].tx].fee
      /\ \A c, d \in Calls :
           Executing(c) /\ Executing(d) /\ call[c].tx = call[d].tx => c = d
      /\ executed <= settled + TotalCovered
      /\ executed \in Nat /\ settled \in Nat /\ TotalCovered \in Nat
  <2>1. \A c \in Calls : Executing(c) => call[c].tx \in Tx /\ sponsorship[call[c].tx] # None
    BY DEF CallsInv, CallsNamed, Executing, At
  <2>2. executed \in Nat /\ settled \in Nat /\ TotalCovered \in Nat
    BY <1>0, CoveredType DEF TypeOK
  <2> QED
    BY <1>b, <2>1, <2>2 DEF Executions
<1>q. ASSUME NEW c \in Calls, UNCHANGED <<sponsorship, executed, settled>>,
             \A d \in Calls \ {c} : call'[d] = call[d],
             call'[c].pc \notin {"execute", "mark"}, call[c].pc # "mark"
      PROVE  Executions'
  BY <1>b, <1>q, ExecutionsKept DEF Executing, At
<1>1. ASSUME NEW c \in Calls, Build(c) \/ FindExisting(c) \/ Charge(c) \/ LoseRace(c)
                                \/ Rollback(c)
      PROVE  Executions'
  <2>1. UNCHANGED <<sponsorship, executed, settled>> /\ call[c].pc # "mark"
    BY <1>1 DEF Build, FindExisting, Charge, LoseRace, Rollback, At, history
  <2>2. call'[c].pc \notin {"execute", "mark"} /\ \A d \in Calls \ {c} : call'[d] = call[d]
    <3>1. CASE Build(c)
      BY <1>0, <3>1 DEF Build, TypeOK, Idle
    <3>2. CASE FindExisting(c)
      BY <1>0, <3>2 DEF FindExisting, TypeOK, Call
    <3>3. CASE Charge(c)
      BY <1>0, <3>3 DEF Charge, Return, Idle, TypeOK, Call
    <3>4. CASE LoseRace(c)
      BY <1>0, <3>4 DEF LoseRace, TypeOK, Call
    <3>5. CASE Rollback(c)
      BY <1>0, <3>5 DEF Rollback, AfterRollback, Idle, TypeOK, Call
    <3> QED
      BY <1>1, <3>1, <3>2, <3>3, <3>4, <3>5
  <2> QED
    BY <1>q, <2>1, <2>2
<1>2. ASSUME NEW c \in Calls, SaveFails(c) PROVE Executions'
  <2>1. UNCHANGED <<sponsorship, executed, settled>> /\ call[c].pc # "mark"
    BY <1>2 DEF SaveFails, At
  <2>2. call'[c].pc = "rollback" /\ \A d \in Calls \ {c} : call'[d] = call[d]
    BY <1>0, <1>2 DEF SaveFails, Goto, TypeOK, Call
  <2> QED
    BY <1>q, <2>1, <2>2
<1>3. ASSUME NEW c \in Calls, CutShort(c) PROVE Executions'
  BY <1>3 DEF CutShort
<1>4. ASSUME NEW c \in Calls, Validate(c) PROVE Executions'
  <2>1. PICK t \in Tx :
          /\ sponsorship[t] # None /\ sponsorship[t].status = "reserved"
          /\ call' = [call EXCEPT ![c] = [Idle EXCEPT !.pc = "execute", !.tx = t,
                                                     !.fee = sponsorship[t].fee]]
          /\ shared' = (shared \/ \E d \in Calls : Executing(d) /\ call[d].tx = t)
    BY <1>4 DEF Validate
  <2>2. /\ call'[c].pc = "execute" /\ call'[c].tx = t /\ call'[c].fee = sponsorship[t].fee
        /\ \A d \in Calls \ {c} : call'[d] = call[d]
        /\ call[c].pc = "idle" /\ UNCHANGED <<sponsorship, executed, settled>>
    BY <1>0, <1>4, <2>1 DEF TypeOK, Idle, Validate, At
  <2>3. \A d \in Calls : Executing(d) => call[d].tx # t
    BY <2>1
  <2>4. ASSUME NEW u \in Tx PROVE Covered(u)' = Covered(u)
    BY <2>2 DEF Covered, At
  <2>5. TotalCovered' = TotalCovered
    BY <2>4 DEF TotalCovered
  <2>6. sponsorship[t].fee \in Nat
    BY <1>0, <2>1, PaymasterAssumption DEF TypeOK, Sponsorship
  <2>7. \A d \in Calls : Executing(d)' => d = c \/ (Executing(d) /\ call'[d] = call[d])
    BY <2>2 DEF Executing, At
  <2> QED
    BY <1>e, <2>1, <2>2, <2>3, <2>5, <2>6, <2>7 DEF Executions
<1>5. ASSUME NEW c \in Calls, Execute(c) PROVE Executions'
  <2>1. CASE Return(c) /\ UNCHANGED <<prepared, executed>>
    <3>1. /\ call[c].pc # "mark" /\ call'[c].pc = "idle"
          /\ \A d \in Calls \ {c} : call'[d] = call[d]
          /\ UNCHANGED <<sponsorship, executed, settled>>
      BY <1>0, <1>5, <2>1 DEF Execute, Return, Idle, TypeOK, At
    <3> QED
      BY <1>q, <3>1
  <2>2. CASE executed' = executed + call[c].fee /\ Goto(c, "mark")
    <3>1. PICK t \in Tx : t = call[c].tx
      BY <1>5, <1>e DEF Execute, Executing
    <3>2. /\ call[c].pc = "execute" /\ call'[c].pc = "mark" /\ call'[c].tx = t
          /\ call'[c].fee = call[c].fee /\ \A d \in Calls \ {c} : call'[d] = call[d]
          /\ UNCHANGED <<sponsorship, settled>>
      BY <1>0, <1>5, <2>2, <3>1 DEF Execute, Goto, TypeOK, At, Call
    <3>3. /\ sponsorship[t] # None /\ sponsorship[t].status = "reserved"
          /\ call[c].fee <= sponsorship[t].fee
      BY <1>e, <3>1, <3>2 DEF Executing, At
    <3>4. \A d \in Calls : At(d, "mark") => call[d].tx # t
      BY <1>e, <3>1, <3>2 DEF Executing, At
    <3>5. Covered(t) = 0 /\ Covered(t)' = sponsorship[t].fee
      BY <3>1, <3>2, <3>3, <3>4 DEF Covered, At
    <3>6. \A u \in Tx \ {t} : Covered(u)' = Covered(u)
      BY <3>1, <3>2 DEF Covered, At
    <3>7. TotalCovered' = TotalCovered - Covered(t) + Covered(t)'
      BY <1>0, <3>6, CoveredStep
    <3>8. sponsorship[t].fee \in Nat /\ call[c].fee \in Nat
      BY <1>0, <3>2, <3>3, PaymasterAssumption DEF TypeOK, Sponsorship, CallsInv, CallsNamed, At
    <3>9. executed' <= settled' + TotalCovered'
      BY <1>e, <2>2, <3>2, <3>3, <3>5, <3>7, <3>8
    <3>10. \A d \in Calls : /\ Executing(d)' <=> Executing(d)
                            /\ call'[d].tx = call[d].tx /\ call'[d].fee = call[d].fee
      BY <3>1, <3>2 DEF Executing, At
    <3> QED
      BY <1>e, <3>2, <3>9, <3>10 DEF Executions
  <2> QED
    BY <1>5, <2>1, <2>2 DEF Execute
<1>6. ASSUME NEW c \in Calls, MarkSubmitted(c) PROVE Executions'
  <2>1. PICK t \in Tx : t = call[c].tx
    BY <1>6, <1>e DEF MarkSubmitted, Executing
  <2>2. /\ sponsorship[t] \in Sponsorship /\ sponsorship[t] # None
        /\ sponsorship[t].status = "reserved" /\ call[c].pc = "mark"
    BY <1>0, <1>6, <1>e, <2>1 DEF MarkSubmitted, Executing, TypeOK, At
  <2>3. sponsorship' = [sponsorship EXCEPT ![t] = [sponsorship[t] EXCEPT !.status = "submitted"]]
    BY <1>0, <1>6, <2>1, <2>2 DEF MarkSubmitted, TypeOK
  <2>4. /\ sponsorship'[t] # None /\ sponsorship'[t].status = "submitted"
        /\ sponsorship'[t].fee = sponsorship[t].fee
        /\ \A u \in Tx \ {t} : sponsorship'[u] = sponsorship[u]
    <3>1. [sponsorship[t] EXCEPT !.status = "submitted"] \in Sponsorship
      BY <2>2 DEF Sponsorship
    <3>2. [sponsorship[t] EXCEPT !.status = "submitted"].status = "submitted"
      BY <2>2 DEF Sponsorship
    <3>3. [sponsorship[t] EXCEPT !.status = "submitted"].fee = sponsorship[t].fee
      BY <2>2 DEF Sponsorship
    <3>4. /\ sponsorship'[t] = [sponsorship[t] EXCEPT !.status = "submitted"]
          /\ \A u \in Tx \ {t} : sponsorship'[u] = sponsorship[u]
      BY <1>0, <2>3 DEF TypeOK
    <3> QED
      BY <3>1, <3>2, <3>3, <3>4, NoneAssumption
  <2>5. /\ call'[c].pc = "idle" /\ \A d \in Calls \ {c} : call'[d] = call[d]
        /\ UNCHANGED <<executed, settled>>
    BY <1>0, <1>6 DEF MarkSubmitted, Return, Idle, TypeOK, history
  <2>6. Covered(t)' = Covered(t)
    BY <2>1, <2>2, <2>4 DEF Covered, At
  <2>7. \A u \in Tx \ {t} : Covered(u)' = Covered(u)
    BY <2>1, <2>2, <2>4, <2>5 DEF Covered, At
  <2>8. TotalCovered' = TotalCovered
    BY <2>6, <2>7 DEF TotalCovered
  <2>9. \A d \in Calls : Executing(d)' => Executing(d) /\ call'[d] = call[d] /\ call[d].tx # t
    BY <1>e, <2>1, <2>2, <2>5 DEF Executing, At
  <2> QED
    BY <1>e, <2>4, <2>5, <2>8, <2>9 DEF Executions
<1>7. ASSUME NEW c \in Calls, SaveReservation(c) PROVE Executions'
  <2>1. At(c, "save") /\ WriteReservation(c) /\ executed' = executed
    BY <1>7 DEF SaveReservation
  <2>2. PICK t \in Tx : t = call[c].tx
    BY <2>1, WriteIs
  <2>3. /\ call'[c].pc = "idle" /\ call[c].pc = "save"
        /\ \A d \in Calls \ {c} : call'[d] = call[d]
    BY <1>0, <1>7 DEF SaveReservation, Return, Idle, TypeOK, At
  <2>4. /\ \A u \in Tx \ {t} : sponsorship'[u] = sponsorship[u]
        /\ sponsorship'[t] = Reservation(c)
        /\ Reservation(c) \in Sponsorship /\ Reservation(c).status = "reserved"
        /\ settled' \in Nat
    BY <2>1, <2>2, WriteIs
  <2>5. /\ sponsorship[t] = None => settled' = settled
        /\ sponsorship[t] # None /\ sponsorship[t].status = "reserved" =>
             settled' = settled /\ sponsorship[t].fee <= Reservation(c).fee
        /\ sponsorship[t] # None /\ sponsorship[t].status = "submitted" =>
             settled' = settled + sponsorship[t].fee
    BY <2>1, <2>2, WriteSettles
  <2>6. Reservation(c).fee \in Nat /\ Reservation(c) # None
    BY <2>4, PaymasterAssumption, NoneAssumption DEF Sponsorship
  <2>7. \A d \in Calls : /\ Executing(d)' <=> Executing(d)
                         /\ Executing(d) => call'[d] = call[d]
                         /\ At(d, "mark")' <=> At(d, "mark")
                         /\ At(d, "mark") => call'[d] = call[d]
    BY <2>3 DEF Executing, At
  <2>8. \A u \in Tx \ {t} : Covered(u)' = Covered(u)
    BY <2>4, <2>7 DEF Covered
  <2>9. TotalCovered' = TotalCovered - Covered(t) + Covered(t)'
    BY <1>0, <2>8, CoveredStep
  <2>10. settled + Covered(t) <= settled' + Covered(t)' /\ Covered(t) \in Nat /\ Covered(t)' \in Nat
    <3>1. Covered(t)' = IF \E d \in Calls : At(d, "mark") /\ call[d].tx = t
                        THEN Reservation(c).fee ELSE 0
      BY <2>4, <2>6, <2>7 DEF Covered
    <3>2. sponsorship[t] # None => /\ sponsorship[t].fee \in Nat
                                   /\ sponsorship[t].status \in {"reserved", "submitted"}
      BY <1>0, PaymasterAssumption DEF TypeOK, Sponsorship
    <3>3. CASE sponsorship[t] = None
      BY <1>e, <2>5, <2>6, <3>1, <3>3 DEF Covered
    <3>4. CASE sponsorship[t] # None /\ sponsorship[t].status = "reserved"
      <4>1. Covered(t) = IF \E d \in Calls : At(d, "mark") /\ call[d].tx = t
                         THEN sponsorship[t].fee ELSE 0
        BY <3>4 DEF Covered
      <4> QED
        BY <1>e, <2>5, <2>6, <3>1, <3>2, <3>4, <4>1
    <3>5. CASE sponsorship[t] # None /\ sponsorship[t].status = "submitted"
      <4>1. Covered(t) = sponsorship[t].fee
        BY <3>5 DEF Covered
      <4> QED
        BY <1>e, <2>5, <2>6, <3>1, <3>2, <3>5, <4>1
    <3> QED
      BY <3>2, <3>3, <3>4, <3>5
  <2>11. executed' <= settled' + TotalCovered'
    BY <1>e, <2>1, <2>4, <2>9, <2>10
  <2>12. ASSUME NEW d \in Calls, Executing(d)'
         PROVE  /\ sponsorship'[call'[d].tx].status = "reserved"
                /\ call'[d].fee <= sponsorship'[call'[d].tx].fee
    <3>1. Executing(d) /\ call'[d] = call[d] /\ call[d].tx \in Tx /\ call[d].fee \in Nat
      BY <1>e, <2>7, <2>12, PaymasterAssumption DEF CallsInv, CallsNamed, Executing, At
    <3>2. CASE call[d].tx = t
      <4>1. sponsorship[t] # None /\ sponsorship[t].status = "reserved"
            /\ call[d].fee <= sponsorship[t].fee
        BY <1>e, <3>1, <3>2
      <4>2. sponsorship[t].fee \in Nat
        BY <1>0, <4>1, PaymasterAssumption DEF TypeOK, Sponsorship
      <4> QED
        BY <2>4, <2>5, <2>6, <3>1, <3>2, <4>1, <4>2
    <3>3. CASE call[d].tx # t
      BY <1>e, <2>4, <3>1, <3>3
    <3> QED
      BY <3>2, <3>3
  <2>13. \A x, y \in Calls : Executing(x)' /\ Executing(y)' /\ call'[x].tx = call'[y].tx => x = y
    BY <1>e, <2>7
  <2> QED
    BY <2>11, <2>12, <2>13 DEF Executions
<1>8. CASE Expire
  <2>1. call' = call /\ UNCHANGED <<executed, settled>>
    BY <1>8 DEF Expire, history
  <2>2. ASSUME NEW u \in Tx
        PROVE  /\ sponsorship'[u] = None <=> sponsorship[u] = None
               /\ sponsorship[u] # None => /\ sponsorship'[u].fee = sponsorship[u].fee
                                           /\ sponsorship'[u].status = sponsorship[u].status
    <3>1. \/ sponsorship'[u] = sponsorship[u]
          \/ /\ sponsorship[u] \in Sponsorship
             /\ sponsorship'[u] = [sponsorship[u] EXCEPT !.fresh = FALSE]
      BY <1>0, <1>8 DEF Expire, TypeOK
    <3> QED
      BY <3>1, NoneAssumption DEF Sponsorship
  <2> QED
    BY <1>b, <2>1, <2>2, ExecutionsKept DEF Executing, At
<1>9. CASE UNCHANGED vars
  <2>1. UNCHANGED <<call, sponsorship, executed, settled>>
    BY <1>9 DEF vars, history
  <2> QED
    BY <1>b, <2>1, ExecutionsKept DEF Executing, At
<1> QED
  BY <1>1, <1>2, <1>3, <1>4, <1>5, <1>6, <1>7, <1>8, <1>9 DEF Next, Proceed

-----------------------------------------------------------------------------

LEMMA PaymasterInvInit == Init => PaymasterInv
BY CallsInit, ChargedInit, ExecutionsInit DEF PaymasterInv

LEMMA PaymasterInvNext == PaymasterInv /\ [Next]_vars => PaymasterInv'
<1> SUFFICES ASSUME PaymasterInv, [Next]_vars PROVE PaymasterInv'
  OBVIOUS
<1>1. CallsInv'
  BY CallsNext DEF PaymasterInv
<1>2. ChargesBacked' /\ ChargedOnce' /\ Executions'
  BY <1>1, ChargedNext, ExecutionsNext DEF PaymasterInv
<1> QED
  BY <1>1, <1>2 DEF PaymasterInv

LEMMA PaymasterInvariance == Spec => []PaymasterInv
BY PaymasterInvInit, PaymasterInvNext, PTL DEF Spec

\* The budget of a purchase stays between nothing and its limit: reserveBudget
\* never charges past paymasterMaxStarterPackBudgetStrk, and a rollback never
\* takes back more than is charged, whatever other builds do meanwhile.
THEOREM PaymasterTypeCorrect == Spec => []TypeOK
<1>1. PaymasterInv => TypeOK
  BY DEF PaymasterInv, CallsInv
<1> QED
  BY <1>1, PaymasterInvariance, PTL

\* However many calls reserve the fees of however many transactions, and
\* whichever of their writes fail, lose their answer or are cut short, the
\* purchase is charged once for each reservation (reserveBudget).
THEOREM ChargedOnceCorrect == Spec => []ChargedOnce
<1>1. PaymasterInv => ChargedOnce
  BY DEF PaymasterInv
<1> QED
  BY <1>1, PaymasterInvariance, PTL

\* AVNU sponsors no more than the budget of the purchase, for any number of
\* builds and transactions, where no two executes of a transaction overlap:
\* each fee it is made to pay is covered by a reservation, kept or settled.
THEOREM WithinBudgetUnsharedCorrect == Spec => []WithinBudgetUnshared
<1>1. PaymasterInv => WithinBudgetUnshared
  <2> SUFFICES ASSUME PaymasterInv, lost = {}, ~shared PROVE executed <= Budget
    BY DEF WithinBudgetUnshared
  <2>1. executed <= settled + TotalCovered /\ reserved = Documented /\ TypeOK
    BY DEF PaymasterInv, CallsInv, Executions, ChargedOnce
  <2>2. /\ TotalCovered \in Nat /\ TotalReserved \in Nat /\ TotalCovered <= TotalReserved
    BY <2>1, CoveredType
  <2>3. TotalCharging \in Nat
    BY <2>1, ChargingType
  <2>4. reserved \in 0..Budget /\ executed \in Nat /\ settled \in Nat /\ Budget \in Nat
    BY <2>1, PaymasterAssumption DEF TypeOK
  <2>5. reserved = settled + TotalReserved + TotalCharging
    BY <2>1 DEF Documented
  <2> QED
    BY <2>1, <2>2, <2>3, <2>4, <2>5
<1> QED
  BY <1>1, PaymasterInvariance, PTL

=============================================================================
