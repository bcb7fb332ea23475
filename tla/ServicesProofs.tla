--------------------------- MODULE ServicesProofs ---------------------------
(***************************************************************************)
(* Theorems about the services beside the event pipeline: what the stored  *)
(* status of an order may become, when the faucet pays, what the mail      *)
(* worker sends and removes, and what the packed data of the lots shows.   *)
(***************************************************************************)
EXTENDS Services, NatLemmas, SequenceTheorems, FiniteSetTheorems

-----------------------------------------------------------------------------
(* Orders at Banxa.                                                         *)

Settled == DOMAIN Reported \ {"pendingPayment"}
Statuses == {"checkout_created", "pending"} \cup Final

\* A final status was heard of after the order had settled, and says how.
Heard(status) == status \in Final => banxa \in Settled /\ status = Reported[banxa]

PollInv(poll) ==
  /\ poll.stage \in {"idle", "loaded", "answered"}
  /\ poll.stage # "idle" =>
       banxa # NoOrder /\ poll.loaded \in Statuses /\ Heard(poll.loaded)
  /\ poll.stage = "answered" =>
       /\ poll.answer \in {"pending"} \cup Final /\ Heard(poll.answer)
       /\ poll.loaded \in Final => poll.answer = poll.loaded

BanxaTypeOK ==
  /\ banxa \in DOMAIN Reported \cup {NoOrder}
  /\ order \in Statuses \cup {NoOrder}
  /\ order # NoOrder => banxa # NoOrder
  /\ polls \in [Pollers -> [stage : {"idle", "loaded", "answered"},
                            loaded : Statuses \cup {NoOrder},
                            answer : Statuses \cup {NoOrder}]]

BanxaInv == BanxaTypeOK /\ Heard(order) /\ \A p \in Pollers : PollInv(polls[p])

\* What SettledKept asks of a step.
OrderKept == order \in Final /\ order' # order => writer'.loaded = "checkout_created"

LEMMA BanxaInitial == BanxaInit => BanxaInv
<1> SUFFICES ASSUME BanxaInit PROVE BanxaInv
  OBVIOUS
<1>1. Nobody \in [stage : {"idle", "loaded", "answered"}, loaded : Statuses \cup {NoOrder},
                  answer : Statuses \cup {NoOrder}]
  BY DEF Nobody, NoOrder, Statuses
<1>2. BanxaTypeOK
  BY <1>1 DEF BanxaInit, BanxaTypeOK
<1>3. Heard(order)
  BY DEF BanxaInit, Heard, NoOrder, Final
<1>4. ASSUME NEW p \in Pollers PROVE PollInv(polls[p])
  BY DEF BanxaInit, PollInv, Nobody
<1> QED
  BY <1>2, <1>3, <1>4 DEF BanxaInv

\* The status of the order changes at Banxa before it is settled, and only then.
LEMMA HeardStays ==
    ASSUME BanxaTypeOK, banxa' = banxa \/ banxa \notin Settled, NEW status, Heard(status)
    PROVE  Heard(status)'
BY DEF Heard

LEMMA BanxaKept ==
    ASSUME BanxaInv, BanxaNext
    PROVE  BanxaInv' /\ OrderKept
<1>0. BanxaTypeOK /\ Heard(order)
  BY DEF BanxaInv
<1> DEFINE Poll == [stage : {"idle", "loaded", "answered"}, loaded : Statuses \cup {NoOrder},
                    answer : Statuses \cup {NoOrder}]
<1>1. Nobody \in Poll /\ Nobody.stage = "idle"
  BY DEF Nobody, NoOrder, Statuses
<1>2. CASE CreateAtBanxa \/ \E s \in DOMAIN Reported : BanxaSettles(s)
  <2>1. /\ banxa \notin Settled /\ UNCHANGED <<order, polls>>
        /\ banxa' \in DOMAIN Reported
    BY <1>2 DEF CreateAtBanxa, BanxaSettles, Settled, NoOrder, Reported
  <2>2. BanxaTypeOK'
    BY <1>0, <2>1 DEF BanxaTypeOK, NoOrder, Reported
  <2>3. Heard(order)'
    BY <1>0, <2>1 DEF Heard
  <2>4. ASSUME NEW p \in Pollers PROVE PollInv(polls[p])'
    BY <2>1 DEF BanxaInv, PollInv, Heard, NoOrder, Reported
  <2> QED
    BY <2>1, <2>2, <2>3, <2>4 DEF BanxaInv, OrderKept
<1>3. CASE PersistOrder
  <2>1. banxa # NoOrder /\ order = NoOrder /\ order' = "checkout_created"
        /\ banxa' = banxa /\ polls' = polls
    BY <1>3 DEF PersistOrder
  <2>2. BanxaTypeOK'
    BY <1>0, <2>1 DEF BanxaTypeOK, Statuses
  <2>3. Heard(order)' /\ OrderKept
    BY <2>1 DEF Heard, Final, OrderKept, NoOrder
  <2>4. ASSUME NEW p \in Pollers PROVE PollInv(polls[p])'
    BY <2>1 DEF BanxaInv, PollInv, Heard
  <2> QED
    BY <2>2, <2>3, <2>4 DEF BanxaInv
<1>4. ASSUME NEW p \in Pollers, BanxaPoll(p)
      PROVE  BanxaInv' /\ OrderKept
  <2>0. polls[p] \in Poll /\ PollInv(polls[p])
    BY <1>0 DEF BanxaTypeOK, BanxaInv
  <2>1. ASSUME NEW new \in Poll, polls' = [polls EXCEPT ![p] = new], banxa' = banxa,
               order' \in Statuses \cup {NoOrder}, order' # NoOrder => banxa # NoOrder,
               Heard(order'), PollInv(new)
        PROVE  BanxaInv'
    <3>1. BanxaTypeOK'
      BY <1>0, <2>1 DEF BanxaTypeOK
    <3>2. Heard(order)'
      BY <2>1 DEF Heard
    <3>3. ASSUME NEW q \in Pollers PROVE PollInv(polls[q])'
      <4>1. PollInv(polls[q]) /\ polls'[q] = IF q = p THEN new ELSE polls[q]
        BY <1>0, <2>1 DEF BanxaTypeOK, BanxaInv
      <4> QED
        BY <2>1, <4>1 DEF PollInv, Heard
    <3> QED
      BY <3>1, <3>2, <3>3 DEF BanxaInv
  <2>2. CASE LoadOrder(p)
    <3> DEFINE new == [Nobody EXCEPT !.stage = "loaded", !.loaded = order]
    <3>1. order # NoOrder /\ polls' = [polls EXCEPT ![p] = new] /\ UNCHANGED <<banxa, order>>
      BY <2>2 DEF LoadOrder
    <3>2. new \in Poll /\ new.stage = "loaded" /\ new.loaded = order /\ order \in Statuses
      BY <1>0, <3>1 DEF BanxaTypeOK, Nobody, NoOrder
    <3> HIDE DEF new
    <3>3. PollInv(new)
      BY <1>0, <3>1, <3>2 DEF PollInv, BanxaTypeOK
    <3>4. BanxaInv'
      BY <1>0, <2>1, <3>1, <3>2, <3>3 DEF BanxaTypeOK
    <3> QED
      BY <3>1, <3>4 DEF OrderKept
  <2>3. CASE AskBanxa(p)
    <3>1. /\ polls[p].stage = "loaded" /\ UNCHANGED <<banxa, order>>
          /\ \/ polls' = [polls EXCEPT ![p] = [@ EXCEPT !.stage = "answered",
                                                        !.answer = Reported[banxa]]]
             \/ polls' = [polls EXCEPT ![p] = Nobody]
      BY <2>3 DEF AskBanxa, BanxaStatus
    <3>2. CASE polls' = [polls EXCEPT ![p] = Nobody]
      <4>1. PollInv(Nobody)
        BY <1>1 DEF PollInv
      <4> QED
        BY <1>0, <1>1, <2>1, <3>1, <3>2, <4>1 DEF BanxaTypeOK, OrderKept
    <3>3. CASE polls' # [polls EXCEPT ![p] = Nobody]
      <4> DEFINE new == [polls[p] EXCEPT !.stage = "answered", !.answer = Reported[banxa]]
      <4>1. polls' = [polls EXCEPT ![p] = new]
        BY <3>1, <3>3
      <4>2. banxa \in DOMAIN Reported
        BY <1>0, <2>0, <3>1 DEF BanxaTypeOK, PollInv
      <4>3. Reported[banxa] \in {"pending"} \cup Final /\ Heard(Reported[banxa])
        BY <4>2 DEF Reported, Final, Heard, Settled
      <4>4. /\ new \in Poll /\ new.stage = "answered" /\ new.loaded = polls[p].loaded
            /\ new.answer = Reported[banxa]
        BY <2>0, <4>3 DEF Statuses
      <4> HIDE DEF new
      <4>5. PollInv(new)
        BY <2>0, <3>1, <4>3, <4>4 DEF PollInv, Heard
      <4>6. BanxaInv'
        BY <1>0, <2>1, <3>1, <4>1, <4>4, <4>5 DEF BanxaTypeOK
      <4> QED
        BY <3>1, <4>6 DEF OrderKept
    <3> QED
      BY <3>2, <3>3
  <2>4. CASE SaveOrder(p)
    <3>1. /\ polls[p].stage = "answered" /\ banxa' = banxa /\ writer' = polls[p]
          /\ order' = IF polls[p].answer = polls[p].loaded THEN order ELSE polls[p].answer
          /\ polls' = [polls EXCEPT ![p] = Nobody]
      BY <2>4 DEF SaveOrder
    <3>2. /\ polls[p].loaded \in Statuses /\ Heard(polls[p].loaded)
          /\ polls[p].answer \in {"pending"} \cup Final /\ Heard(polls[p].answer)
          /\ polls[p].loaded \in Final => polls[p].answer = polls[p].loaded
      BY <2>0, <3>1 DEF PollInv
    <3>3. PollInv(Nobody)
      BY <1>1 DEF PollInv
    <3>4. order' \in Statuses \cup {NoOrder} /\ Heard(order')
      BY <1>0, <3>1, <3>2 DEF BanxaTypeOK, Statuses
    <3>5. OrderKept
      <4>1. SUFFICES ASSUME order \in Final, order' # order
                     PROVE  polls[p].loaded = "checkout_created"
        BY <3>1 DEF OrderKept
      <4>2. polls[p].answer # polls[p].loaded /\ polls[p].answer = "pending"
        BY <1>0, <3>1, <3>2, <4>1 DEF Heard
      <4> QED
        BY <3>2, <4>2 DEF Statuses
    <3>6. order' # NoOrder => banxa # NoOrder
      BY <2>0, <3>1 DEF PollInv
    <3>7. BanxaInv'
      BY <1>1, <2>1, <3>1, <3>3, <3>4, <3>6
    <3> QED
      BY <3>5, <3>7
  <2> QED
    BY <1>4, <2>2, <2>3, <2>4 DEF BanxaPoll
<1> QED
  BY <1>2, <1>3, <1>4 DEF BanxaNext

LEMMA BanxaStutter == BanxaInv /\ UNCHANGED banxaVars => BanxaInv' /\ OrderKept
<1> SUFFICES ASSUME BanxaInv, UNCHANGED banxaVars PROVE BanxaInv' /\ OrderKept
  OBVIOUS
<1>1. UNCHANGED <<banxa, order, polls>>
  BY DEF banxaVars
<1>2. BanxaTypeOK' /\ Heard(order)'
  BY <1>1 DEF BanxaInv, BanxaTypeOK, Heard
<1>3. ASSUME NEW p \in Pollers PROVE PollInv(polls[p])'
  BY <1>1 DEF BanxaInv, PollInv, Heard
<1> QED
  BY <1>1, <1>2, <1>3 DEF BanxaInv, OrderKept

LEMMA BanxaInductive == BanxaInv /\ [Next]_vars => BanxaInv' /\ OrderKept
BY BanxaKept, BanxaStutter DEF Next, LotsStep, MailsStep, FaucetStep, BanxaStep, vars

\* A settled order goes back to pending only by a request that loaded it when no
\* request had refreshed it yet: SettledKept, however many requests overlap.
THEOREM SettledKeptCorrect == Spec => SettledKept
<1>1. Init => BanxaInv
  BY BanxaInitial DEF Init
<1>2. BanxaInv /\ [Next]_vars => BanxaInv'
  BY BanxaInductive
<1>3. BanxaInv /\ [Next]_vars =>
        [(order \in Final /\ order' # order) => (writer'.loaded = "checkout_created")]_banxaVars
  BY BanxaInductive DEF OrderKept
<1> QED
  BY <1>1, <1>2, <1>3, PTL DEF Spec, SettledKept

-----------------------------------------------------------------------------
(* The faucet.                                                              *)

ClaimRecord == [stage : {"idle", "read", "paid", "saved", "refused"},
                record : {0, 1}, lastClaimed : Nat \cup {Never}]

FaucetTypeOK ==
  /\ now \in Nat
  /\ records \in Seq(Nat)
  /\ payments \in Seq(Nat)
  /\ raced \in BOOLEAN
  /\ claim \in [Claims -> ClaimRecord]

\* What a request that is under way read is still what is stored.
Current(c) ==
  /\ claim[c].record = (IF records = <<>> THEN 0 ELSE 1)
  /\ claim[c].lastClaimed = (IF records = <<>> THEN Never ELSE records[1])

\* While requests do not overlap and are recorded, one is under way at most, and
\* once it is over the one record says when the recipient was paid last.
FaucetAlone ==
  /\ \A c, d \in InFlight : c = d
  /\ Len(records) <= 1
  /\ \A c \in InFlight : Current(c)
  /\ (\A c \in Claims : claim[c].stage # "paid") =>
       \A i \in DOMAIN payments : records # <<>> /\ payments[i] <= records[1]
  /\ \A i \in DOMAIN payments : payments[i] <= now
  /\ Spaced(payments)

FaucetInv == FaucetTypeOK /\ (raced \/ FaucetAlone)

LEMMA FaucetInitial == FaucetInit => FaucetInv
<1> SUFFICES ASSUME FaucetInit PROVE FaucetInv
  OBVIOUS
<1>1. /\ records = <<>> /\ payments = <<>> /\ now = 0 /\ raced = FALSE
      /\ \A c \in Claims : claim[c].stage = "idle"
  BY DEF FaucetInit
<1>2. FaucetTypeOK
  <2>1. claim \in [Claims -> ClaimRecord]
    BY DEF FaucetInit, ClaimRecord, NewRecord
  <2>2. records \in Seq(Nat) /\ payments \in Seq(Nat)
    BY <1>1
  <2>3. now \in Nat /\ raced \in BOOLEAN
    BY <1>1
  <2> QED
    BY <2>1, <2>2, <2>3 DEF FaucetTypeOK
<1>3. InFlight = {}
  BY <1>1 DEF InFlight
<1>4. FaucetAlone
  BY <1>1, <1>3 DEF FaucetAlone, Spaced
<1> QED
  BY <1>2, <1>4 DEF FaucetInv

LEMMA FaucetKept ==
    ASSUME FaucetInv, FaucetNext
    PROVE  FaucetInv'
<1>0. FaucetTypeOK /\ (raced \/ FaucetAlone)
  BY DEF FaucetInv
<1>1. CASE FaucetTick
  <2>1. now' = now + 1 /\ UNCHANGED <<records, claim, payments, raced>>
    BY <1>1 DEF FaucetTick
  <2>2. FaucetTypeOK'
    BY <1>0, <2>1 DEF FaucetTypeOK
  <2>3. InFlight' = InFlight
    BY <2>1 DEF InFlight
  <2>4. \A i \in DOMAIN payments : payments[i] <= now => payments[i] <= now'
    BY <1>0, <2>1 DEF FaucetTypeOK
  <2>5. FaucetAlone => FaucetAlone'
    BY <2>1, <2>3, <2>4 DEF FaucetAlone, Current, Spaced
  <2> QED
    BY <1>0, <2>1, <2>2, <2>5 DEF FaucetInv
<1>2. ASSUME NEW c \in Claims, FindRecord(c) PROVE FaucetInv'
  <2> DEFINE new == IF records = <<>>
                    THEN [stage |-> "read", record |-> NewRecord, lastClaimed |-> Never]
                    ELSE [stage |-> "read", record |-> 1, lastClaimed |-> records[1]]
  <2>1. /\ claim[c].stage = "idle" /\ claim' = [claim EXCEPT ![c] = new]
        /\ raced' = (raced \/ InFlight # {}) /\ UNCHANGED <<records, now, payments>>
    BY <1>2 DEF FindRecord
  <2>2. new \in ClaimRecord /\ new.stage = "read"
        /\ new.record = (IF records = <<>> THEN 0 ELSE 1)
        /\ new.lastClaimed = (IF records = <<>> THEN Never ELSE records[1])
    <3>1. records # <<>> => records[1] \in Nat
      BY <1>0 DEF FaucetTypeOK
    <3> QED
      BY <3>1 DEF ClaimRecord, NewRecord
  <2> HIDE DEF new
  <2>3. FaucetTypeOK'
    BY <1>0, <2>1, <2>2 DEF FaucetTypeOK
  <2>4. ASSUME ~raced' PROVE FaucetAlone'
    <3>1. FaucetAlone /\ InFlight = {}
      BY <1>0, <2>1, <2>4
    <3>2. \A d \in Claims : claim'[d] = IF d = c THEN new ELSE claim[d]
      BY <1>0, <2>1 DEF FaucetTypeOK
    <3>3. InFlight' = {c}
      BY <2>2, <3>1, <3>2 DEF InFlight
    <3>4. Current(c)'
      BY <2>1, <2>2, <3>2 DEF Current
    <3>5. \A d \in Claims : claim[d].stage # "paid"
      BY <3>1 DEF InFlight
    <3> QED
      BY <2>1, <3>1, <3>3, <3>4, <3>5 DEF FaucetAlone, Spaced
  <2> QED
    BY <2>3, <2>4 DEF FaucetInv
<1>3. ASSUME NEW c \in Claims, NEW stage \in {"paid", "saved", "refused"},
             claim' = [claim EXCEPT ![c].stage = stage]
      PROVE  /\ claim' \in [Claims -> ClaimRecord]
             /\ claim'[c].record = claim[c].record
             /\ claim'[c].lastClaimed = claim[c].lastClaimed
             /\ \A d \in Claims : claim'[d].stage = IF d = c THEN stage ELSE claim[d].stage
             /\ \A d \in Claims \ {c} : claim'[d] = claim[d]
  <2> DEFINE new == [claim[c] EXCEPT !.stage = stage]
  <2>0. claim[c] \in ClaimRecord
    BY <1>0 DEF FaucetTypeOK
  <2>1. new \in ClaimRecord /\ new.stage = stage /\ new.record = claim[c].record
        /\ new.lastClaimed = claim[c].lastClaimed
    BY <2>0 DEF ClaimRecord
  <2>2. claim' = [claim EXCEPT ![c] = new]
    BY <1>3
  <2> HIDE DEF new
  <2> QED
    BY <1>0, <2>1, <2>2 DEF FaucetTypeOK
<1>4. ASSUME NEW c \in Claims, claim[c].stage = "read",
             claim' = [claim EXCEPT ![c].stage = "refused"],
             UNCHANGED <<records, now, payments, raced>>
      PROVE  FaucetInv'
  <2>1. FaucetTypeOK'
    BY <1>0, <1>3, <1>4 DEF FaucetTypeOK
  <2>2. ASSUME FaucetAlone PROVE FaucetAlone'
    <3>0. InFlight = {c}
      BY <1>4, <2>2 DEF InFlight, FaucetAlone
    <3>1. InFlight' = {}
      <4>1. \A d \in Claims : claim'[d].stage = IF d = c THEN "refused" ELSE claim[d].stage
        BY <1>3, <1>4
      <4>2. \A d \in Claims \ {c} : claim[d].stage \notin {"read", "paid"}
        BY <3>0 DEF InFlight
      <4> QED
        BY <4>1, <4>2 DEF InFlight
    <3>2. \A d \in Claims : claim[d].stage # "paid"
      BY <1>4, <2>2 DEF InFlight, FaucetAlone
    <3> QED
      BY <1>4, <2>2, <3>1, <3>2 DEF FaucetAlone, Spaced
  <2> QED
    BY <1>0, <1>4, <2>1, <2>2 DEF FaucetInv
<1>5. ASSUME NEW c \in Claims, Transfer(c) PROVE FaucetInv'
  <2>1. CASE UNCHANGED payments /\ claim' = [claim EXCEPT ![c].stage = "refused"]
    BY <1>4, <1>5, <2>1 DEF Transfer
  <2>2. CASE claim' = [claim EXCEPT ![c].stage = "paid"] /\ payments' = Append(payments, now)
    <3>1. claim[c].stage = "read" /\ ~TooRecent(c) /\ UNCHANGED <<records, now, raced>>
      BY <1>5 DEF Transfer
    <3>2. FaucetTypeOK'
      <4>1. payments' \in Seq(Nat)
        BY <1>0, <2>2 DEF FaucetTypeOK
      <4>2. claim' \in [Claims -> ClaimRecord]
        BY <1>3, <2>2
      <4> QED
        BY <1>0, <3>1, <4>1, <4>2 DEF FaucetTypeOK
    <3>3. ASSUME FaucetAlone PROVE FaucetAlone'
      <4>1. InFlight = {c} /\ InFlight' = {c}
        BY <1>3, <2>2, <3>1, <3>3 DEF InFlight, FaucetAlone
      <4>2. Current(c) /\ Current(c)'
        BY <1>3, <2>2, <3>1, <3>3, <4>1 DEF FaucetAlone, Current
      <4>3. \A i \in DOMAIN payments : now - payments[i] >= Interval
        <5>1. SUFFICES ASSUME NEW i \in DOMAIN payments PROVE now - payments[i] >= Interval
          OBVIOUS
        <5>2. records # <<>> /\ payments[i] <= records[1]
          BY <3>1, <3>3, <4>1 DEF FaucetAlone, InFlight
        <5>3. records[1] \in Nat /\ payments[i] \in Nat /\ now \in Nat
          BY <1>0, <5>2 DEF FaucetTypeOK
        <5>4. now - records[1] >= Interval
          BY <3>1, <4>2, <5>2, <5>3, FaucetAssumption DEF TooRecent, Current, Never
        <5> QED
          BY <5>2, <5>3, <5>4, FaucetAssumption
      <4>4. /\ DOMAIN payments = 1..Len(payments) /\ Len(payments) \in Nat
            /\ DOMAIN payments' = 1..(Len(payments) + 1)
            /\ payments'[Len(payments) + 1] = now
            /\ \A i \in DOMAIN payments : payments'[i] = payments[i] /\ payments[i] \in Nat
        BY <1>0, <2>2 DEF FaucetTypeOK
      <4>5. Spaced(payments)'
        <5>1. SUFFICES ASSUME NEW i \in DOMAIN payments', NEW j \in DOMAIN payments', i < j
                       PROVE  payments'[j] - payments'[i] >= Interval
          BY DEF Spaced
        <5>2. i \in DOMAIN payments /\ (j \in DOMAIN payments \/ j = Len(payments) + 1)
          BY <4>4, <5>1
        <5> QED
          BY <3>3, <4>3, <4>4, <5>1, <5>2 DEF FaucetAlone, Spaced
      <4>6. \A i \in DOMAIN payments' : payments'[i] <= now
        BY <1>0, <3>3, <4>4 DEF FaucetAlone, FaucetTypeOK
      <4>7. claim'[c].stage = "paid"
        BY <1>3, <2>2
      <4> QED
        BY <3>1, <3>3, <4>1, <4>2, <4>5, <4>6, <4>7 DEF FaucetAlone
    <3> QED
      BY <1>0, <3>1, <3>2, <3>3 DEF FaucetInv
  <2> QED
    BY <1>5, <2>1, <2>2 DEF Transfer
<1>6. ASSUME NEW c \in Claims, SaveClaim(c) PROVE FaucetInv'
  <2>1. /\ claim[c].stage = "paid" /\ claim' = [claim EXCEPT ![c].stage = "saved"]
        /\ records' = IF claim[c].record = 0 THEN Append(records, now)
                      ELSE [records EXCEPT ![claim[c].record] = now]
        /\ UNCHANGED <<now, payments, raced>>
    BY <1>6 DEF SaveClaim, NewRecord
  <2>2. FaucetTypeOK'
    <3>1. records \in Seq(Nat) /\ now \in Nat
      BY <1>0 DEF FaucetTypeOK
    <3>2. Append(records, now) \in Seq(Nat)
      BY <3>1
    <3> DEFINE k == claim[c].record
               saved == [records EXCEPT ![k] = now]
    <3>3. saved \in Seq(Nat)
      <4>1. records \in [1..Len(records) -> Nat] /\ Len(records) \in Nat
        BY <3>1
      <4>2. saved \in [1..Len(records) -> Nat]
        BY <3>1, <4>1
      <4> HIDE DEF saved
      <4> QED
        BY <4>1, <4>2, SeqDef
    <3>5. records' \in Seq(Nat)
      BY <2>1, <3>2, <3>3
    <3>4. claim' \in [Claims -> ClaimRecord]
      BY <1>3, <2>1
    <3> QED
      BY <1>0, <2>1, <3>4, <3>5 DEF FaucetTypeOK
  <2>3. ASSUME FaucetAlone PROVE FaucetAlone'
    <3>0. InFlight = {c}
      BY <2>1, <2>3 DEF InFlight, FaucetAlone
    <3>1. InFlight' = {}
      <4>1. \A d \in Claims : claim'[d].stage = IF d = c THEN "saved" ELSE claim[d].stage
        BY <1>3, <2>1
      <4>2. \A d \in Claims \ {c} : claim[d].stage \notin {"read", "paid"}
        BY <3>0 DEF InFlight
      <4> QED
        BY <4>1, <4>2 DEF InFlight
    <3>2. claim[c].record = (IF records = <<>> THEN 0 ELSE 1) /\ Len(records) <= 1
      BY <2>3, <3>0 DEF FaucetAlone, Current
    <3>3. Len(records') = 1 /\ records'[1] = now
      <4>1. records \in Seq(Nat)
        BY <1>0 DEF FaucetTypeOK
      <4>2. CASE records = <<>>
        <5>1. records' = <<now>>
          BY <2>1, <3>2, <4>2
        <5> QED
          BY <5>1
      <4>3. CASE records # <<>>
        <5>1. records' = [records EXCEPT ![1] = now]
          BY <2>1, <3>2, <4>3
        <5>2. Len(records) = 1
          <6>1. \A n \in Nat \ {0} : n <= 1 => n = 1
            OBVIOUS
          <6>2. Len(records) \in Nat \ {0}
            BY <4>1, <4>3, EmptySeq
          <6> QED
            BY <3>2, <6>1, <6>2
        <5> QED
          BY <4>1, <5>1, <5>2
      <4> QED
        BY <4>2, <4>3
    <3> QED
      BY <2>1, <2>3, <3>1, <3>3 DEF FaucetAlone, Spaced
  <2> QED
    BY <1>0, <2>1, <2>2, <2>3 DEF FaucetInv
<1>7. ASSUME NEW c \in Claims, ForgetClaim(c) PROVE FaucetInv'
  <2>1. /\ claim' = [claim EXCEPT ![c].stage = "refused"] /\ raced' = TRUE
        /\ UNCHANGED <<records, now, payments>>
    BY <1>7 DEF ForgetClaim
  <2> QED
    BY <1>0, <1>3, <2>1 DEF FaucetInv, FaucetTypeOK
<1>8. ASSUME NEW c \in Claims, RefuseClaim(c) PROVE FaucetInv'
  BY <1>4, <1>8 DEF RefuseClaim
<1> QED
  BY <1>1, <1>2, <1>5, <1>6, <1>7, <1>8 DEF FaucetNext

LEMMA FaucetInductive == FaucetInv /\ [Next]_vars => FaucetInv'
<1>1. FaucetInv /\ UNCHANGED faucetVars => FaucetInv'
  BY DEF FaucetInv, FaucetTypeOK, FaucetAlone, InFlight, Current, Spaced, faucetVars
<1> QED
  BY <1>1, FaucetKept DEF Next, LotsStep, MailsStep, FaucetStep, BanxaStep, vars

\* The chain pays a recipient at most once an interval, whatever the number of
\* requests, unless two of them overlap or a payment is not recorded:
\* PaidOncePerInterval.
THEOREM PaidOncePerIntervalCorrect == Spec => []PaidOncePerInterval
<1>1. Init => FaucetInv
  BY FaucetInitial DEF Init
<1>2. FaucetInv /\ [Next]_vars => FaucetInv'
  BY FaucetInductive
<1>3. FaucetInv => PaidOncePerInterval
  BY DEF FaucetInv, FaucetAlone, PaidOncePerInterval
<1> QED
  BY <1>1, <1>2, <1>3, PTL DEF Spec

-----------------------------------------------------------------------------
(* Notifications by mail.                                                   *)

Run == [stage : {"none", "collect", "send"}, todo : SUBSET Notices,
        toSend : SUBSET Notices, toPurge : SUBSET Notices]

MailTypeOK ==
  /\ notice \in [Notices -> {"none", "due", "old"}]
  /\ kind \in [Notices -> {"message", "crew"}]
  /\ user \in [Notices -> {"wanted", "typeOff", "noMail"}]
  /\ formattable \subseteq Notices
  /\ mail \in Run
  /\ mailed \in [Notices -> Nat]
  /\ submitted \in [Notices -> Nat]
  /\ failures \in Nat

\* A mail about n would be in time: submitted, or lost to a failed run, since.
Owed(n) == mailed[n] < submitted[n] + failures

\* A run is to mail only what is owed, and what is due is, but for what the run
\* has mailed already and is about to remove.
MailOwed ==
  \A n \in Notices :
    /\ n \in mail.todo \cup mail.toSend => Owed(n)
    /\ notice[n] = "due" /\ ~(mail.stage = "send" /\ n \in mail.toPurge) => Owed(n)

\* A run removes nothing that is wanted and unread before it was mailed.
PurgeMailed ==
  \A n \in mail.toPurge \cap formattable :
    n \notin read /\ user[n] = "wanted" => mailed[n] > 0

MailInv == MailTypeOK /\ MailedOnce /\ MailOwed /\ PurgeMailed /\ NothingDropped

LEMMA NoRunIsRun ==
    /\ NoRun \in Run /\ NoRun.stage = "none"
    /\ NoRun.todo = {} /\ NoRun.toSend = {} /\ NoRun.toPurge = {}
BY DEF NoRun, Run

LEMMA MailInitial == Init => MailInv
<1> SUFFICES ASSUME Init PROVE MailInv
  OBVIOUS
<1>0. MailInit
  BY DEF Init
<1>1. /\ notice = [n \in Notices |-> "none"] /\ mail = NoRun /\ failures = 0
      /\ mailed = [n \in Notices |-> 0] /\ submitted = [n \in Notices |-> 0]
  BY <1>0 DEF MailInit
<1>2. MailTypeOK
  BY <1>0, <1>1, NoRunIsRun DEF MailInit, MailTypeOK
<1>3. MailedOnce /\ MailOwed /\ PurgeMailed /\ NothingDropped
  BY <1>1, NoRunIsRun DEF MailedOnce, MailOwed, PurgeMailed, NothingDropped
<1> QED
  BY <1>2, <1>3 DEF MailInv

\* What players and time do to the notifications.
LEMMA NotifiedKept ==
    ASSUME MailInv, NEW n \in Notices,
           MessageNotified(n) \/ CrewNotified(n) \/ MessageRead(n) \/ NoticeAges(n)
    PROVE  MailInv'
<1>0. MailTypeOK
  BY DEF MailInv
<1>1. /\ UNCHANGED <<kind, user, sameAddress, formattable, mail, mailed, failures>>
      /\ read \subseteq read'
  BY DEF MessageNotified, CrewNotified, MessageRead, NoticeAges, setting
<1>2. /\ submitted' \in [Notices -> Nat]
      /\ \A m \in Notices : submitted'[m] >= submitted[m]
      /\ notice' \in [Notices -> {"none", "due", "old"}]
      /\ \A m \in Notices :
           \/ notice'[m] = "due" /\ submitted'[m] > submitted[m]
           \/ notice'[m] = "old"
           \/ notice'[m] = notice[m] /\ submitted'[m] = submitted[m]
  <2>1. submitted \in [Notices -> Nat] /\ notice \in [Notices -> {"none", "due", "old"}]
    BY <1>0 DEF MailTypeOK
  <2>2. CASE MessageNotified(n)
    <3>1. /\ notice' = [notice EXCEPT ![n] = "due"]
          /\ submitted' = [submitted EXCEPT ![n] = submitted[n] + 1]
      BY <2>2 DEF MessageNotified
    <3> QED
      BY <2>1, <3>1
  <2>3. CASE CrewNotified(n)
    <3>1. /\ notice' = [notice EXCEPT ![n] = "due"] /\ submitted[n] = 0
          /\ submitted' = [submitted EXCEPT ![n] = 1]
      BY <2>3 DEF CrewNotified
    <3> QED
      BY <2>1, <3>1
  <2>4. CASE MessageRead(n) \/ NoticeAges(n)
    <3>1. submitted' = submitted /\ (notice' = notice \/ notice' = [notice EXCEPT ![n] = "old"])
      BY <2>4 DEF MessageRead, NoticeAges
    <3> QED
      BY <2>1, <3>1
  <2> QED
    BY <2>2, <2>3, <2>4
<1>3. MailTypeOK'
  BY <1>0, <1>1, <1>2 DEF MailTypeOK
<1>4. \A m \in Notices : /\ submitted[m] \in Nat /\ submitted'[m] \in Nat /\ mailed[m] \in Nat
                         /\ mailed'[m] = mailed[m] /\ failures \in Nat /\ failures' = failures
  BY <1>0, <1>1, <1>2 DEF MailTypeOK
<1>5. MailedOnce'
  BY <1>2, <1>4 DEF MailInv, MailedOnce
<1>6. \A m \in Notices : /\ Owed(m) => Owed(m)'
                         /\ submitted'[m] > submitted[m] => Owed(m)'
  BY <1>2, <1>4 DEF MailInv, MailedOnce, Owed
<1>7. MailOwed'
  BY <1>1, <1>2, <1>6 DEF MailInv, MailOwed
<1>8. PurgeMailed'
  BY <1>1 DEF MailInv, PurgeMailed
<1>9. NothingDropped'
  <2>1. SUFFICES ASSUME NEW m \in formattable, submitted'[m] > 0,
                        notice'[m] = "none", m \notin read', user[m] = "wanted"
                 PROVE  mailed[m] > 0
    BY <1>1 DEF NothingDropped
  <2>2. notice[m] = "none" /\ submitted'[m] = submitted[m] /\ m \notin read
    BY <1>0, <1>1, <1>2, <2>1 DEF MailTypeOK
  <2> QED
    BY <2>1, <2>2 DEF MailInv, NothingDropped
<1> QED
  BY <1>3, <1>5, <1>7, <1>8, <1>9 DEF MailInv

\* What the worker does, and a failure of it.
LEMMA WorkerKept ==
    ASSUME MailInv, MailStep \/ MailFails
    PROVE  MailInv'
<1>0. MailTypeOK /\ MailedOnce /\ MailOwed /\ PurgeMailed /\ NothingDropped
  BY DEF MailInv
<1>1. UNCHANGED <<kind, user, sameAddress, formattable, read, submitted>>
  BY DEF MailStep, MailFails, GetNotificationsToProcess, GroupAndFilter, SendNotifications,
     PurgeNotifications, setting
<1>2. \A n \in Notices : mailed[n] \in Nat /\ submitted[n] \in Nat /\ failures \in Nat
  BY <1>0 DEF MailTypeOK
<1>3. ASSUME notice' = notice, mailed' = mailed, failures' = failures, mail' \in Run,
             MailOwed',
             \A n \in mail'.toPurge \ mail.toPurge : n \in read \/ user[n] # "wanted"
      PROVE  MailInv'
  <2>1. MailTypeOK'
    BY <1>0, <1>1, <1>3 DEF MailTypeOK
  <2>2. MailedOnce' /\ NothingDropped'
    BY <1>0, <1>1, <1>3 DEF MailedOnce, NothingDropped
  <2>3. PurgeMailed'
    BY <1>0, <1>1, <1>3 DEF PurgeMailed
  <2> QED
    BY <1>3, <2>1, <2>2, <2>3 DEF MailInv
<1>4. CASE GetNotificationsToProcess
  <2> DEFINE new == [NoRun EXCEPT !.stage = "collect", !.todo = DueNotices]
  <2>1. mail.stage = "none" /\ mail' = new /\ UNCHANGED <<notice, mailed, failures>>
    BY <1>4 DEF GetNotificationsToProcess
  <2>2. /\ new \in Run /\ new.stage = "collect" /\ new.todo = DueNotices
        /\ new.toSend = {} /\ new.toPurge = {}
    BY DEF NoRun, Run, DueNotices
  <2> HIDE DEF new
  <2>3. MailOwed'
    BY <1>0, <1>1, <2>1, <2>2 DEF MailOwed, Owed, DueNotices
  <2> QED
    BY <1>3, <2>1, <2>2, <2>3
<1>5. ASSUME NEW n \in Notices, GroupAndFilter(n) PROVE MailInv'
  <2> DEFINE new == [mail EXCEPT
                       !.todo = @ \ {n},
                       !.toSend = IF n \notin read /\ user[n] = "wanted" THEN @ \cup {n} ELSE @,
                       !.toPurge = IF n \in read \/ user[n] = "noMail" THEN @ \cup {n} ELSE @]
  <2>1. /\ mail.stage = "collect" /\ n \in mail.todo /\ UNCHANGED <<notice, mailed, failures>>
        /\ mail' = NoRun \/ mail' = new
    BY <1>5 DEF GroupAndFilter
  <2>2. /\ new \in Run /\ new.stage = "collect" /\ new.todo \subseteq mail.todo
        /\ new.toSend \subseteq mail.toSend \cup {n}
        /\ new.toPurge = IF n \in read \/ user[n] = "noMail" THEN mail.toPurge \cup {n}
                                                              ELSE mail.toPurge
    BY <1>0, <2>1 DEF MailTypeOK, Run
  <2> HIDE DEF new
  <2>3. \A m \in Notices : /\ m \in mail'.todo \cup mail'.toSend => m \in mail.todo \cup mail.toSend
                           /\ mail'.stage # "send"
    BY <2>1, <2>2, NoRunIsRun
  <2>4. MailOwed'
    BY <1>0, <1>1, <2>1, <2>3 DEF MailOwed, Owed
  <2>5. \A m \in mail'.toPurge \ mail.toPurge : m \in read \/ user[m] # "wanted"
    BY <2>1, <2>2, NoRunIsRun
  <2>6. mail' \in Run
    BY <2>1, <2>2, NoRunIsRun
  <2> QED
    BY <1>3, <2>1, <2>4, <2>5, <2>6
<1>6. ASSUME NEW n \in Notices, SendNotifications(n) PROVE MailInv'
  <2> DEFINE sent == SameMail(n) \cap formattable
             new == [mail EXCEPT !.stage = "send", !.toSend = @ \ SameMail(n),
                                 !.toPurge = IF sent = {} THEN @ ELSE @ \cup SameMail(n)]
  <2>1. /\ mail.todo = {} /\ n \in mail.toSend /\ UNCHANGED <<notice, failures>>
        /\ mailed' = [m \in Notices |-> IF m \in sent THEN mailed[m] + 1 ELSE mailed[m]]
        /\ mail' = new
    BY <1>6 DEF SendNotifications, Collected
  <2>2. SameMail(n) \subseteq mail.toSend
    BY <2>1 DEF SameMail
  <2>3. /\ new \in Run /\ new.stage = "send" /\ new.todo = {}
        /\ new.toSend = mail.toSend \ SameMail(n)
        /\ new.toPurge = IF sent = {} THEN mail.toPurge ELSE mail.toPurge \cup SameMail(n)
    BY <1>0, <2>1, <2>2 DEF MailTypeOK, Run
  <2> HIDE DEF new
  <2>4. sent \subseteq mail.toSend /\ sent \subseteq Notices
        /\ (sent = {} \/ sent \subseteq new.toPurge)
    BY <1>0, <2>2, <2>3 DEF MailTypeOK
  <2>5. \A m \in Notices : mailed'[m] = IF m \in sent THEN mailed[m] + 1 ELSE mailed[m]
    BY <2>1
  <2>6. MailTypeOK'
    <3>1. mailed' \in [Notices -> Nat]
      BY <1>2, <2>1
    <3> QED
      BY <1>0, <1>1, <2>1, <2>3, <3>1 DEF MailTypeOK
  <2>7. MailedOnce'
    <3>1. SUFFICES ASSUME NEW m \in Notices PROVE mailed'[m] <= submitted[m] + failures
      BY <1>1, <2>1 DEF MailedOnce
    <3>2. m \in sent => mailed[m] < submitted[m] + failures
      BY <1>0, <2>4 DEF MailOwed, Owed
    <3>3. mailed[m] <= submitted[m] + failures
      BY <1>0 DEF MailedOnce
    <3> HIDE DEF sent
    <3> QED
      BY <1>2, <2>5, <3>2, <3>3
  <2>8. MailOwed'
    <3>1. SUFFICES ASSUME NEW m \in Notices,
                          m \in new.toSend \/ (notice[m] = "due" /\ m \notin new.toPurge)
                   PROVE  Owed(m)'
      BY <2>1, <2>3 DEF MailOwed
    <3>2. m \notin sent
      BY <2>2, <2>3, <2>4, <3>1
    <3>3. mail.stage = "send" /\ m \in mail.toPurge => m \in mail.toSend
      BY <2>3, <3>1
    <3>4. Owed(m)
      BY <1>0, <2>3, <3>1, <3>3 DEF MailOwed
    <3> HIDE DEF sent
    <3> QED
      BY <1>1, <2>1, <2>5, <3>2, <3>4 DEF Owed
  <2>9. PurgeMailed'
    <3>1. SUFFICES ASSUME NEW m \in new.toPurge \cap formattable, m \notin read, user[m] = "wanted"
                   PROVE  mailed'[m] > 0
      BY <1>1, <2>1 DEF PurgeMailed
    <3>2. m \in Notices /\ (m \in sent \/ m \in mail.toPurge)
      BY <1>0, <2>3, <3>1 DEF MailTypeOK
    <3>3. m \in mail.toPurge => mailed[m] > 0
      BY <1>0, <3>1 DEF PurgeMailed
    <3> HIDE DEF sent
    <3> QED
      BY <1>2, <2>5, <3>2, <3>3
  <2>10. NothingDropped'
    <3> HIDE DEF sent
    <3>1. \A m \in formattable : mailed[m] > 0 => mailed'[m] > 0
      BY <1>0, <1>2, <2>5 DEF MailTypeOK
    <3> QED
      BY <1>0, <1>1, <2>1, <3>1 DEF NothingDropped
  <2> QED
    BY <2>6, <2>7, <2>8, <2>9, <2>10 DEF MailInv
<1>7. CASE PurgeNotifications
  <2>1. /\ mail' = NoRun /\ UNCHANGED <<mailed, failures>>
        /\ notice' = [n \in Notices |-> IF n \in mail.toPurge THEN "none" ELSE notice[n]]
    BY <1>7 DEF PurgeNotifications
  <2>2. MailTypeOK'
    <3>1. notice' \in [Notices -> {"none", "due", "old"}]
      BY <1>0, <2>1 DEF MailTypeOK
    <3> QED
      BY <1>0, <1>1, <2>1, <3>1, NoRunIsRun DEF MailTypeOK
  <2>3. MailedOnce' /\ PurgeMailed'
    BY <1>0, <1>1, <2>1, NoRunIsRun DEF MailedOnce, PurgeMailed
  <2>4. MailOwed'
    BY <1>0, <1>1, <2>1, NoRunIsRun DEF MailOwed, Owed
  <2>5. NothingDropped'
    <3>1. \A m \in formattable : m \in mail.toPurge \/ notice'[m] = notice[m]
      BY <1>0, <2>1 DEF MailTypeOK
    <3> QED
      BY <1>0, <1>1, <2>1, <3>1 DEF NothingDropped, PurgeMailed
  <2> QED
    BY <2>2, <2>3, <2>4, <2>5 DEF MailInv
<1>8. CASE MailFails
  <2>1. mail' = NoRun /\ failures' = failures + 1 /\ UNCHANGED <<notice, mailed>>
    BY <1>8 DEF MailFails
  <2>2. MailTypeOK' /\ PurgeMailed' /\ NothingDropped'
    BY <1>0, <1>1, <1>2, <2>1, NoRunIsRun DEF MailTypeOK, PurgeMailed, NothingDropped
  <2>3. \A n \in Notices : Owed(n)' /\ mailed'[n] <= submitted'[n] + failures'
    BY <1>0, <1>1, <1>2, <2>1 DEF MailedOnce, Owed
  <2>4. MailedOnce' /\ MailOwed'
    BY <2>3 DEF MailedOnce, MailOwed
  <2> QED
    BY <2>2, <2>4 DEF MailInv
<1> QED
  BY <1>4, <1>5, <1>6, <1>7, <1>8 DEF MailStep

LEMMA MailInductive == MailInv /\ [Next]_vars => MailInv'
<1>1. MailInv /\ UNCHANGED mailVars => MailInv'
  BY DEF MailInv, MailTypeOK, MailedOnce, MailOwed, Owed, PurgeMailed, NothingDropped, mailVars
<1>2. MailInv /\ MailNext => MailInv'
  BY NotifiedKept, WorkerKept DEF MailNext
<1> QED
  BY <1>1, <1>2 DEF Next, LotsStep, MailsStep, FaucetStep, BanxaStep, vars

LEMMA MailInvCorrect == Spec => []MailInv
<1>1. Init => MailInv
  BY MailInitial
<1>2. MailInv /\ [Next]_vars => MailInv'
  BY MailInductive
<1> QED
  BY <1>1, <1>2, PTL DEF Spec

\* A message is mailed at most once per submission and failed run: MailedOnce,
\* for any number of notifications.
THEOREM MailedOnceCorrect == Spec => []MailedOnce
<1>1. MailInv => MailedOnce
  BY DEF MailInv
<1> QED
  BY <1>1, MailInvCorrect, PTL

\* A notification somebody wants is gone only after it was mailed or read:
\* NothingDropped, for any number of notifications and failures.
THEOREM NothingDroppedCorrect == Spec => []NothingDropped
<1>1. MailInv => NothingDropped
  BY DEF MailInv
<1> QED
  BY <1>1, MailInvCorrect, PTL

-----------------------------------------------------------------------------
(* Packed lot data. Eight lots fill five words: the value of lot 8q + r is  *)
(* in word 5q + (5r \div 8) and, when r is 1, 3, 4 or 6, the next one.      *)

Byte == 0..255
Value == 0..31
PackedArray == [Words -> Byte]

LEMMA Powers ==
    /\ 2^0 = 1 /\ 2^1 = 2 /\ 2^2 = 4 /\ 2^3 = 8 /\ 2^4 = 16
    /\ 2^5 = 32 /\ 2^6 = 64 /\ 2^7 = 128 /\ 2^8 = 256
OBVIOUS

\* Where the value of lot i is, and how much of it spills into the next word.
Place(i, word, available, spill) ==
  /\ WordOf(i) = word /\ Available(i) = available
  /\ Spill(i) = spill /\ (Fits(i) <=> spill <= 0)

LEMMA Places ==
    ASSUME NEW q \in Nat
    PROVE  /\ Place(8 * q, 5 * q, 8, -3)
           /\ Place(8 * q + 1, 5 * q, 3, 2)
           /\ Place(8 * q + 2, 5 * q + 1, 6, -1)
           /\ Place(8 * q + 3, 5 * q + 1, 1, 4)
           /\ Place(8 * q + 4, 5 * q + 2, 4, 1)
           /\ Place(8 * q + 5, 5 * q + 3, 7, -2)
           /\ Place(8 * q + 6, 5 * q + 3, 2, 3)
           /\ Place(8 * q + 7, 5 * q + 4, 5, 0)
BY DEF Place, WordOf, Available, Fits, Spill, Width, WordBits

\* The words of a lot are words of the array.
LEMMA PlaceInWords ==
    ASSUME NEW i \in LotIndices
    PROVE  /\ WordOf(i) \in Words
           /\ ~Fits(i) => WordOf(i) + 1 \in Words
BY LotAssumption DEF LotIndices, WordOf, Available, Fits, Words, Width, WordBits

\* The value of a lot, from its word and, where it spills, the next.
LEMMA GetsFitting ==
    ASSUME NEW q \in Nat, NEW p, NEW x \in Byte
    PROVE  /\ x = p[5 * q] => PackedGet(p, 8 * q) = (x \div 8) % 32
           /\ x = p[5 * q + 1] => PackedGet(p, 8 * q + 2) = (x \div 2) % 32
           /\ x = p[5 * q + 3] => PackedGet(p, 8 * q + 5) = (x \div 4) % 32
           /\ x = p[5 * q + 4] => PackedGet(p, 8 * q + 7) = x % 32
<1>1. ASSUME NEW i, NEW w, NEW available, NEW spill \in {-3, -2, -1, 0},
             Place(i, w, available, spill), x = p[w]
      PROVE  PackedGet(p, i) = (x \div 2^(available - 5)) % 2^5
  BY <1>1 DEF Place, PackedGet, Width
<1>2. x = p[5 * q] => PackedGet(p, 8 * q) = (x \div 2^(8 - 5)) % 2^5
  BY <1>1, Places
<1>3. x = p[5 * q + 1] => PackedGet(p, 8 * q + 2) = (x \div 2^(6 - 5)) % 2^5
  BY <1>1, Places
<1>4. x = p[5 * q + 3] => PackedGet(p, 8 * q + 5) = (x \div 2^(7 - 5)) % 2^5
  BY <1>1, Places
<1>5. x = p[5 * q + 4] => PackedGet(p, 8 * q + 7) = (x \div 2^(5 - 5)) % 2^5
  BY <1>1, Places
<1>6. /\ x \div 2^(8 - 5) = x \div 8 /\ x \div 2^(6 - 5) = x \div 2
      /\ x \div 2^(7 - 5) = x \div 4 /\ x \div 2^(5 - 5) = x /\ 2^5 = 32
  BY DEF Byte
<1> QED
  BY <1>2, <1>3, <1>4, <1>5, <1>6

LEMMA GetsSpilling ==
    ASSUME NEW q \in Nat, NEW p, NEW x \in Byte, NEW y \in Byte
    PROVE  /\ x = p[5 * q] /\ y = p[5 * q + 1] => PackedGet(p, 8 * q + 1) = (x % 8) * 4 + y \div 64
           /\ x = p[5 * q + 1] /\ y = p[5 * q + 2] =>
                PackedGet(p, 8 * q + 3) = (x % 2) * 16 + y \div 16
           /\ x = p[5 * q + 2] /\ y = p[5 * q + 3] =>
                PackedGet(p, 8 * q + 4) = (x % 16) * 2 + y \div 128
           /\ x = p[5 * q + 3] /\ y = p[5 * q + 4] =>
                PackedGet(p, 8 * q + 6) = (x % 4) * 8 + y \div 32
<1>1. ASSUME x = p[5 * q], y = p[5 * q + 1]
      PROVE  PackedGet(p, 8 * q + 1) = (x % 2^3) * 2^2 + y \div 2^(8 - 2)
  <2> DEFINE i == 8 * q + 1
  <2>1. WordOf(i) = 5 * q /\ Available(i) = 3 /\ Spill(i) = 2 /\ ~Fits(i)
    BY Places DEF Place
  <2> HIDE DEF i
  <2>2. x = p[WordOf(i)] /\ y = p[WordOf(i) + 1]
    BY <1>1, <2>1
  <2>3. PackedGet(p, i) = (x % 2^3) * 2^2 + y \div 2^(8 - 2)
    BY <2>1, <2>2 DEF PackedGet, WordBits
  <2> QED
    BY <2>3 DEF i
<1>2. ASSUME x = p[5 * q + 1], y = p[5 * q + 2]
      PROVE  PackedGet(p, 8 * q + 3) = (x % 2^1) * 2^4 + y \div 2^(8 - 4)
  <2> DEFINE i == 8 * q + 3
  <2>1. WordOf(i) = 5 * q + 1 /\ Available(i) = 1 /\ Spill(i) = 4 /\ ~Fits(i)
    BY Places DEF Place
  <2> HIDE DEF i
  <2>2. x = p[WordOf(i)] /\ y = p[WordOf(i) + 1]
    BY <1>2, <2>1
  <2>3. PackedGet(p, i) = (x % 2^1) * 2^4 + y \div 2^(8 - 4)
    BY <2>1, <2>2 DEF PackedGet, WordBits
  <2> QED
    BY <2>3 DEF i
<1>3. ASSUME x = p[5 * q + 2], y = p[5 * q + 3]
      PROVE  PackedGet(p, 8 * q + 4) = (x % 2^4) * 2^1 + y \div 2^(8 - 1)
  <2> DEFINE i == 8 * q + 4
  <2>1. WordOf(i) = 5 * q + 2 /\ Available(i) = 4 /\ Spill(i) = 1 /\ ~Fits(i)
    BY Places DEF Place
  <2> HIDE DEF i
  <2>2. x = p[WordOf(i)] /\ y = p[WordOf(i) + 1]
    BY <1>3, <2>1
  <2>3. PackedGet(p, i) = (x % 2^4) * 2^1 + y \div 2^(8 - 1)
    BY <2>1, <2>2 DEF PackedGet, WordBits
  <2> QED
    BY <2>3 DEF i
<1>4. ASSUME x = p[5 * q + 3], y = p[5 * q + 4]
      PROVE  PackedGet(p, 8 * q + 6) = (x % 2^2) * 2^3 + y \div 2^(8 - 3)
  <2> DEFINE i == 8 * q + 6
  <2>1. WordOf(i) = 5 * q + 3 /\ Available(i) = 2 /\ Spill(i) = 3 /\ ~Fits(i)
    BY Places DEF Place
  <2> HIDE DEF i
  <2>2. x = p[WordOf(i)] /\ y = p[WordOf(i) + 1]
    BY <1>4, <2>1
  <2>3. PackedGet(p, i) = (x % 2^2) * 2^3 + y \div 2^(8 - 3)
    BY <2>1, <2>2 DEF PackedGet, WordBits
  <2> QED
    BY <2>3 DEF i
<1>5. /\ (x % 2^3) * 2^2 = (x % 8) * 4 /\ y \div 2^(8 - 2) = y \div 64
      /\ (x % 2^1) * 2^4 = (x % 2) * 16 /\ y \div 2^(8 - 4) = y \div 16
      /\ (x % 2^4) * 2^1 = (x % 16) * 2 /\ y \div 2^(8 - 1) = y \div 128
      /\ (x % 2^2) * 2^3 = (x % 4) * 8 /\ y \div 2^(8 - 3) = y \div 32
  BY DEF Byte
<1> QED
  BY <1>1, <1>2, <1>3, <1>4, <1>5

\* What a word shows once lot 0, 2, 5 or 7 of the group wrote a value there...
LEMMA PutFitting ==
    ASSUME NEW x \in Byte, NEW v \in Value
    PROVE  /\ LET z == Put(x, v, 5, 3) IN
                z \in Byte /\ (z \div 8) % 32 = v /\ z % 8 = x % 8
           /\ LET z == Put(x, v, 5, 1) IN
                /\ z \in Byte /\ (z \div 2) % 32 = v
                /\ z % 2 = x % 2 /\ z \div 64 = x \div 64
           /\ LET z == Put(x, v, 5, 2) IN
                /\ z \in Byte /\ (z \div 4) % 32 = v
                /\ z % 4 = x % 4 /\ z \div 128 = x \div 128
           /\ LET z == Put(x, v, 5, 0) IN
                z \in Byte /\ z % 32 = v /\ z \div 32 = x \div 32
<1>1. LET z == Put(x, v, 5, 3) IN
       z \in Byte /\ (z \div 8) % 32 = v /\ z % 8 = x % 8
  BY Powers DEF Put, Byte, Value
<1>2. LET z == Put(x, v, 5, 1) IN
       /\ z \in Byte /\ (z \div 2) % 32 = v
       /\ z % 2 = x % 2 /\ z \div 64 = x \div 64
  BY Powers DEF Put, Byte, Value
<1>3. LET z == Put(x, v, 5, 2) IN
       /\ z \in Byte /\ (z \div 4) % 32 = v
       /\ z % 4 = x % 4 /\ z \div 128 = x \div 128
  BY Powers DEF Put, Byte, Value
<1>4. LET z == Put(x, v, 5, 0) IN
       z \in Byte /\ z % 32 = v /\ z \div 32 = x \div 32
  BY Powers DEF Put, Byte, Value
<1> QED
  BY <1>1, <1>2, <1>3, <1>4

\* ...once lot 1, 3, 4 or 6 wrote the first bits of one...
LEMMA PutFirstBits ==
    ASSUME NEW x \in Byte, NEW v \in Value
    PROVE  /\ LET z == Put(x, v \div 4, 3, 0) IN
                z \in Byte /\ z % 8 = v \div 4 /\ (z \div 8) % 32 = (x \div 8) % 32
           /\ LET z == Put(x, v \div 16, 1, 0) IN
                /\ z \in Byte /\ z % 2 = v \div 16
                /\ (z \div 2) % 32 = (x \div 2) % 32 /\ z \div 64 = x \div 64
           /\ LET z == Put(x, v \div 2, 4, 0) IN
                z \in Byte /\ z % 16 = v \div 2 /\ z \div 16 = x \div 16
           /\ LET z == Put(x, v \div 8, 2, 0) IN
                /\ z \in Byte /\ z % 4 = v \div 8
                /\ (z \div 4) % 32 = (x \div 4) % 32 /\ z \div 128 = x \div 128
<1>1. LET z == Put(x, v \div 4, 3, 0) IN
       z \in Byte /\ z % 8 = v \div 4 /\ (z \div 8) % 32 = (x \div 8) % 32
  BY Powers DEF Put, Byte, Value
<1>2. LET z == Put(x, v \div 16, 1, 0) IN
       /\ z \in Byte /\ z % 2 = v \div 16
       /\ (z \div 2) % 32 = (x \div 2) % 32 /\ z \div 64 = x \div 64
  BY Powers DEF Put, Byte, Value
<1>3. LET z == Put(x, v \div 2, 4, 0) IN
       z \in Byte /\ z % 16 = v \div 2 /\ z \div 16 = x \div 16
  BY Powers DEF Put, Byte, Value
<1>4. LET z == Put(x, v \div 8, 2, 0) IN
       /\ z \in Byte /\ z % 4 = v \div 8
       /\ (z \div 4) % 32 = (x \div 4) % 32 /\ z \div 128 = x \div 128
  BY Powers DEF Put, Byte, Value
<1> QED
  BY <1>1, <1>2, <1>3, <1>4

\* ...and the last bits of it in the next word.
LEMMA PutLastBits ==
    ASSUME NEW x \in Byte, NEW v \in Value
    PROVE  /\ LET z == Put(x, v, 2, 6) IN
                /\ z \in Byte /\ z \div 64 = v % 4
                /\ (z \div 2) % 32 = (x \div 2) % 32 /\ z % 2 = x % 2
           /\ LET z == Put(x, v, 4, 4) IN
                z \in Byte /\ z \div 16 = v % 16 /\ z % 16 = x % 16
           /\ LET z == Put(x, v, 1, 7) IN
                /\ z \in Byte /\ z \div 128 = v % 2
                /\ (z \div 4) % 32 = (x \div 4) % 32 /\ z % 4 = x % 4
           /\ LET z == Put(x, v, 3, 5) IN
                z \in Byte /\ z \div 32 = v % 8 /\ z % 32 = x % 32
BY Powers DEF Put, Byte, Value

\* Whether a bit of lot j is in a word, and the lots that share each word.
Touches(j, word) == WordOf(j) = word \/ (~Fits(j) /\ WordOf(j) + 1 = word)

LEMMA Sharing ==
    ASSUME NEW q \in Nat, NEW j \in Nat
    PROVE  /\ Touches(j, 5 * q) => j \in {8 * q, 8 * q + 1}
           /\ Touches(j, 5 * q + 1) => j \in {8 * q + 1, 8 * q + 2, 8 * q + 3}
           /\ Touches(j, 5 * q + 2) => j \in {8 * q + 3, 8 * q + 4}
           /\ Touches(j, 5 * q + 3) => j \in {8 * q + 4, 8 * q + 5, 8 * q + 6}
           /\ Touches(j, 5 * q + 4) => j \in {8 * q + 6, 8 * q + 7}
BY DEF Touches, WordOf, Available, Fits, Width, WordBits

\* PackedGet reads no other words than those.
LEMMA ReadsWhatItTouches ==
    ASSUME NEW p, NEW new, NEW j \in LotIndices,
           \A w \in Words : Touches(j, w) => new[w] = p[w]
    PROVE  PackedGet(new, j) = PackedGet(p, j)
<1>1. new[WordOf(j)] = p[WordOf(j)]
  BY PlaceInWords DEF Touches
<1>2. ~Fits(j) => new[WordOf(j) + 1] = p[WordOf(j) + 1]
  BY PlaceInWords DEF Touches
<1> QED
  BY <1>1, <1>2 DEF PackedGet

LEMMA SetsFitting ==
    ASSUME NEW p \in PackedArray, NEW w \in Words, NEW i, NEW v, NEW available, NEW spill,
           Place(i, w, available, spill), spill <= 0
    PROVE  PackedSet(p, i, v) = [p EXCEPT ![w] = Put(p[w], v, 5, available - 5)]
BY DEF Place, PackedSet, Width, WordBits

\* The value of each lot of a group as it is read.
Reads(p, q) ==
  /\ 8 * q \in LotIndices =>
       /\ 5 * q \in Words
       /\ PackedGet(p, 8 * q) = (p[5 * q] \div 8) % 32
  /\ 8 * q + 1 \in LotIndices =>
       /\ 5 * q \in Words /\ 5 * q + 1 \in Words
       /\ PackedGet(p, 8 * q + 1) = (p[5 * q] % 8) * 4 + p[5 * q + 1] \div 64
  /\ 8 * q + 2 \in LotIndices =>
       /\ 5 * q + 1 \in Words
       /\ PackedGet(p, 8 * q + 2) = (p[5 * q + 1] \div 2) % 32
  /\ 8 * q + 3 \in LotIndices =>
       /\ 5 * q + 1 \in Words /\ 5 * q + 2 \in Words
       /\ PackedGet(p, 8 * q + 3) = (p[5 * q + 1] % 2) * 16 + p[5 * q + 2] \div 16
  /\ 8 * q + 4 \in LotIndices =>
       /\ 5 * q + 2 \in Words /\ 5 * q + 3 \in Words
       /\ PackedGet(p, 8 * q + 4) = (p[5 * q + 2] % 16) * 2 + p[5 * q + 3] \div 128
  /\ 8 * q + 5 \in LotIndices =>
       /\ 5 * q + 3 \in Words
       /\ PackedGet(p, 8 * q + 5) = (p[5 * q + 3] \div 4) % 32
  /\ 8 * q + 6 \in LotIndices =>
       /\ 5 * q + 3 \in Words /\ 5 * q + 4 \in Words
       /\ PackedGet(p, 8 * q + 6) = (p[5 * q + 3] % 4) * 8 + p[5 * q + 4] \div 32
  /\ 8 * q + 7 \in LotIndices =>
       /\ 5 * q + 4 \in Words
       /\ PackedGet(p, 8 * q + 7) = p[5 * q + 4] % 32

LEMMA Gets == ASSUME NEW p \in PackedArray, NEW q \in Nat PROVE Reads(p, q)
<1>1. ASSUME 8 * q \in LotIndices
      PROVE  /\ 5 * q \in Words
             /\ PackedGet(p, 8 * q) = (p[5 * q] \div 8) % 32
  <2>1. 5 * q \in Words
    BY <1>1, Places, PlaceInWords DEF Place
  <2>2. p[5 * q] \in Byte
    BY <2>1 DEF PackedArray
  <2> QED
    BY <2>1, <2>2, GetsFitting
<1>2. ASSUME 8 * q + 1 \in LotIndices
      PROVE  /\ 5 * q \in Words /\ 5 * q + 1 \in Words
             /\ PackedGet(p, 8 * q + 1) = (p[5 * q] % 8) * 4 + p[5 * q + 1] \div 64
  <2>1. 5 * q \in Words /\ 5 * q + 1 \in Words
    BY <1>2, Places, PlaceInWords DEF Place
  <2>2. p[5 * q] \in Byte /\ p[5 * q + 1] \in Byte
    BY <2>1 DEF PackedArray
  <2> QED
    BY <2>1, <2>2, GetsSpilling
<1>3. ASSUME 8 * q + 2 \in LotIndices
      PROVE  /\ 5 * q + 1 \in Words
             /\ PackedGet(p, 8 * q + 2) = (p[5 * q + 1] \div 2) % 32
  <2>1. 5 * q + 1 \in Words
    BY <1>3, Places, PlaceInWords DEF Place
  <2>2. p[5 * q + 1] \in Byte
    BY <2>1 DEF PackedArray
  <2> QED
    BY <2>1, <2>2, GetsFitting
<1>4. ASSUME 8 * q + 3 \in LotIndices
      PROVE  /\ 5 * q + 1 \in Words /\ 5 * q + 2 \in Words
             /\ PackedGet(p, 8 * q + 3) = (p[5 * q + 1] % 2) * 16 + p[5 * q + 2] \div 16
  <2>1. 5 * q + 1 \in Words /\ 5 * q + 2 \in Words
    BY <1>4, Places, PlaceInWords DEF Place
  <2>2. p[5 * q + 1] \in Byte /\ p[5 * q + 2] \in Byte
    BY <2>1 DEF PackedArray
  <2> QED
    BY <2>1, <2>2, GetsSpilling
<1>5. ASSUME 8 * q + 4 \in LotIndices
      PROVE  /\ 5 * q + 2 \in Words /\ 5 * q + 3 \in Words
             /\ PackedGet(p, 8 * q + 4) = (p[5 * q + 2] % 16) * 2 + p[5 * q + 3] \div 128
  <2>1. 5 * q + 2 \in Words /\ 5 * q + 3 \in Words
    BY <1>5, Places, PlaceInWords DEF Place
  <2>2. p[5 * q + 2] \in Byte /\ p[5 * q + 3] \in Byte
    BY <2>1 DEF PackedArray
  <2> QED
    BY <2>1, <2>2, GetsSpilling
<1>6. ASSUME 8 * q + 5 \in LotIndices
      PROVE  /\ 5 * q + 3 \in Words
             /\ PackedGet(p, 8 * q + 5) = (p[5 * q + 3] \div 4) % 32
  <2>1. 5 * q + 3 \in Words
    BY <1>6, Places, PlaceInWords DEF Place
  <2>2. p[5 * q + 3] \in Byte
    BY <2>1 DEF PackedArray
  <2> QED
    BY <2>1, <2>2, GetsFitting
<1>7. ASSUME 8 * q + 6 \in LotIndices
      PROVE  /\ 5 * q + 3 \in Words /\ 5 * q + 4 \in Words
             /\ PackedGet(p, 8 * q + 6) = (p[5 * q + 3] % 4) * 8 + p[5 * q + 4] \div 32
  <2>1. 5 * q + 3 \in Words /\ 5 * q + 4 \in Words
    BY <1>7, Places, PlaceInWords DEF Place
  <2>2. p[5 * q + 3] \in Byte /\ p[5 * q + 4] \in Byte
    BY <2>1 DEF PackedArray
  <2> QED
    BY <2>1, <2>2, GetsSpilling
<1>8. ASSUME 8 * q + 7 \in LotIndices
      PROVE  /\ 5 * q + 4 \in Words
             /\ PackedGet(p, 8 * q + 7) = p[5 * q + 4] % 32
  <2>1. 5 * q + 4 \in Words
    BY <1>8, Places, PlaceInWords DEF Place
  <2>2. p[5 * q + 4] \in Byte
    BY <2>1 DEF PackedArray
  <2> QED
    BY <2>1, <2>2, GetsFitting
<1> QED
  BY <1>1, <1>2, <1>3, <1>4, <1>5, <1>6, <1>7, <1>8 DEF Reads

\* new is p but for the value v of lot i.
SetOnly(p, new, i, v) ==
  /\ new \in PackedArray
  /\ PackedGet(new, i) = v
  /\ \A j \in LotIndices \ {i} : PackedGet(new, j) = PackedGet(p, j)

LEMMA SetsLot0 ==
    ASSUME NEW p \in PackedArray, NEW q \in Nat, 8 * q \in LotIndices, NEW v \in Value
    PROVE  SetOnly(p, PackedSet(p, 8 * q, v), 8 * q, v)
<1> DEFINE new == PackedSet(p, 8 * q, v)
           x == p[5 * q]
           z == Put(x, v, 5, 3)
<1>1. 5 * q \in Words /\ x \in Byte
  BY Places, PlaceInWords DEF Place, PackedArray
<1>2. new = [p EXCEPT ![5 * q] = z]
  BY <1>1, Places, SetsFitting
<1>3. z \in Byte /\ (z \div 8) % 32 = v /\ z % 8 = x % 8
  BY <1>1, PutFitting
<1> HIDE DEF new, z
<1>4. /\ new \in PackedArray /\ new[5 * q] = z
      /\ \A w \in Words \ {5 * q} : new[w] = p[w]
  BY <1>1, <1>2, <1>3 DEF PackedArray
<1>5. Reads(p, q) /\ Reads(new, q)
  BY <1>4, Gets
<1>6. PackedGet(new, 8 * q) = v
  BY <1>3, <1>4, <1>5 DEF Reads
<1>7. ASSUME NEW j \in LotIndices \ {8 * q} PROVE PackedGet(new, j) = PackedGet(p, j)
  <2>1. CASE Touches(j, 5 * q)
    <3>1. j \in {8 * q + 1}
      BY <1>7, <2>1, Sharing DEF LotIndices
    <3> QED
      BY <1>3, <1>4, <1>5, <3>1 DEF Reads
  <2>2. CASE ~Touches(j, 5 * q)
    BY <1>4, <2>2, ReadsWhatItTouches
  <2> QED
    BY <2>1, <2>2
<1> QED
  BY <1>4, <1>6, <1>7 DEF SetOnly, new

LEMMA SetsLot2 ==
    ASSUME NEW p \in PackedArray, NEW q \in Nat, 8 * q + 2 \in LotIndices, NEW v \in Value
    PROVE  SetOnly(p, PackedSet(p, 8 * q + 2, v), 8 * q + 2, v)
<1> DEFINE new == PackedSet(p, 8 * q + 2, v)
           x == p[5 * q + 1]
           z == Put(x, v, 5, 1)
<1>1. 5 * q + 1 \in Words /\ x \in Byte
  BY Places, PlaceInWords DEF Place, PackedArray
<1>2. new = [p EXCEPT ![5 * q + 1] = z]
  BY <1>1, Places, SetsFitting
<1>3. /\ z \in Byte /\ (z \div 2) % 32 = v
        /\ z % 2 = x % 2 /\ z \div 64 = x \div 64
  BY <1>1, PutFitting
<1> HIDE DEF new, z
<1>4. /\ new \in PackedArray /\ new[5 * q + 1] = z
      /\ \A w \in Words \ {5 * q + 1} : new[w] = p[w]
  BY <1>1, <1>2, <1>3 DEF PackedArray
<1>5. Reads(p, q) /\ Reads(new, q)
  BY <1>4, Gets
<1>6. PackedGet(new, 8 * q + 2) = v
  BY <1>3, <1>4, <1>5 DEF Reads
<1>7. ASSUME NEW j \in LotIndices \ {8 * q + 2} PROVE PackedGet(new, j) = PackedGet(p, j)
  <2>1. CASE Touches(j, 5 * q + 1)
    <3>1. j \in {8 * q + 1, 8 * q + 3}
      BY <1>7, <2>1, Sharing DEF LotIndices
    <3> QED
      BY <1>3, <1>4, <1>5, <3>1 DEF Reads
  <2>2. CASE ~Touches(j, 5 * q + 1)
    BY <1>4, <2>2, ReadsWhatItTouches
  <2> QED
    BY <2>1, <2>2
<1> QED
  BY <1>4, <1>6, <1>7 DEF SetOnly, new

LEMMA SetsLot5 ==
    ASSUME NEW p \in PackedArray, NEW q \in Nat, 8 * q + 5 \in LotIndices, NEW v \in Value
    PROVE  SetOnly(p, PackedSet(p, 8 * q + 5, v), 8 * q + 5, v)
<1> DEFINE new == PackedSet(p, 8 * q + 5, v)
           x == p[5 * q + 3]
           z == Put(x, v, 5, 2)
<1>1. 5 * q + 3 \in Words /\ x \in Byte
  BY Places, PlaceInWords DEF Place, PackedArray
<1>2. new = [p EXCEPT ![5 * q + 3] = z]
  BY <1>1, Places, SetsFitting
<1>3. /\ z \in Byte /\ (z \div 4) % 32 = v
        /\ z % 4 = x % 4 /\ z \div 128 = x \div 128
  BY <1>1, PutFitting
<1> HIDE DEF new, z
<1>4. /\ new \in PackedArray /\ new[5 * q + 3] = z
      /\ \A w \in Words \ {5 * q + 3} : new[w] = p[w]
  BY <1>1, <1>2, <1>3 DEF PackedArray
<1>5. Reads(p, q) /\ Reads(new, q)
  BY <1>4, Gets
<1>6. PackedGet(new, 8 * q + 5) = v
  BY <1>3, <1>4, <1>5 DEF Reads
<1>7. ASSUME NEW j \in LotIndices \ {8 * q + 5} PROVE PackedGet(new, j) = PackedGet(p, j)
  <2>1. CASE Touches(j, 5 * q + 3)
    <3>1. j \in {8 * q + 4, 8 * q + 6}
      BY <1>7, <2>1, Sharing DEF LotIndices
    <3> QED
      BY <1>3, <1>4, <1>5, <3>1 DEF Reads
  <2>2. CASE ~Touches(j, 5 * q + 3)
    BY <1>4, <2>2, ReadsWhatItTouches
  <2> QED
    BY <2>1, <2>2
<1> QED
  BY <1>4, <1>6, <1>7 DEF SetOnly, new

LEMMA SetsLot7 ==
    ASSUME NEW p \in PackedArray, NEW q \in Nat, 8 * q + 7 \in LotIndices, NEW v \in Value
    PROVE  SetOnly(p, PackedSet(p, 8 * q + 7, v), 8 * q + 7, v)
<1> DEFINE new == PackedSet(p, 8 * q + 7, v)
           x == p[5 * q + 4]
           z == Put(x, v, 5, 0)
<1>1. 5 * q + 4 \in Words /\ x \in Byte
  BY Places, PlaceInWords DEF Place, PackedArray
<1>2. new = [p EXCEPT ![5 * q + 4] = z]
  BY <1>1, Places, SetsFitting
<1>3. z \in Byte /\ z % 32 = v /\ z \div 32 = x \div 32
  BY <1>1, PutFitting
<1> HIDE DEF new, z
<1>4. /\ new \in PackedArray /\ new[5 * q + 4] = z
      /\ \A w \in Words \ {5 * q + 4} : new[w] = p[w]
  BY <1>1, <1>2, <1>3 DEF PackedArray
<1>5. Reads(p, q) /\ Reads(new, q)
  BY <1>4, Gets
<1>6. PackedGet(new, 8 * q + 7) = v
  BY <1>3, <1>4, <1>5 DEF Reads
<1>7. ASSUME NEW j \in LotIndices \ {8 * q + 7} PROVE PackedGet(new, j) = PackedGet(p, j)
  <2>1. CASE Touches(j, 5 * q + 4)
    <3>1. j \in {8 * q + 6}
      BY <1>7, <2>1, Sharing DEF LotIndices
    <3> QED
      BY <1>3, <1>4, <1>5, <3>1 DEF Reads
  <2>2. CASE ~Touches(j, 5 * q + 4)
    BY <1>4, <2>2, ReadsWhatItTouches
  <2> QED
    BY <2>1, <2>2
<1> QED
  BY <1>4, <1>6, <1>7 DEF SetOnly, new
LEMMA SetsLot1 ==
    ASSUME NEW p \in PackedArray, NEW q \in Nat, 8 * q + 1 \in LotIndices, NEW v \in Value
    PROVE  SetOnly(p, PackedSet(p, 8 * q + 1, v), 8 * q + 1, v)
<1> DEFINE new == PackedSet(p, 8 * q + 1, v)
           x == p[5 * q]
           y == p[5 * q + 1]
           z1 == Put(x, v \div 4, 3, 0)
           z2 == Put(y, v, 2, 6)
<1>1. 5 * q \in Words /\ 5 * q + 1 \in Words /\ x \in Byte /\ y \in Byte
  BY Places, PlaceInWords DEF Place, PackedArray
<1>2. new = [p EXCEPT ![5 * q] = z1, ![5 * q + 1] = z2]
  <2> DEFINE i == 8 * q + 1
  <2>1. /\ WordOf(i) = 5 * q /\ Available(i) = 3 /\ Spill(i) = 2 /\ ~Fits(i)
        /\ 5 * q + 1 = (5 * q) + 1
    BY Places DEF Place
  <2> HIDE DEF i
  <2>2. PackedSet(p, i, v) = [p EXCEPT ![5 * q] = Put(@, v \div 2^2, 3, 0),
                                      ![5 * q + 1] = Put(@, v, 2, WordBits - 2)]
    BY <2>1 DEF PackedSet
  <2>3. 2^2 = 4 /\ WordBits - 2 = 6 /\ 5 * q # 5 * q + 1
    BY DEF WordBits
  <2> QED
    BY <2>2, <2>3 DEF i
<1>3. /\ z1 \in Byte /\ z1 % 8 = v \div 4 /\ (z1 \div 8) % 32 = (x \div 8) % 32
      /\ z2 \in Byte /\ z2 \div 64 = v % 4
      /\ (z2 \div 2) % 32 = (y \div 2) % 32 /\ z2 % 2 = y % 2
  BY <1>1, PutFirstBits, PutLastBits
<1> HIDE DEF new, z1, z2
<1>4. /\ new \in PackedArray /\ new[5 * q] = z1 /\ new[5 * q + 1] = z2
      /\ \A k \in Words \ {5 * q, 5 * q + 1} : new[k] = p[k]
  <2>1. 5 * q # 5 * q + 1
    OBVIOUS
  <2> QED
    BY <1>1, <1>2, <1>3, <2>1 DEF PackedArray
<1>5. Reads(p, q) /\ Reads(new, q)
  BY <1>4, Gets
<1>6. PackedGet(new, 8 * q + 1) = v
  <2>1. PackedGet(new, 8 * q + 1) = (z1 % 8) * 4 + z2 \div 64
    BY <1>4, <1>5 DEF Reads
  <2>2. \A u \in 0..31 : (u \div 4) * 4 + (u % 4) = u
    OBVIOUS
  <2> QED
    BY <1>3, <2>1, <2>2 DEF Value
<1>7. ASSUME NEW j \in LotIndices \ {8 * q + 1} PROVE PackedGet(new, j) = PackedGet(p, j)
  <2>1. CASE Touches(j, 5 * q) \/ Touches(j, 5 * q + 1)
    <3>1. j \in {8 * q, 8 * q + 2, 8 * q + 3}
      BY <1>7, <2>1, Sharing DEF LotIndices
    <3> QED
      BY <1>3, <1>4, <1>5, <3>1 DEF Reads
  <2>2. CASE ~Touches(j, 5 * q) /\ ~Touches(j, 5 * q + 1)
    BY <1>4, <2>2, ReadsWhatItTouches
  <2> QED
    BY <2>1, <2>2
<1> QED
  BY <1>4, <1>6, <1>7 DEF SetOnly, new

LEMMA SetsLot3 ==
    ASSUME NEW p \in PackedArray, NEW q \in Nat, 8 * q + 3 \in LotIndices, NEW v \in Value
    PROVE  SetOnly(p, PackedSet(p, 8 * q + 3, v), 8 * q + 3, v)
<1> DEFINE new == PackedSet(p, 8 * q + 3, v)
           x == p[5 * q + 1]
           y == p[5 * q + 2]
           z1 == Put(x, v \div 16, 1, 0)
           z2 == Put(y, v, 4, 4)
<1>1. 5 * q + 1 \in Words /\ 5 * q + 2 \in Words /\ x \in Byte /\ y \in Byte
  BY Places, PlaceInWords DEF Place, PackedArray
<1>2. new = [p EXCEPT ![5 * q + 1] = z1, ![5 * q + 2] = z2]
  <2> DEFINE i == 8 * q + 3
  <2>1. /\ WordOf(i) = 5 * q + 1 /\ Available(i) = 1 /\ Spill(i) = 4 /\ ~Fits(i)
        /\ 5 * q + 2 = (5 * q + 1) + 1
    BY Places DEF Place
  <2> HIDE DEF i
  <2>2. PackedSet(p, i, v) = [p EXCEPT ![5 * q + 1] = Put(@, v \div 2^4, 1, 0),
                                      ![5 * q + 2] = Put(@, v, 4, WordBits - 4)]
    BY <2>1 DEF PackedSet
  <2>3. 2^4 = 16 /\ WordBits - 4 = 4 /\ 5 * q + 1 # 5 * q + 2
    BY DEF WordBits
  <2> QED
    BY <2>2, <2>3 DEF i
<1>3. /\ z1 \in Byte /\ z1 % 2 = v \div 16
      /\ (z1 \div 2) % 32 = (x \div 2) % 32 /\ z1 \div 64 = x \div 64
      /\ z2 \in Byte /\ z2 \div 16 = v % 16 /\ z2 % 16 = y % 16
  BY <1>1, PutFirstBits, PutLastBits
<1> HIDE DEF new, z1, z2
<1>4. /\ new \in PackedArray /\ new[5 * q + 1] = z1 /\ new[5 * q + 2] = z2
      /\ \A k \in Words \ {5 * q + 1, 5 * q + 2} : new[k] = p[k]
  <2>1. 5 * q + 1 # 5 * q + 2
    OBVIOUS
  <2> QED
    BY <1>1, <1>2, <1>3, <2>1 DEF PackedArray
<1>5. Reads(p, q) /\ Reads(new, q)
  BY <1>4, Gets
<1>6. PackedGet(new, 8 * q + 3) = v
  <2>1. PackedGet(new, 8 * q + 3) = (z1 % 2) * 16 + z2 \div 16
    BY <1>4, <1>5 DEF Reads
  <2>2. \A u \in 0..31 : (u \div 16) * 16 + (u % 16) = u
    OBVIOUS
  <2> QED
    BY <1>3, <2>1, <2>2 DEF Value
<1>7. ASSUME NEW j \in LotIndices \ {8 * q + 3} PROVE PackedGet(new, j) = PackedGet(p, j)
  <2>1. CASE Touches(j, 5 * q + 1) \/ Touches(j, 5 * q + 2)
    <3>1. j \in {8 * q + 1, 8 * q + 2, 8 * q + 4}
      BY <1>7, <2>1, Sharing DEF LotIndices
    <3> QED
      BY <1>3, <1>4, <1>5, <3>1 DEF Reads
  <2>2. CASE ~Touches(j, 5 * q + 1) /\ ~Touches(j, 5 * q + 2)
    BY <1>4, <2>2, ReadsWhatItTouches
  <2> QED
    BY <2>1, <2>2
<1> QED
  BY <1>4, <1>6, <1>7 DEF SetOnly, new

LEMMA SetsLot4 ==
    ASSUME NEW p \in PackedArray, NEW q \in Nat, 8 * q + 4 \in LotIndices, NEW v \in Value
    PROVE  SetOnly(p, PackedSet(p, 8 * q + 4, v), 8 * q + 4, v)
<1> DEFINE new == PackedSet(p, 8 * q + 4, v)
           x == p[5 * q + 2]
           y == p[5 * q + 3]
           z1 == Put(x, v \div 2, 4, 0)
           z2 == Put(y, v, 1, 7)
<1>1. 5 * q + 2 \in Words /\ 5 * q + 3 \in Words /\ x \in Byte /\ y \in Byte
  BY Places, PlaceInWords DEF Place, PackedArray
<1>2. new = [p EXCEPT ![5 * q + 2] = z1, ![5 * q + 3] = z2]
  <2> DEFINE i == 8 * q + 4
  <2>1. /\ WordOf(i) = 5 * q + 2 /\ Available(i) = 4 /\ Spill(i) = 1 /\ ~Fits(i)
        /\ 5 * q + 3 = (5 * q + 2) + 1
    BY Places DEF Place
  <2> HIDE DEF i
  <2>2. PackedSet(p, i, v) = [p EXCEPT ![5 * q + 2] = Put(@, v \div 2^1, 4, 0),
                                      ![5 * q + 3] = Put(@, v, 1, WordBits - 1)]
    BY <2>1 DEF PackedSet
  <2>3. 2^1 = 2 /\ WordBits - 1 = 7 /\ 5 * q + 2 # 5 * q + 3
    BY DEF WordBits
  <2> QED
    BY <2>2, <2>3 DEF i
<1>3. /\ z1 \in Byte /\ z1 % 16 = v \div 2 /\ z1 \div 16 = x \div 16
      /\ z2 \in Byte /\ z2 \div 128 = v % 2
      /\ (z2 \div 4) % 32 = (y \div 4) % 32 /\ z2 % 4 = y % 4
  BY <1>1, PutFirstBits, PutLastBits
<1> HIDE DEF new, z1, z2
<1>4. /\ new \in PackedArray /\ new[5 * q + 2] = z1 /\ new[5 * q + 3] = z2
      /\ \A k \in Words \ {5 * q + 2, 5 * q + 3} : new[k] = p[k]
  <2>1. 5 * q + 2 # 5 * q + 3
    OBVIOUS
  <2> QED
    BY <1>1, <1>2, <1>3, <2>1 DEF PackedArray
<1>5. Reads(p, q) /\ Reads(new, q)
  BY <1>4, Gets
<1>6. PackedGet(new, 8 * q + 4) = v
  <2>1. PackedGet(new, 8 * q + 4) = (z1 % 16) * 2 + z2 \div 128
    BY <1>4, <1>5 DEF Reads
  <2>2. \A u \in 0..31 : (u \div 2) * 2 + (u % 2) = u
    OBVIOUS
  <2> QED
    BY <1>3, <2>1, <2>2 DEF Value
<1>7. ASSUME NEW j \in LotIndices \ {8 * q + 4} PROVE PackedGet(new, j) = PackedGet(p, j)
  <2>1. CASE Touches(j, 5 * q + 2) \/ Touches(j, 5 * q + 3)
    <3>1. j \in {8 * q + 3, 8 * q + 5, 8 * q + 6}
      BY <1>7, <2>1, Sharing DEF LotIndices
    <3> QED
      BY <1>3, <1>4, <1>5, <3>1 DEF Reads
  <2>2. CASE ~Touches(j, 5 * q + 2) /\ ~Touches(j, 5 * q + 3)
    BY <1>4, <2>2, ReadsWhatItTouches
  <2> QED
    BY <2>1, <2>2
<1> QED
  BY <1>4, <1>6, <1>7 DEF SetOnly, new

LEMMA SetsLot6 ==
    ASSUME NEW p \in PackedArray, NEW q \in Nat, 8 * q + 6 \in LotIndices, NEW v \in Value
    PROVE  SetOnly(p, PackedSet(p, 8 * q + 6, v), 8 * q + 6, v)
<1> DEFINE new == PackedSet(p, 8 * q + 6, v)
           x == p[5 * q + 3]
           y == p[5 * q + 4]
           z1 == Put(x, v \div 8, 2, 0)
           z2 == Put(y, v, 3, 5)
<1>1. 5 * q + 3 \in Words /\ 5 * q + 4 \in Words /\ x \in Byte /\ y \in Byte
  BY Places, PlaceInWords DEF Place, PackedArray
<1>2. new = [p EXCEPT ![5 * q + 3] = z1, ![5 * q + 4] = z2]
  <2> DEFINE i == 8 * q + 6
  <2>1. /\ WordOf(i) = 5 * q + 3 /\ Available(i) = 2 /\ Spill(i) = 3 /\ ~Fits(i)
        /\ 5 * q + 4 = (5 * q + 3) + 1
    BY Places DEF Place
  <2> HIDE DEF i
  <2>2. PackedSet(p, i, v) = [p EXCEPT ![5 * q + 3] = Put(@, v \div 2^3, 2, 0),
                                      ![5 * q + 4] = Put(@, v, 3, WordBits - 3)]
    BY <2>1 DEF PackedSet
  <2>3. 2^3 = 8 /\ WordBits - 3 = 5 /\ 5 * q + 3 # 5 * q + 4
    BY DEF WordBits
  <2> QED
    BY <2>2, <2>3 DEF i
<1>3. /\ z1 \in Byte /\ z1 % 4 = v \div 8
      /\ (z1 \div 4) % 32 = (x \div 4) % 32 /\ z1 \div 128 = x \div 128
      /\ z2 \in Byte /\ z2 \div 32 = v % 8 /\ z2 % 32 = y % 32
  BY <1>1, PutFirstBits, PutLastBits
<1> HIDE DEF new, z1, z2
<1>4. /\ new \in PackedArray /\ new[5 * q + 3] = z1 /\ new[5 * q + 4] = z2
      /\ \A k \in Words \ {5 * q + 3, 5 * q + 4} : new[k] = p[k]
  <2>1. 5 * q + 3 # 5 * q + 4
    OBVIOUS
  <2> QED
    BY <1>1, <1>2, <1>3, <2>1 DEF PackedArray
<1>5. Reads(p, q) /\ Reads(new, q)
  BY <1>4, Gets
<1>6. PackedGet(new, 8 * q + 6) = v
  <2>1. PackedGet(new, 8 * q + 6) = (z1 % 4) * 8 + z2 \div 32
    BY <1>4, <1>5 DEF Reads
  <2>2. \A u \in 0..31 : (u \div 8) * 8 + (u % 8) = u
    OBVIOUS
  <2> QED
    BY <1>3, <2>1, <2>2 DEF Value
<1>7. ASSUME NEW j \in LotIndices \ {8 * q + 6} PROVE PackedGet(new, j) = PackedGet(p, j)
  <2>1. CASE Touches(j, 5 * q + 3) \/ Touches(j, 5 * q + 4)
    <3>1. j \in {8 * q + 4, 8 * q + 5, 8 * q + 7}
      BY <1>7, <2>1, Sharing DEF LotIndices
    <3> QED
      BY <1>3, <1>4, <1>5, <3>1 DEF Reads
  <2>2. CASE ~Touches(j, 5 * q + 3) /\ ~Touches(j, 5 * q + 4)
    BY <1>4, <2>2, ReadsWhatItTouches
  <2> QED
    BY <2>1, <2>2
<1> QED
  BY <1>4, <1>6, <1>7 DEF SetOnly, new

\* PackedSet writes the value of the lot it is given, and no bit of another:
\* for any number of lots.
LEMMA PackedSetsOnly ==
    ASSUME NEW p \in PackedArray, NEW i \in LotIndices, NEW v \in Value
    PROVE  SetOnly(p, PackedSet(p, i, v), i, v)
<1>1. PICK q \in Nat, r \in 0..7 : i = 8 * q + r
  <2>1. i \in Nat
    BY LotAssumption DEF LotIndices
  <2>2. \A n \in Nat : n \div 8 \in Nat /\ n % 8 \in 0..7 /\ n = 8 * (n \div 8) + (n % 8)
    OBVIOUS
  <2> QED
    BY <2>1, <2>2
<1>2. i \in {8 * q, 8 * q + 1, 8 * q + 2, 8 * q + 3, 8 * q + 4, 8 * q + 5, 8 * q + 6, 8 * q + 7}
  BY <1>1
<1> QED
  BY <1>2, SetsLot0, SetsLot1, SetsLot2, SetsLot3, SetsLot4, SetsLot5, SetsLot6, SetsLot7

\* What PackedGet returns is a value.
LEMMA PackedGets ==
    ASSUME NEW p \in PackedArray, NEW i \in LotIndices
    PROVE  PackedGet(p, i) \in Value
<1>1. PICK q \in Nat, r \in 0..7 : i = 8 * q + r
  <2>1. i \in Nat
    BY LotAssumption DEF LotIndices
  <2>2. \A n \in Nat : n \div 8 \in Nat /\ n % 8 \in 0..7 /\ n = 8 * (n \div 8) + (n % 8)
    OBVIOUS
  <2> QED
    BY <2>1, <2>2
<1>2. i \in {8 * q, 8 * q + 1, 8 * q + 2, 8 * q + 3, 8 * q + 4, 8 * q + 5, 8 * q + 6, 8 * q + 7}
  BY <1>1
<1>3. \A w \in Words : p[w] \in Byte
  BY DEF PackedArray
<1>4. \A x, y \in Byte :
        /\ (x \div 8) % 32 \in Value /\ (x % 8) * 4 + y \div 64 \in Value
        /\ (x \div 2) % 32 \in Value /\ (x % 2) * 16 + y \div 16 \in Value
        /\ (x % 16) * 2 + y \div 128 \in Value /\ (x \div 4) % 32 \in Value
        /\ (x % 4) * 8 + y \div 32 \in Value /\ x % 32 \in Value
  BY DEF Byte, Value
<1> QED
  BY <1>2, <1>3, <1>4, Gets DEF Reads

-----------------------------------------------------------------------------
(* What a refresh makes of the array.                                       *)

\* The lease status that a value shows, and that an array shows of a lot.
StatusOf(value) == Attribute(value, "leaseStatus")
ShownIn(p, lot) == StatusOf(PackedGet(p, lot))

LEMMA AttributeFacts ==
    /\ \A value \in Value, status \in 0..3 :
         /\ WithAttribute(value, "leaseStatus", status) \in Value
         /\ StatusOf(WithAttribute(value, "leaseStatus", status)) = status
    /\ \A value \in Value, bit \in 0..1 :
         /\ WithAttribute(value, "hasCrew", bit) \in Value
         /\ StatusOf(WithAttribute(value, "hasCrew", bit)) = StatusOf(value)
    /\ \A bit \in 0..1, status \in 0..3, type \in 0..3 :
         /\ bit + status * 2^1 + type * 2^3 \in Value
         /\ StatusOf(bit + status * 2^1 + type * 2^3) = status
<1>0. /\ LotAttribute["leaseStatus"].shift = 1 /\ LotAttribute["leaseStatus"].size = 2
      /\ LotAttribute["hasCrew"].shift = 0 /\ LotAttribute["hasCrew"].size = 1
  BY DEF LotAttribute
<1>1. /\ \A value : StatusOf(value) = (value \div 2^1) % 2^2
      /\ \A value, new : WithAttribute(value, "leaseStatus", new) = Put(value, new, 2, 1)
      /\ \A value, new : WithAttribute(value, "hasCrew", new) = Put(value, new, 1, 0)
  BY <1>0 DEF StatusOf, Attribute, WithAttribute
<1>2. ASSUME NEW value \in 0..31, NEW status \in 0..3
      PROVE  /\ Put(value, status, 2, 1) \in 0..31
             /\ (Put(value, status, 2, 1) \div 2^1) % 2^2 = status
  BY Powers DEF Put
<1>3. ASSUME NEW value \in 0..31, NEW bit \in 0..1
      PROVE  /\ Put(value, bit, 1, 0) \in 0..31
             /\ (Put(value, bit, 1, 0) \div 2^1) % 2^2 = (value \div 2^1) % 2^2
  BY Powers DEF Put
<1>4. ASSUME NEW bit \in 0..1, NEW status \in 0..3, NEW type \in 0..3
      PROVE  /\ bit + status * 2^1 + type * 2^3 \in 0..31
             /\ ((bit + status * 2^1 + type * 2^3) \div 2^1) % 2^2 = status
  BY Powers
<1> QED
  BY <1>1, <1>2, <1>3, <1>4 DEF Value

\* One step of SetLeaseStatus, and the recursive function behind it.
WithStatus(p, lot, status) ==
  PackedSet(p, lot, WithAttribute(PackedGet(p, lot), "leaseStatus", status))

SetsOver(p, status, D, g) ==
  g = [s \in D |-> IF s = {} THEN p ELSE WithStatus(g[s \ {AnyOf(s)}], AnyOf(s), status)]

LEMMA SetLeaseStatusUnfolds ==
    ASSUME NEW p, NEW status, NEW S
    PROVE  SetLeaseStatus(p, S, status) = (CHOOSE g : SetsOver(p, status, SUBSET S, g))[S]
BY DEF SetLeaseStatus, FoldSet, MapThenFoldSet, SetsOver, WithStatus, AnyOf

LEMMA SetsUpTo ==
    ASSUME NEW p, NEW status, NEW S, IsFiniteSet(S)
    PROVE  \A n \in Nat : \E g : SetsOver(p, status, UpTo(S, n), g)
<1> DEFINE Bad == {n \in Nat : ~ \E g : SetsOver(p, status, UpTo(S, n), g)}
<1>0. \A s \in SUBSET S :
        IsFiniteSet(s) /\ Cardinality(s) \in Nat /\ (Cardinality(s) = 0 <=> s = {})
  BY FS_Subset, FS_CardinalityType, FS_EmptySet
<1>1. SUFFICES ASSUME Bad # {} PROVE FALSE
  OBVIOUS
<1>2. PICK n \in Bad : \A k \in Bad : n <= k
  <2> HIDE DEF Bad
  <2>1. Bad \in SUBSET Nat
    BY DEF Bad
  <2> QED BY <1>1, <2>1, LeastElement
<1>3. CASE n = 0
  <2>1. \A s \in UpTo(S, n) : s = {}
    BY <1>0, <1>3 DEF UpTo
  <2>2. SetsOver(p, status, UpTo(S, n), [s \in UpTo(S, n) |-> p])
    BY <2>1 DEF SetsOver
  <2> QED
    BY <2>2
<1>4. CASE n # 0
  <2>1. n - 1 \in Nat /\ n - 1 \notin Bad
    BY <1>2, <1>4
  <2>2. PICK g : SetsOver(p, status, UpTo(S, n - 1), g)
    BY <2>1
  <2> DEFINE h == [s \in UpTo(S, n) |->
                     IF s = {} THEN p ELSE WithStatus(g[s \ {AnyOf(s)}], AnyOf(s), status)]
  <2>3. ASSUME NEW s \in UpTo(S, n), s # {}
        PROVE  h[s \ {AnyOf(s)}] = g[s \ {AnyOf(s)}]
    <3> DEFINE r == s \ {AnyOf(s)}
    <3>1. AnyOf(s) \in s
      BY <2>3 DEF AnyOf
    <3>2. r \in UpTo(S, n - 1) /\ r \in UpTo(S, n)
      BY <1>0, <3>1, FS_RemoveElement DEF UpTo
    <3> HIDE DEF r
    <3>3. g[r] = IF r = {} THEN p ELSE WithStatus(g[r \ {AnyOf(r)}], AnyOf(r), status)
      BY <2>2, <3>2 DEF SetsOver
    <3> QED
      BY <3>2, <3>3 DEF r
  <2>4. h = [s \in UpTo(S, n) |->
               IF s = {} THEN p ELSE WithStatus(h[s \ {AnyOf(s)}], AnyOf(s), status)]
    BY <2>3
  <2> HIDE DEF h
  <2>5. SetsOver(p, status, UpTo(S, n), h)
    BY <2>4 DEF SetsOver
  <2> QED
    BY <2>5
<1> QED
  BY <1>3, <1>4

\* new is p but for the lease status of the lots in S.
StatusSet(p, new, S, status) ==
  /\ new \in PackedArray
  /\ \A lot \in S : ShownIn(new, lot) = status
  /\ \A lot \in LotIndices \ S : PackedGet(new, lot) = PackedGet(p, lot)

LEMMA SetLeaseStatusSets ==
    ASSUME NEW p \in PackedArray, NEW status \in 0..3, NEW S \in SUBSET LotIndices
    PROVE  StatusSet(p, SetLeaseStatus(p, S, status), S, status)
<1>0. IsFiniteSet(S) /\ \A s \in SUBSET S : IsFiniteSet(s) /\ Cardinality(s) \in Nat
  <2>1. IsFiniteSet(LotIndices)
    BY LotAssumption, FS_Interval DEF LotIndices
  <2> QED
    BY <2>1, FS_Subset, FS_CardinalityType
<1>1. PICK g : SetsOver(p, status, SUBSET S, g) /\ SetLeaseStatus(p, S, status) = g[S]
  <2>1. UpTo(S, Cardinality(S)) = SUBSET S
    BY <1>0, FS_Subset DEF UpTo
  <2>2. PICK g : SetsOver(p, status, UpTo(S, Cardinality(S)), g)
    BY <1>0, SetsUpTo
  <2>3. SetsOver(p, status, SUBSET S, g)
    BY <2>1, <2>2, Zenon
  <2>4. SetsOver(p, status, SUBSET S, CHOOSE f : SetsOver(p, status, SUBSET S, f))
    BY <2>3, Zenon
  <2> QED
    BY <2>4, SetLeaseStatusUnfolds
<1> DEFINE Holds(s) == StatusSet(p, g[s], s, status)
           Bad == {Cardinality(s) : s \in {r \in SUBSET S : ~Holds(r)}}
<1>2. SUFFICES ASSUME ~Holds(S) PROVE FALSE
  BY <1>1
<1>3. Bad \in SUBSET Nat /\ Bad # {}
  BY <1>0, <1>2
<1>4. PICK n \in Bad : \A k \in Bad : n <= k
  <2> HIDE DEF Bad
  <2> QED BY <1>3, LeastElement
<1>5. PICK s \in SUBSET S : ~Holds(s) /\ Cardinality(s) = n
  BY <1>4
<1>6. ASSUME NEW r \in SUBSET S, Cardinality(r) < Cardinality(s) PROVE Holds(r)
  <2> HIDE DEF Holds
  <2>1. ~Holds(r) => Cardinality(r) \in Bad
    OBVIOUS
  <2> HIDE DEF Bad
  <2> QED
    BY <1>0, <1>4, <1>5, <1>6, <2>1
<1>7. g[s] = IF s = {} THEN p ELSE WithStatus(g[s \ {AnyOf(s)}], AnyOf(s), status)
  BY <1>1, <1>5 DEF SetsOver
<1>8. CASE s = {}
  BY <1>5, <1>7, <1>8 DEF StatusSet
<1>9. CASE s # {}
  <2> DEFINE a == AnyOf(s)
             q == g[s \ {a}]
             v == WithAttribute(PackedGet(q, a), "leaseStatus", status)
  <2>1. a \in s /\ a \in LotIndices
    BY <1>5, <1>9 DEF AnyOf
  <2>2. StatusSet(p, q, s \ {a}, status)
    <3> HIDE DEF a, v
    <3>1. Cardinality(s \ {a}) = Cardinality(s) - 1
      BY <1>0, <1>5, <2>1, FS_RemoveElement
    <3>2. Cardinality(s \ {a}) < Cardinality(s) /\ s \ {a} \in SUBSET S
      BY <1>0, <1>5, <3>1
    <3> QED
      BY <1>6, <3>2
  <2>3. g[s] = PackedSet(q, a, v)
    BY <1>7, <1>9 DEF WithStatus
  <2> HIDE DEF a, q
  <2>4. q \in PackedArray /\ v \in Value /\ StatusOf(v) = status
    BY <2>1, <2>2, PackedGets, AttributeFacts DEF StatusSet
  <2> HIDE DEF v
  <2>5. SetOnly(q, g[s], a, v)
    BY <2>1, <2>3, <2>4, PackedSetsOnly
  <2>6. Holds(s)
    BY <1>5, <2>1, <2>2, <2>4, <2>5 DEF StatusSet, SetOnly, ShownIn
  <2> QED
    BY <1>5, <2>6
<1> QED
  BY <1>8, <1>9

-----------------------------------------------------------------------------
(* Why the array shows the leases: the invariant of the two writers.        *)

What == {"lot", "leaseStatus", "leaseable", "nonLeaseable", "hasCrew"}
Job == [stage : {"due", "read", "computed"}, what : What, lot : LotIndices,
        again : BOOLEAN, read : PackedArray \cup {Missing},
        packed : PackedArray \cup {Missing}, overtaken : BOOLEAN]

LotTypeOK ==
  /\ agreement \in [LotIndices -> {"none", "running", "expired"}]
  /\ policy \subseteq Policies
  /\ building \in [LotIndices -> BuildingTypes]
  /\ crew \subseteq LotIndices
  /\ array \in PackedArray \cup {Missing}
  /\ refresh \in [Writers -> Job \cup {NoRefresh}]
  /\ auditQueue \subseteq LotIndices
  /\ redo \in Job \cup {NoRefresh}
  /\ disturbed \in BOOLEAN

Working(w) == refresh[w].stage \in {"read", "computed"}
Fresh(w) == Working(w) /\ ~refresh[w].overtaken

\* What is left to do of the event that the processor is at.
Pending == {job \in {refresh["processor"], redo} : job.stage # "none"}

\* A refresh works on arrays; what it read is the array until another is done.
\* Only what a second processing would refresh again is processed again.
RefreshInv ==
  /\ \A w \in Writers :
       /\ Working(w) => {array, refresh[w].read, refresh[w].packed} \subseteq PackedArray
       /\ Fresh(w) => refresh[w].read = array
       /\ refresh[w].stage = "read" => refresh[w].packed = refresh[w].read
  /\ refresh["audit"].stage # "none" => refresh["audit"].what = "leaseStatus"
  /\ redo.stage \in {"none", "due"}
  /\ redo.stage # "none" => refresh["processor"].stage = "none"
  /\ \A job \in Pending : /\ job.what = "nonLeaseable" => ~job.again
                          /\ job.what = "leaseable" => policy # {}

\* A refresh of one lot changes no other.
OneLot ==
  \A w \in Writers :
    refresh[w].stage = "computed" /\ refresh[w].what \notin {"leaseable", "nonLeaseable"} =>
      \A lot \in LotIndices \ {refresh[w].lot} :
        PackedGet(refresh[w].packed, lot) = PackedGet(refresh[w].read, lot)

\* The event that the processor is at is about the lease of the lot, or ends a
\* policy: what the array shows of it is due to change.
LeaseDue(lot) == \E job \in Pending : job.what = "leaseStatus" /\ job.lot = lot
PolicyDue == \E job \in Pending : job.what = "nonLeaseable"

\* The leases that the array has to show, and whether it has to offer no lot.
Leases == {lot \in LotIndices : HasLeaseAgreement(lot)}
LeasesDone == {lot \in Leases : ~LeaseDue(lot)}
OffersDone == policy = {} /\ ~PolicyDue

Shows(p, leases, noOffers) ==
  /\ \A lot \in leases : ShownIn(p, lot) = 2
  /\ noOffers => \A lot \in LotIndices : ShownIn(p, lot) # 1

\* Of an array that the processor is about to write, nothing is due.
LeasesShown ==
  ~disturbed =>
    /\ IF array = Missing THEN LeasesDone = {} ELSE Shows(array, LeasesDone, OffersDone)
    /\ Fresh("audit") /\ refresh["audit"].stage = "computed" =>
         Shows(refresh["audit"].packed, LeasesDone, OffersDone)
    /\ Fresh("processor") /\ refresh["processor"].stage = "computed" =>
         Shows(refresh["processor"].packed, Leases, policy = {})

LotInv == LotTypeOK /\ RefreshInv /\ OneLot /\ LeasesShown

\* An array that was just created shows nothing.
LEMMA ZerosShowNothing == Zeros \in PackedArray /\ \A lot \in LotIndices : ShownIn(Zeros, lot) = 0
<1>1. Zeros \in PackedArray /\ \A w \in Words : Zeros[w] = 0
  BY DEF Zeros, PackedArray, Byte
<1> HIDE DEF Zeros
<1>2. ASSUME NEW lot \in LotIndices PROVE PackedGet(Zeros, lot) = 0
  <2>1. PICK q \in Nat, r \in 0..7 : lot = 8 * q + r
    <3>1. lot \in Nat
      BY LotAssumption DEF LotIndices
    <3>2. \A n \in Nat : n \div 8 \in Nat /\ n % 8 \in 0..7 /\ n = 8 * (n \div 8) + (n % 8)
      OBVIOUS
    <3> QED
      BY <3>1, <3>2
  <2>2. lot \in {8 * q, 8 * q + 1, 8 * q + 2, 8 * q + 3,
                 8 * q + 4, 8 * q + 5, 8 * q + 6, 8 * q + 7}
    BY <2>1
  <2>3. Reads(Zeros, q)
    BY <1>1, Gets
  <2> QED
    BY <1>1, <2>2, <2>3 DEF Reads
<1>3. StatusOf(0) = 0
  <2>1. LotAttribute["leaseStatus"].shift = 1 /\ LotAttribute["leaseStatus"].size = 2
    BY DEF LotAttribute
  <2>2. StatusOf(0) = (0 \div 2^1) % 2^2
    BY <2>1 DEF StatusOf, Attribute
  <2>3. (0 \div 2^1) % 2^2 = 0
    BY Powers
  <2> QED
    BY <2>2, <2>3
<1> QED
  BY <1>1, <1>2, <1>3 DEF ShownIn

\* The status that the documents give a lot.
LEMMA LeaseStatuses ==
    ASSUME NEW lot
    PROVE  /\ GetLeaseStatus(lot) \in 0..3
           /\ HasLeaseAgreement(lot) => GetLeaseStatus(lot) = 2
           /\ policy = {} => GetLeaseStatus(lot) # 1
BY DEF GetLeaseStatus

\* What the computation of a refresh makes of what an array shows.
Improves(p, new, job) ==
  /\ new \in PackedArray
  /\ job.what \notin {"leaseable", "nonLeaseable"} =>
       \A lot \in LotIndices \ {job.lot} : PackedGet(new, lot) = PackedGet(p, lot)
  /\ \A lot \in LotIndices :
       HasLeaseAgreement(lot)
         /\ (ShownIn(p, lot) = 2 \/ (job.what = "leaseStatus" /\ job.lot = lot))
       => ShownIn(new, lot) = 2
  /\ policy = {} /\ job.what # "leaseable"
       /\ (job.what = "nonLeaseable" \/ \A lot \in LotIndices : ShownIn(p, lot) # 1)
     => \A lot \in LotIndices : ShownIn(new, lot) # 1

LEMMA OneLotImproves ==
    ASSUME NEW p \in PackedArray, NEW job \in Job, NEW v \in Value,
           job.what \notin {"leaseable", "nonLeaseable"},
           HasLeaseAgreement(job.lot) =>
             StatusOf(v) = 2 \/ (job.what # "leaseStatus" /\ StatusOf(v) = ShownIn(p, job.lot)),
           policy = {} => StatusOf(v) # 1 \/ StatusOf(v) = ShownIn(p, job.lot)
    PROVE  Improves(p, PackedSet(p, job.lot, v), job)
<1> DEFINE lot == job.lot
           new == PackedSet(p, lot, v)
<1>1. lot \in LotIndices
  BY DEF Job
<1>2. SetOnly(p, new, lot, v)
  BY <1>1, PackedSetsOnly
<1> HIDE DEF new
<1>3. new \in PackedArray /\ ShownIn(new, lot) = StatusOf(v)
  BY <1>2 DEF SetOnly, ShownIn
<1>4. \A l \in LotIndices \ {lot} :
        PackedGet(new, l) = PackedGet(p, l) /\ ShownIn(new, l) = ShownIn(p, l)
  BY <1>2 DEF SetOnly, ShownIn
<1>5. \A l \in LotIndices :
        HasLeaseAgreement(l) /\ (ShownIn(p, l) = 2 \/ (job.what = "leaseStatus" /\ lot = l))
          => ShownIn(new, l) = 2
  BY <1>3, <1>4
<1>6. policy = {} /\ (\A l \in LotIndices : ShownIn(p, l) # 1)
        => \A l \in LotIndices : ShownIn(new, l) # 1
  BY <1>1, <1>3, <1>4
<1>7. Improves(p, new, job)
  BY <1>3, <1>4, <1>5, <1>6 DEF Improves
<1> QED
  BY <1>7 DEF new

LEMMA RefreshedImproves ==
    ASSUME LotTypeOK, NEW p \in PackedArray, NEW job \in Job
    PROVE  Improves(p, Refreshed(p, job), job)
<1> DEFINE lot == job.lot
           new == Refreshed(p, job)
<1>0. lot \in LotIndices /\ job.what \in What
  BY DEF Job
<1>2. CASE job.what = "leaseStatus"
  <2> DEFINE v == WithAttribute(PackedGet(p, lot), "leaseStatus", GetLeaseStatus(lot))
  <2>1. new = PackedSet(p, lot, v)
    BY <1>2 DEF Refreshed, UpdateLotAttribute, Compute
  <2>2. v \in Value /\ StatusOf(v) = GetLeaseStatus(lot)
    BY <1>0, AttributeFacts, LeaseStatuses, PackedGets
  <2> HIDE DEF v
  <2>3. /\ HasLeaseAgreement(lot) => StatusOf(v) = 2
        /\ policy = {} => StatusOf(v) # 1
    BY <2>2, LeaseStatuses
  <2>4. Improves(p, PackedSet(p, lot, v), job)
    BY <1>2, <2>2, <2>3, OneLotImproves
  <2> QED
    BY <2>1, <2>4
<1>3. CASE job.what = "hasCrew"
  <2> DEFINE bit == IF lot \in crew THEN 1 ELSE 0
             v == WithAttribute(PackedGet(p, lot), "hasCrew", bit)
  <2>1. new = PackedSet(p, lot, v)
    BY <1>3 DEF Refreshed, UpdateLotAttribute, Compute
  <2>2. v \in Value /\ StatusOf(v) = ShownIn(p, lot)
    <3>1. bit \in 0..1
      OBVIOUS
    <3> QED
      BY <1>0, <3>1, AttributeFacts, PackedGets DEF ShownIn
  <2> HIDE DEF v
  <2>3. Improves(p, PackedSet(p, lot, v), job)
    BY <1>3, <2>2, OneLotImproves
  <2> QED
    BY <2>1, <2>3
<1>4. CASE job.what = "lot"
  <2> DEFINE bit == IF lot \in crew THEN 1 ELSE 0
             v == bit + GetLeaseStatus(lot) * 2^1 + building[lot] * 2^3
  <2>1. new = PackedSet(p, lot, v)
    BY <1>4 DEF Refreshed, Update, Compute, LotAttribute
  <2>2. v \in Value /\ StatusOf(v) = GetLeaseStatus(lot)
    <3>1. bit \in 0..1
      OBVIOUS
    <3>2. building[lot] \in BuildingTypes
      BY <1>0 DEF LotTypeOK
    <3>3. building[lot] \in 0..3
      BY <3>2, LotAssumption
    <3> HIDE DEF bit
    <3> QED
      BY <3>1, <3>3, AttributeFacts, LeaseStatuses
  <2> HIDE DEF v
  <2>3. /\ HasLeaseAgreement(lot) => StatusOf(v) = 2
        /\ policy = {} => StatusOf(v) # 1
    BY <2>2, LeaseStatuses
  <2>4. Improves(p, PackedSet(p, lot, v), job)
    BY <1>4, <2>2, <2>3, OneLotImproves
  <2> QED
    BY <2>1, <2>4
<1>5. CASE job.what \in {"leaseable", "nonLeaseable"}
  <2> DEFINE others == {l \in LotIndices : ShownIn(p, l) # 2}
             set == IF job.what = "leaseable" THEN others \ OwnBuilding ELSE others
             status == IF job.what = "leaseable" THEN 1 ELSE 0
  <2>1. WithoutAgreement(p) = others
    BY DEF WithoutAgreement, ShowsAgreement, ShownIn, StatusOf
  <2>2. new = SetLeaseStatus(p, set, status)
    BY <1>5, <2>1 DEF Refreshed, UpdateLotsToLeaseable, UpdateLotsToNonLeaseable
  <2>3. set \in SUBSET LotIndices /\ status \in 0..3
    OBVIOUS
  <2>4. \A l \in set : ShownIn(p, l) # 2
    OBVIOUS
  <2>5. job.what = "nonLeaseable" => \A l \in LotIndices \ set : ShownIn(p, l) = 2
    OBVIOUS
  <2> HIDE DEF new, set
  <2>6. StatusSet(p, new, set, status)
    BY <2>2, <2>3, SetLeaseStatusSets
  <2>7. job.what = "nonLeaseable" => \A l \in LotIndices : ShownIn(new, l) # 1
    BY <2>3, <2>5, <2>6 DEF StatusSet, ShownIn
  <2>8. \A l \in LotIndices : ShownIn(p, l) = 2 => ShownIn(new, l) = 2
    BY <2>4, <2>6 DEF StatusSet, ShownIn
  <2>9. new \in PackedArray
    BY <2>6 DEF StatusSet
  <2>10. Improves(p, new, job)
    BY <1>5, <2>7, <2>8, <2>9 DEF Improves
  <2> QED
    BY <2>10 DEF new
<1> QED
  BY <1>0, <1>2, <1>3, <1>4, <1>5 DEF What

LEMMA MissingIsNoArray == Missing \notin PackedArray
<1>1. 0 \in Words
  <2>1. \A n \in Nat \ {0} : (n * 5 + 7) \div 8 \in Nat \ {0}
    OBVIOUS
  <2>2. Words = 0 .. ((LotCount * 5 + 7) \div 8) - 1
    BY DEF Words, Width, WordBits
  <2> QED
    BY <2>1, <2>2, LotAssumption
<1>2. \A p \in PackedArray : 0 \in DOMAIN p
  BY <1>1 DEF PackedArray
<1>3. 0 \notin DOMAIN Missing
  BY DEF Missing
<1> QED
  BY <1>2, <1>3

LEMMA JobsAreNoRefresh == NoRefresh.stage = "none" /\ \A job \in Job : job.stage # "none"
BY DEF NoRefresh, Job

LEMMA DueIsJob ==
    ASSUME NEW what \in What, NEW lot \in LotIndices, NEW again \in BOOLEAN
    PROVE  /\ Due(what, lot, again) \in Job
           /\ Due(what, lot, again).stage = "due" /\ Due(what, lot, again).what = what
           /\ Due(what, lot, again).lot = lot /\ Due(what, lot, again).again = again
BY DEF Due, Job

LEMMA LotInitial == LotInit => LotInv
<1> SUFFICES ASSUME LotInit PROVE LotInv
  OBVIOUS
<1>1. /\ \A lot \in LotIndices : agreement[lot] = "none"
      /\ \A w \in Writers : refresh[w].stage = "none"
      /\ redo.stage = "none" /\ array = Missing /\ policy = {}
  BY DEF LotInit, NoRefresh
<1>2. LotTypeOK
  BY LotAssumption DEF LotInit, LotTypeOK
<1>3. RefreshInv /\ OneLot
  BY <1>1 DEF RefreshInv, OneLot, Working, Fresh, Pending, Writers
<1>4. LeasesShown
  BY <1>1 DEF LeasesShown, Fresh, Working, LeasesDone, Leases, HasLeaseAgreement, Writers
<1> QED
  BY <1>2, <1>3, <1>4 DEF LotInv

\* What is due when the processor has an event, or has none.
LEMMA PendingMeans ==
    /\ \A lot : LeaseDue(lot) <=>
         \/ /\ refresh["processor"].stage # "none" /\ refresh["processor"].what = "leaseStatus"
            /\ refresh["processor"].lot = lot
         \/ redo.stage # "none" /\ redo.what = "leaseStatus" /\ redo.lot = lot
    /\ PolicyDue <=>
         \/ refresh["processor"].stage # "none" /\ refresh["processor"].what = "nonLeaseable"
         \/ redo.stage # "none" /\ redo.what = "nonLeaseable"
BY DEF LeaseDue, PolicyDue, Pending

\* Less to show is shown as well.
LEMMA ShowsLess ==
    ASSUME NEW p, NEW leases, NEW noOffers, Shows(p, leases, noOffers),
           NEW fewer \in SUBSET leases, NEW none, none => noOffers
    PROVE  Shows(p, fewer, none)
BY DEF Shows

\* An event: what the handler stored is due to show, and nothing else is.
LEMMA EventKeeps ==
    ASSUME LotInv, NEW what \in What, NEW lot \in LotIndices, NEW again \in BOOLEAN,
           LotEvent(what, lot, again),
           agreement' \in [LotIndices -> {"none", "running", "expired"}],
           policy' \subseteq Policies, building' \in [LotIndices -> BuildingTypes],
           crew' \subseteq LotIndices,
           what = "nonLeaseable" => ~again,
           what = "leaseable" => policy' # {},
           \A l \in LotIndices :
             agreement'[l] = "running" =>
               agreement[l] = "running" \/ (what = "leaseStatus" /\ lot = l),
           policy' = {} => policy = {} \/ what = "nonLeaseable"
    PROVE  LotInv'
<1> DEFINE new == Due(what, lot, again)
<1>0. LotTypeOK /\ RefreshInv /\ OneLot /\ LeasesShown
  BY DEF LotInv
<1>1. /\ refresh["processor"].stage = "none" /\ redo.stage = "none"
      /\ refresh' = [refresh EXCEPT !["processor"] = new]
      /\ UNCHANGED <<array, auditQueue, redo, disturbed>>
  BY DEF LotEvent
<1>2. /\ new \in Job /\ new.stage = "due" /\ new.what = what /\ new.lot = lot
      /\ new.again = again
  BY DueIsJob
<1> HIDE DEF new
<1>3. /\ refresh' \in [Writers -> Job \cup {NoRefresh}]
      /\ refresh'["processor"] = new /\ refresh'["audit"] = refresh["audit"]
      /\ \A w \in Writers : w = "processor" \/ w = "audit"
  BY <1>0, <1>1, <1>2 DEF LotTypeOK, Writers
<1>4. LotTypeOK'
  BY <1>0, <1>1, <1>3 DEF LotTypeOK
<1>5. Pending' = {new}
  BY <1>1, <1>2, <1>3 DEF Pending
<1>6. RefreshInv'
  <2>1. \A w \in Writers : Working(w)' => w = "audit" /\ refresh'[w] = refresh[w] /\ Working(w)
    BY <1>2, <1>3 DEF Working
  <2>2. \A w \in Writers :
          /\ Working(w)' => {array', refresh'[w].read, refresh'[w].packed} \subseteq PackedArray
          /\ Fresh(w)' => refresh'[w].read = array'
          /\ refresh'[w].stage = "read" => refresh'[w].packed = refresh'[w].read
    BY <1>0, <1>1, <2>1 DEF RefreshInv, Fresh, Working
  <2> QED
    BY <1>0, <1>1, <1>2, <1>3, <1>5, <2>2 DEF RefreshInv
<1>7. OneLot'
  BY <1>0, <1>2, <1>3 DEF OneLot
<1>8. LeasesShown'
  <2>1. /\ \A l : ~LeaseDue(l)
        /\ ~PolicyDue
    BY <1>1, PendingMeans
  <2>2. /\ \A l : LeaseDue(l)' <=> what = "leaseStatus" /\ lot = l
        /\ PolicyDue' <=> what = "nonLeaseable"
    BY <1>2, <1>5 DEF LeaseDue, PolicyDue
  <2>3. LeasesDone' \subseteq LeasesDone /\ (OffersDone' => OffersDone)
    BY <2>1, <2>2 DEF LeasesDone, Leases, OffersDone, HasLeaseAgreement
  <2>4. Fresh("audit")' => Fresh("audit")
    BY <1>3 DEF Fresh, Working
  <2>5. ~Fresh("processor")'
    BY <1>2, <1>3 DEF Fresh, Working
  <2> QED
    BY <1>0, <1>1, <1>3, <2>3, <2>4, <2>5, ShowsLess DEF LeasesShown
<1> QED
  BY <1>4, <1>6, <1>7, <1>8 DEF LotInv

LEMMA EventsKeep ==
    ASSUME LotInv,
           \/ \E lot \in LotIndices :
                \/ AgreementSigned(lot)
                \/ AgreementRemoved(lot)
                \/ \E type \in BuildingTypes : BuildingChanged(lot, type)
                \/ CrewMoved(lot)
           \/ \E p \in Policies : PolicyAssigned(p) \/ PolicyRemoved(p)
    PROVE  LotInv'
<1>0. /\ agreement \in [LotIndices -> {"none", "running", "expired"}]
      /\ policy \subseteq Policies /\ building \in [LotIndices -> BuildingTypes]
      /\ crew \subseteq LotIndices
      /\ {"leaseStatus", "leaseable", "nonLeaseable", "lot", "hasCrew"} \subseteq What
  BY DEF LotInv, LotTypeOK, What
<1>1. ASSUME NEW lot \in LotIndices, AgreementSigned(lot) PROVE LotInv'
  <2>1. /\ agreement' = [agreement EXCEPT ![lot] = "running"]
        /\ LotEvent("leaseStatus", lot, TRUE) /\ UNCHANGED <<policy, building, crew>>
    BY <1>1 DEF AgreementSigned
  <2>2. /\ agreement' \in [LotIndices -> {"none", "running", "expired"}]
        /\ \A l \in LotIndices : agreement'[l] = "running" => agreement[l] = "running" \/ lot = l
    BY <1>0, <2>1
  <2> QED
    BY <1>0, <2>1, <2>2, EventKeeps
<1>2. ASSUME NEW lot \in LotIndices, AgreementRemoved(lot) PROVE LotInv'
  <2>1. /\ agreement' = [agreement EXCEPT ![lot] = "none"]
        /\ LotEvent("leaseStatus", lot, FALSE) /\ UNCHANGED <<policy, building, crew>>
    BY <1>2 DEF AgreementRemoved
  <2>2. /\ agreement' \in [LotIndices -> {"none", "running", "expired"}]
        /\ \A l \in LotIndices : agreement'[l] = "running" => agreement[l] = "running"
    BY <1>0, <2>1
  <2> QED
    BY <1>0, <2>1, <2>2, EventKeeps
<1>3. ASSUME NEW lot \in LotIndices, NEW type \in BuildingTypes, BuildingChanged(lot, type)
      PROVE  LotInv'
  <2>1. /\ building' = [building EXCEPT ![lot] = type]
        /\ LotEvent("lot", lot, FALSE) /\ UNCHANGED <<agreement, policy, crew>>
    BY <1>3 DEF BuildingChanged
  <2>2. building' \in [LotIndices -> BuildingTypes]
    BY <1>0, <2>1
  <2> QED
    BY <1>0, <2>1, <2>2, EventKeeps
<1>4. ASSUME NEW lot \in LotIndices, CrewMoved(lot) PROVE LotInv'
  <2>1. /\ crew' \subseteq LotIndices
        /\ LotEvent("hasCrew", lot, FALSE) /\ UNCHANGED <<agreement, policy, building>>
    BY <1>0, <1>4 DEF CrewMoved
  <2> QED
    BY <1>0, <2>1, EventKeeps
<1>5. 0 \in LotIndices
  BY LotAssumption DEF LotIndices
<1>6. ASSUME NEW p \in Policies, PolicyAssigned(p) PROVE LotInv'
  <2>1. /\ policy' = policy \cup {p}
        /\ LotEvent("leaseable", 0, TRUE) /\ UNCHANGED <<agreement, building, crew>>
    BY <1>6 DEF PolicyAssigned
  <2>2. policy' \subseteq Policies /\ policy' # {}
    BY <1>0, <2>1
  <2> QED
    BY <1>0, <1>5, <2>1, <2>2, EventKeeps
<1>7. ASSUME NEW p \in Policies, PolicyRemoved(p) PROVE LotInv'
  <2>1. /\ policy' = policy \ {p}
        /\ LotEvent("nonLeaseable", 0, FALSE) /\ UNCHANGED <<agreement, building, crew>>
    BY <1>7 DEF PolicyRemoved
  <2>2. policy' \subseteq Policies
    BY <1>0, <2>1
  <2> QED
    BY <1>0, <1>5, <2>1, <2>2, EventKeeps
<1> QED
  BY <1>1, <1>2, <1>3, <1>4, <1>6, <1>7

\* What is due stays due while a refresh goes on.
LEMMA DueStays ==
    ASSUME UNCHANGED factVars,
           \A lot : LeaseDue(lot) => LeaseDue(lot)',
           PolicyDue => PolicyDue'
    PROVE  /\ Leases' = Leases /\ (policy' = {} <=> policy = {})
           /\ LeasesDone' \subseteq LeasesDone /\ (OffersDone' => OffersDone)
BY DEF factVars, Leases, LeasesDone, OffersDone, HasLeaseAgreement

LEMMA ReadKeeps ==
    ASSUME LotInv, NEW w \in Writers, LotRead(w)
    PROVE  LotInv'
<1>0. LotTypeOK /\ RefreshInv /\ OneLot /\ LeasesShown
  BY DEF LotInv
<1> DEFINE new == [refresh[w] EXCEPT !.stage = "read", !.read = array', !.packed = array']
<1>1. /\ refresh[w].stage = "due" /\ array' = IF array = Missing THEN Zeros ELSE array
      /\ refresh' = [refresh EXCEPT ![w] = new]
      /\ UNCHANGED <<factVars, auditQueue, redo, disturbed>>
  BY DEF LotRead
<1>2. refresh[w] \in Job /\ array' \in PackedArray /\ array' # Missing
  BY <1>0, <1>1, ZerosShowNothing, MissingIsNoArray DEF LotTypeOK, NoRefresh
<1>3. /\ new \in Job /\ new.stage = "read" /\ new.read = array' /\ new.packed = array'
      /\ new.what = refresh[w].what /\ new.lot = refresh[w].lot
      /\ new.again = refresh[w].again
  BY <1>2 DEF Job
<1> HIDE DEF new
<1>4. /\ refresh' \in [Writers -> Job \cup {NoRefresh}]
      /\ refresh'[w] = new /\ \A v \in Writers \ {w} : refresh'[v] = refresh[v]
  BY <1>0, <1>1, <1>3 DEF LotTypeOK
<1>5. LotTypeOK'
  BY <1>0, <1>1, <1>2, <1>4 DEF LotTypeOK, factVars
<1>6. \A v \in Writers : Working(v) => array' = array
  BY <1>0, <1>1, MissingIsNoArray DEF RefreshInv
<1>7. \A v \in Writers :
        /\ refresh'[v].stage # "none" <=> refresh[v].stage # "none"
        /\ refresh'[v].what = refresh[v].what /\ refresh'[v].lot = refresh[v].lot
        /\ refresh'[v].again = refresh[v].again
  BY <1>1, <1>3, <1>4
<1>8. RefreshInv'
  <2>1. ASSUME NEW v \in Writers
        PROVE  /\ Working(v)' =>
                    {array', refresh'[v].read, refresh'[v].packed} \subseteq PackedArray
               /\ Fresh(v)' => refresh'[v].read = array'
               /\ refresh'[v].stage = "read" => refresh'[v].packed = refresh'[v].read
    <3>1. CASE v = w
      BY <1>2, <1>3, <1>4, <3>1
    <3>2. CASE v # w
      BY <1>0, <1>2, <1>4, <1>6, <3>2 DEF RefreshInv, Working, Fresh
    <3> QED
      BY <3>1, <3>2
  <2>2. \A job \in Pending' : /\ job.what = "nonLeaseable" => ~job.again
                              /\ job.what = "leaseable" => policy' # {}
    BY <1>0, <1>1, <1>7 DEF RefreshInv, Pending, Writers, factVars
  <2> QED
    BY <1>0, <1>1, <1>7, <2>1, <2>2 DEF RefreshInv, Writers
<1>9. OneLot'
  BY <1>0, <1>3, <1>4 DEF OneLot
<1>10. LeasesShown'
  <2>1. /\ \A lot : LeaseDue(lot) => LeaseDue(lot)'
        /\ PolicyDue => PolicyDue'
    BY <1>1, <1>7, PendingMeans DEF LeaseDue, PolicyDue, Pending, Writers
  <2>2. LeasesDone' \subseteq LeasesDone /\ (OffersDone' => OffersDone) /\ Leases' = Leases
        /\ (policy' = {} <=> policy = {})
    BY <1>1, <2>1, DueStays
  <2>3. ~disturbed => Shows(array', LeasesDone', OffersDone')
    <3>1. CASE array = Missing
      BY <1>0, <1>1, <2>2, <3>1, ZerosShowNothing DEF LeasesShown, Shows
    <3>2. CASE array # Missing
      BY <1>0, <1>1, <2>2, <3>2, ShowsLess DEF LeasesShown
    <3> QED
      BY <3>1, <3>2
  <2>4. \A v \in Writers : Fresh(v)' /\ refresh'[v].stage = "computed" =>
          v # w /\ refresh'[v] = refresh[v] /\ Fresh(v) /\ refresh[v].stage = "computed"
    BY <1>3, <1>4 DEF Fresh, Working
  <2>5. ~disturbed /\ Fresh("audit")' /\ refresh'["audit"].stage = "computed" =>
          Shows(refresh'["audit"].packed, LeasesDone', OffersDone')
    BY <1>0, <2>2, <2>4, ShowsLess DEF LeasesShown, Writers
  <2>6. ~disturbed /\ Fresh("processor")' /\ refresh'["processor"].stage = "computed" =>
          Shows(refresh'["processor"].packed, Leases', policy' = {})
    BY <1>0, <2>2, <2>4, ShowsLess DEF LeasesShown, Writers
  <2> QED
    BY <1>1, <1>2, <2>3, <2>5, <2>6 DEF LeasesShown
<1> QED
  BY <1>5, <1>8, <1>9, <1>10 DEF LotInv

LEMMA ComputeKeeps ==
    ASSUME LotInv, NEW w \in Writers, LotCompute(w)
    PROVE  LotInv'
<1>0. LotTypeOK /\ RefreshInv /\ OneLot /\ LeasesShown
  BY DEF LotInv
<1> DEFINE p == refresh[w].packed
           result == Refreshed(p, refresh[w])
           new == [refresh[w] EXCEPT !.stage = "computed", !.packed = result]
<1>1. /\ refresh[w].stage = "read" /\ refresh' = [refresh EXCEPT ![w] = new]
      /\ UNCHANGED <<factVars, array, auditQueue, redo, disturbed>>
  BY DEF LotCompute
<1>2. /\ refresh[w] \in Job /\ p = refresh[w].read /\ {array, p} \subseteq PackedArray
      /\ ~refresh[w].overtaken => p = array
  BY <1>0, <1>1 DEF LotTypeOK, NoRefresh, RefreshInv, Working, Fresh
<1>3. Improves(p, result, refresh[w])
  BY <1>0, <1>2, RefreshedImproves
<1> HIDE DEF result
<1>4. result \in PackedArray
  BY <1>3 DEF Improves
<1>5. /\ new \in Job /\ new.stage = "computed" /\ new.read = p /\ new.packed = result
      /\ new.what = refresh[w].what /\ new.lot = refresh[w].lot
      /\ new.again = refresh[w].again /\ new.overtaken = refresh[w].overtaken
  BY <1>2, <1>4 DEF Job
<1> HIDE DEF new, p
<1>6. /\ refresh' \in [Writers -> Job \cup {NoRefresh}]
      /\ refresh'[w] = new /\ \A v \in Writers \ {w} : refresh'[v] = refresh[v]
  BY <1>0, <1>1, <1>5 DEF LotTypeOK
<1>7. LotTypeOK'
  BY <1>0, <1>1, <1>6 DEF LotTypeOK, factVars
<1>8. \A v \in Writers :
        /\ refresh'[v].stage # "none" <=> refresh[v].stage # "none"
        /\ refresh'[v].what = refresh[v].what /\ refresh'[v].lot = refresh[v].lot
        /\ refresh'[v].again = refresh[v].again
  BY <1>1, <1>5, <1>6
<1>9. RefreshInv'
  <2>1. ASSUME NEW v \in Writers
        PROVE  /\ Working(v)' =>
                    {array', refresh'[v].read, refresh'[v].packed} \subseteq PackedArray
               /\ Fresh(v)' => refresh'[v].read = array'
               /\ refresh'[v].stage = "read" => refresh'[v].packed = refresh'[v].read
    <3>1. CASE v = w
      BY <1>1, <1>2, <1>4, <1>5, <1>6, <3>1 DEF Fresh
    <3>2. CASE v # w
      BY <1>0, <1>1, <1>6, <3>2 DEF RefreshInv, Working, Fresh
    <3> QED
      BY <3>1, <3>2
  <2>2. \A job \in Pending' : /\ job.what = "nonLeaseable" => ~job.again
                              /\ job.what = "leaseable" => policy' # {}
    BY <1>0, <1>1, <1>8 DEF RefreshInv, Pending, Writers, factVars
  <2> QED
    BY <1>0, <1>1, <1>8, <2>1, <2>2 DEF RefreshInv, Writers
<1>10. OneLot'
  <2>1. ASSUME NEW v \in Writers, refresh'[v].stage = "computed",
               refresh'[v].what \notin {"leaseable", "nonLeaseable"},
               NEW lot \in LotIndices \ {refresh'[v].lot}
        PROVE  PackedGet(refresh'[v].packed, lot) = PackedGet(refresh'[v].read, lot)
    <3>1. CASE v = w
      BY <1>3, <1>5, <1>6, <2>1, <3>1 DEF Improves
    <3>2. CASE v # w
      BY <1>0, <1>6, <2>1, <3>2 DEF OneLot
    <3> QED
      BY <3>1, <3>2
  <2> QED
    BY <2>1 DEF OneLot
<1>11. LeasesShown'
  <2>1. /\ \A lot : LeaseDue(lot) => LeaseDue(lot)'
        /\ PolicyDue => PolicyDue'
    BY <1>1, <1>8, PendingMeans DEF LeaseDue, PolicyDue, Pending, Writers
  <2>2. LeasesDone' \subseteq LeasesDone /\ (OffersDone' => OffersDone) /\ Leases' = Leases
        /\ (policy' = {} <=> policy = {})
    BY <1>1, <2>1, DueStays
  <2>3. ~disturbed => /\ Shows(array, LeasesDone, OffersDone)
                      /\ Shows(array', LeasesDone', OffersDone')
    BY <1>0, <1>1, <1>2, <2>2, ShowsLess, MissingIsNoArray DEF LeasesShown
  <2>4. \A v \in Writers : v # w /\ Fresh(v)' => refresh'[v] = refresh[v] /\ Fresh(v)
    BY <1>6 DEF Fresh, Working
  <2>5. ASSUME ~disturbed, Fresh("audit")', refresh'["audit"].stage = "computed"
        PROVE  Shows(refresh'["audit"].packed, LeasesDone', OffersDone')
    <3>1. CASE w = "audit"
      <4>1. p = array /\ refresh'["audit"].packed = result
        BY <1>2, <1>5, <1>6, <2>5, <3>1 DEF Fresh
      <4>2. refresh[w].what = "leaseStatus"
        BY <1>0, <1>1, <3>1 DEF RefreshInv
      <4>3. \A lot \in LotIndices : HasLeaseAgreement(lot) /\ ShownIn(p, lot) = 2
                                      => ShownIn(result, lot) = 2
        BY <1>3 DEF Improves
      <4>4. policy = {} /\ (\A lot \in LotIndices : ShownIn(p, lot) # 1)
              => \A lot \in LotIndices : ShownIn(result, lot) # 1
        BY <1>3, <4>2 DEF Improves
      <4>5. Shows(result, LeasesDone, OffersDone)
        BY <2>3, <2>5, <4>1, <4>3, <4>4 DEF Shows, LeasesDone, Leases, OffersDone
      <4> QED
        BY <2>2, <4>1, <4>5, ShowsLess
    <3>2. CASE w # "audit"
      BY <1>0, <1>6, <2>2, <2>4, <2>5, <3>2, ShowsLess DEF LeasesShown, Writers
    <3> QED
      BY <3>1, <3>2
  <2>6. ASSUME ~disturbed, Fresh("processor")', refresh'["processor"].stage = "computed"
        PROVE  Shows(refresh'["processor"].packed, Leases', policy' = {})
    <3>1. CASE w = "processor"
      <4>1. p = array /\ refresh'["processor"].packed = result
        BY <1>2, <1>5, <1>6, <2>6, <3>1 DEF Fresh
      <4>2. redo.stage = "none" /\ refresh[w] \in Pending
        BY <1>0, <1>1, <3>1 DEF RefreshInv, Pending
      <4>3. /\ \A lot : LeaseDue(lot) => refresh[w].what = "leaseStatus" /\ refresh[w].lot = lot
            /\ PolicyDue => refresh[w].what = "nonLeaseable"
            /\ refresh[w].what = "leaseable" => policy # {}
        BY <1>0, <3>1, <4>2, PendingMeans DEF RefreshInv
      <4>4. \A lot \in LotIndices : HasLeaseAgreement(lot) =>
              ShownIn(p, lot) = 2 \/ (refresh[w].what = "leaseStatus" /\ refresh[w].lot = lot)
        BY <2>3, <2>6, <4>1, <4>3 DEF Shows, LeasesDone, Leases
      <4>5. \A lot \in Leases : ShownIn(result, lot) = 2
        BY <1>3, <4>4 DEF Improves, Leases
      <4>6. policy = {} => \/ refresh[w].what = "nonLeaseable"
                           \/ \A lot \in LotIndices : ShownIn(p, lot) # 1
        BY <2>3, <2>6, <4>1, <4>3 DEF Shows, OffersDone
      <4>7. policy = {} => \A lot \in LotIndices : ShownIn(result, lot) # 1
        BY <1>3, <4>3, <4>6 DEF Improves
      <4> QED
        BY <2>2, <4>1, <4>5, <4>7 DEF Shows
    <3>2. CASE w # "processor"
      BY <1>0, <1>6, <2>2, <2>4, <2>6, <3>2, ShowsLess DEF LeasesShown, Writers
    <3> QED
      BY <3>1, <3>2
  <2> QED
    BY <1>1, <1>2, <2>3, <2>5, <2>6, MissingIsNoArray DEF LeasesShown
<1> QED
  BY <1>7, <1>9, <1>10, <1>11 DEF LotInv

LEMMA WriteKeeps ==
    ASSUME LotInv, NEW w \in Writers, LotWrite(w)
    PROVE  LotInv'
<1>0. LotTypeOK /\ RefreshInv /\ OneLot /\ LeasesShown
  BY DEF LotInv
<1> DEFINE job(v) == IF refresh[v].stage \notin {"read", "computed"} THEN refresh[v]
                     ELSE [refresh[v] EXCEPT !.overtaken = TRUE]
<1>1. /\ refresh[w].stage = "computed"
      /\ array' = IF refresh[w].packed = refresh[w].read THEN array ELSE refresh[w].packed
      /\ disturbed' = (disturbed \/ refresh[w].overtaken)
      /\ refresh' = [v \in Writers |-> IF v = w THEN NoRefresh ELSE job(v)]
      /\ UNCHANGED <<factVars, auditQueue, redo>>
  BY DEF LotWrite
<1>2. /\ refresh[w] \in Job /\ {array, refresh[w].packed} \subseteq PackedArray
      /\ array' \in PackedArray
      /\ ~refresh[w].overtaken => array' = refresh[w].packed
  BY <1>0, <1>1 DEF LotTypeOK, NoRefresh, RefreshInv, Working, Fresh
<1>3. ASSUME NEW v \in Writers
      PROVE  /\ job(v) \in Job \cup {NoRefresh} /\ job(v).stage = refresh[v].stage
             /\ job(v).stage # "none" =>
                  /\ job(v).what = refresh[v].what /\ job(v).lot = refresh[v].lot
                  /\ job(v).again = refresh[v].again /\ job(v).read = refresh[v].read
                  /\ job(v).packed = refresh[v].packed
             /\ job(v).stage \in {"read", "computed"} => job(v).overtaken
  <2>1. refresh[v] \in Job \cup {NoRefresh}
    BY <1>0 DEF LotTypeOK
  <2>2. CASE refresh[v].stage \notin {"read", "computed"}
    BY <2>1, <2>2
  <2>3. CASE refresh[v].stage \in {"read", "computed"}
    <3>1. refresh[v] \in Job
      BY <2>1, <2>3 DEF NoRefresh
    <3>2. job(v) = [refresh[v] EXCEPT !.overtaken = TRUE]
      BY <2>3
    <3> QED
      BY <3>1, <3>2 DEF Job
  <2> QED
    BY <2>2, <2>3
<1> HIDE DEF job
<1>4. /\ refresh' \in [Writers -> Job \cup {NoRefresh}]
      /\ refresh'[w] = NoRefresh /\ refresh'[w].stage = "none"
      /\ \A v \in Writers \ {w} : refresh'[v] = job(v)
  BY <1>1, <1>3 DEF NoRefresh
<1>5. LotTypeOK'
  BY <1>0, <1>1, <1>2, <1>4 DEF LotTypeOK, factVars
<1>6. \A v \in Writers : ~Fresh(v)'
  BY <1>3, <1>4 DEF Fresh, Working
<1>7. \A v \in Writers : refresh'[v].stage # "none" =>
        /\ refresh[v].stage = refresh'[v].stage
        /\ refresh'[v].what = refresh[v].what /\ refresh'[v].lot = refresh[v].lot
        /\ refresh'[v].again = refresh[v].again /\ refresh'[v].read = refresh[v].read
        /\ refresh'[v].packed = refresh[v].packed
  BY <1>3, <1>4
<1>8. RefreshInv'
  <2>1. ASSUME NEW v \in Writers
        PROVE  /\ Working(v)' =>
                    {array', refresh'[v].read, refresh'[v].packed} \subseteq PackedArray
               /\ Fresh(v)' => refresh'[v].read = array'
               /\ refresh'[v].stage = "read" => refresh'[v].packed = refresh'[v].read
    BY <1>0, <1>2, <1>6, <1>7 DEF RefreshInv, Working
  <2>2. \A j \in Pending' : /\ j.what = "nonLeaseable" => ~j.again
                            /\ j.what = "leaseable" => policy' # {}
    BY <1>0, <1>1, <1>7 DEF RefreshInv, Pending, Writers, factVars
  <2> QED
    BY <1>0, <1>1, <1>7, <2>1, <2>2 DEF RefreshInv, Writers
<1>9. OneLot'
  BY <1>0, <1>7 DEF OneLot
<1>10. LeasesShown'
  <2>1. ASSUME ~disturbed' PROVE Shows(array', LeasesDone', OffersDone')
    <3>1. Fresh(w) /\ ~disturbed /\ array' = refresh[w].packed
      BY <1>1, <1>2, <2>1 DEF Fresh, Working
    <3>2. CASE w = "processor"
      <4>1. Shows(array', Leases, policy = {})
        BY <1>0, <1>1, <3>1, <3>2 DEF LeasesShown
      <4>2. LeasesDone' \subseteq Leases /\ (OffersDone' => policy = {})
        BY <1>1 DEF LeasesDone, Leases, OffersDone, HasLeaseAgreement, factVars
      <4> QED
        BY <4>1, <4>2, ShowsLess
    <3>3. CASE w = "audit"
      <4>1. Shows(array', LeasesDone, OffersDone)
        BY <1>0, <1>1, <3>1, <3>3 DEF LeasesShown
      <4>2. "processor" \in Writers /\ "processor" # w
        BY <3>3 DEF Writers
      <4>3. /\ refresh'["processor"].stage = refresh["processor"].stage
            /\ refresh["processor"].stage # "none" =>
                 /\ refresh'["processor"].what = refresh["processor"].what
                 /\ refresh'["processor"].lot = refresh["processor"].lot
        BY <1>3, <1>4, <4>2
      <4>4. /\ \A lot : LeaseDue(lot) => LeaseDue(lot)'
            /\ PolicyDue => PolicyDue'
        <5>1. redo' = redo
          BY <1>1
        <5>2. /\ \A lot : LeaseDue(lot)' <=>
                   \/ /\ refresh'["processor"].stage # "none"
                      /\ refresh'["processor"].what = "leaseStatus"
                      /\ refresh'["processor"].lot = lot
                   \/ redo'.stage # "none" /\ redo'.what = "leaseStatus" /\ redo'.lot = lot
              /\ PolicyDue' <=>
                   \/ /\ refresh'["processor"].stage # "none"
                      /\ refresh'["processor"].what = "nonLeaseable"
                   \/ redo'.stage # "none" /\ redo'.what = "nonLeaseable"
          BY DEF LeaseDue, PolicyDue, Pending
        <5> QED
          BY <4>3, <5>1, <5>2, PendingMeans
      <4>5. LeasesDone' \subseteq LeasesDone /\ (OffersDone' => OffersDone)
        BY <1>1, <4>4, DueStays
      <4> QED
        BY <4>1, <4>5, ShowsLess
    <3> QED
      BY <3>2, <3>3 DEF Writers
  <2> QED
    BY <1>2, <1>6, <2>1, MissingIsNoArray DEF LeasesShown, Writers
<1> QED
  BY <1>5, <1>8, <1>9, <1>10 DEF LotInv

LEMMA ReprocessKeeps ==
    ASSUME LotInv, Reprocess
    PROVE  LotInv'
<1>0. LotTypeOK /\ RefreshInv /\ OneLot /\ LeasesShown
  BY DEF LotInv
<1>1. /\ redo.stage = "due" /\ redo' = NoRefresh
      /\ refresh' = [refresh EXCEPT !["processor"] = redo]
      /\ UNCHANGED <<factVars, array, auditQueue, disturbed>>
  BY DEF Reprocess
<1>2. /\ refresh["processor"].stage = "none" /\ redo \in Job /\ redo'.stage = "none"
      /\ refresh' \in [Writers -> Job \cup {NoRefresh}]
      /\ refresh'["processor"] = redo /\ refresh'["audit"] = refresh["audit"]
  BY <1>0, <1>1 DEF LotTypeOK, RefreshInv, NoRefresh, Writers
<1>3. LotTypeOK'
  BY <1>0, <1>1, <1>2 DEF LotTypeOK, factVars
<1>4. Pending' = Pending
  BY <1>1, <1>2 DEF Pending
<1>5. \A v \in Writers :
        refresh'[v].stage \in {"read", "computed"} => v = "audit" /\ refresh'[v] = refresh[v]
  BY <1>1, <1>2 DEF Writers
<1>6. RefreshInv'
  <2>1. ASSUME NEW v \in Writers
        PROVE  /\ Working(v)' =>
                    {array', refresh'[v].read, refresh'[v].packed} \subseteq PackedArray
               /\ Fresh(v)' => refresh'[v].read = array'
               /\ refresh'[v].stage = "read" => refresh'[v].packed = refresh'[v].read
    BY <1>0, <1>1, <1>5 DEF RefreshInv, Working, Fresh
  <2>2. \A j \in Pending' : /\ j.what = "nonLeaseable" => ~j.again
                            /\ j.what = "leaseable" => policy' # {}
    BY <1>0, <1>1, <1>4 DEF RefreshInv, factVars
  <2> QED
    BY <1>0, <1>1, <1>2, <2>1, <2>2 DEF RefreshInv
<1>7. OneLot'
  BY <1>0, <1>5 DEF OneLot
<1>8. LeasesShown'
  <2>1. LeasesDone' \subseteq LeasesDone /\ (OffersDone' => OffersDone)
    BY <1>1, <1>4, DueStays DEF LeaseDue, PolicyDue
  <2>2. ~Fresh("processor")' /\ (Fresh("audit")' => Fresh("audit"))
    BY <1>1, <1>2 DEF Fresh, Working
  <2> QED
    BY <1>0, <1>1, <1>2, <2>1, <2>2, ShowsLess DEF LeasesShown
<1> QED
  BY <1>3, <1>6, <1>7, <1>8 DEF LotInv

LEMMA ExpiryKeeps ==
    ASSUME LotInv, NEW lot \in LotIndices, LeaseExpires(lot)
    PROVE  LotInv'
<1>0. LotTypeOK /\ RefreshInv /\ OneLot /\ LeasesShown
  BY DEF LotInv
<1>1. /\ agreement' = [agreement EXCEPT ![lot] = "expired"]
      /\ UNCHANGED <<policy, building, crew, array, refresh, auditQueue, redo, disturbed>>
  BY DEF LeaseExpires
<1>2. LotTypeOK'
  BY <1>0, <1>1 DEF LotTypeOK
<1>3. RefreshInv' /\ OneLot'
  BY <1>0, <1>1 DEF RefreshInv, OneLot, Working, Fresh, Pending
<1>4. LeasesShown'
  <2>1. /\ Leases' \subseteq Leases /\ LeasesDone' \subseteq LeasesDone
        /\ OffersDone' = OffersDone
    BY <1>0, <1>1 DEF Leases, LeasesDone, OffersDone, HasLeaseAgreement, LeaseDue,
                      PolicyDue, Pending, LotTypeOK
  <2> QED
    BY <1>0, <1>1, <2>1, ShowsLess DEF LeasesShown, Fresh, Working
<1> QED
  BY <1>2, <1>3, <1>4 DEF LotInv

LEMMA AuditKeeps ==
    ASSUME LotInv, AuditStart \/ AuditNext
    PROVE  LotInv'
<1>0. LotTypeOK /\ RefreshInv /\ OneLot /\ LeasesShown
  BY DEF LotInv
<1>1. /\ refresh'["processor"] = refresh["processor"] /\ auditQueue' \subseteq LotIndices
      /\ refresh' \in [Writers -> Job \cup {NoRefresh}]
      /\ \/ refresh' = refresh
         \/ refresh'["audit"].stage = "due" /\ refresh'["audit"].what = "leaseStatus"
      /\ UNCHANGED <<factVars, array, redo, disturbed>>
  <2>1. CASE AuditStart
    BY <1>0, <2>1 DEF AuditStart, AuditQueue, LotTypeOK
  <2>2. CASE AuditNext
    <3>1. PICK lot \in auditQueue :
            /\ auditQueue' = auditQueue \ {lot}
            /\ refresh' = [refresh EXCEPT !["audit"] = Due("leaseStatus", lot, FALSE)]
            /\ UNCHANGED <<factVars, array, redo, disturbed>>
      BY <2>2 DEF AuditNext
    <3>2. lot \in LotIndices /\ "leaseStatus" \in What /\ auditQueue' \subseteq LotIndices
      BY <1>0, <3>1 DEF LotTypeOK, What
    <3>3. /\ Due("leaseStatus", lot, FALSE) \in Job
          /\ Due("leaseStatus", lot, FALSE).stage = "due"
          /\ Due("leaseStatus", lot, FALSE).what = "leaseStatus"
      BY <3>2, DueIsJob
    <3> QED
      BY <1>0, <3>1, <3>2, <3>3 DEF LotTypeOK, Writers
  <2> QED
    BY <2>1, <2>2
<1>2. LotTypeOK'
  BY <1>0, <1>1 DEF LotTypeOK, factVars
<1>3. \A v \in Writers :
        refresh'[v].stage \in {"read", "computed"} => refresh'[v] = refresh[v]
  BY <1>1 DEF Writers
<1>4. Pending' = Pending
  BY <1>1 DEF Pending
<1>5. RefreshInv'
  <2>1. ASSUME NEW v \in Writers
        PROVE  /\ Working(v)' =>
                    {array', refresh'[v].read, refresh'[v].packed} \subseteq PackedArray
               /\ Fresh(v)' => refresh'[v].read = array'
               /\ refresh'[v].stage = "read" => refresh'[v].packed = refresh'[v].read
    BY <1>0, <1>1, <1>3 DEF RefreshInv, Working, Fresh
  <2>2. \A j \in Pending' : /\ j.what = "nonLeaseable" => ~j.again
                            /\ j.what = "leaseable" => policy' # {}
    BY <1>0, <1>1, <1>4 DEF RefreshInv, factVars
  <2> QED
    BY <1>0, <1>1, <2>1, <2>2 DEF RefreshInv
<1>6. OneLot'
  BY <1>0, <1>3 DEF OneLot
<1>7. LeasesShown'
  <2>1. /\ LeasesDone' \subseteq LeasesDone /\ (OffersDone' => OffersDone)
        /\ Leases' = Leases /\ (policy' = {} <=> policy = {})
    BY <1>1, <1>4, DueStays DEF LeaseDue, PolicyDue
  <2>2. \A v \in Writers : Fresh(v)' => Fresh(v) /\ refresh'[v] = refresh[v]
    BY <1>3 DEF Fresh, Working
  <2> QED
    BY <1>0, <1>1, <2>1, <2>2, ShowsLess DEF LeasesShown, Writers
<1> QED
  BY <1>2, <1>5, <1>6, <1>7 DEF LotInv

LEMMA CrashKeeps ==
    ASSUME LotInv, LotCrash
    PROVE  LotInv'
<1>0. LotTypeOK /\ RefreshInv /\ OneLot /\ LeasesShown
  BY DEF LotInv
<1> DEFINE job == refresh["processor"]
           due == Due(job.what, job.lot, TRUE)
<1>1. /\ job.stage # "none" /\ redo' = IF job.again THEN due ELSE redo
      /\ disturbed' = (disturbed \/ (~job.again /\ job.what # "hasCrew"))
      /\ refresh' = [refresh EXCEPT !["processor"] = NoRefresh]
      /\ UNCHANGED <<factVars, array, auditQueue>>
  BY DEF LotCrash
<1>2. /\ job \in Job /\ redo.stage = "none" /\ job \in Pending
  BY <1>0, <1>1 DEF LotTypeOK, RefreshInv, NoRefresh, Writers, Pending
<1>3. /\ due \in Job /\ due.stage = "due" /\ due.what = job.what /\ due.lot = job.lot
      /\ due.again = TRUE
  <2>1. job.what \in What /\ job.lot \in LotIndices
    BY <1>2 DEF Job
  <2> QED
    BY <2>1, DueIsJob
<1> HIDE DEF due
<1>4. /\ refresh'["processor"] = NoRefresh /\ refresh'["audit"] = refresh["audit"]
      /\ refresh' \in [Writers -> Job \cup {NoRefresh}] /\ NoRefresh.stage = "none"
  BY <1>0, <1>1 DEF LotTypeOK, Writers, NoRefresh
<1>5. LotTypeOK'
  <2>1. redo' \in Job \cup {NoRefresh} /\ disturbed' \in BOOLEAN
    BY <1>0, <1>1, <1>2, <1>3 DEF LotTypeOK, Job
  <2> QED
    BY <1>0, <1>1, <1>4, <2>1 DEF LotTypeOK, factVars
<1>6. Pending' = IF job.again THEN {due} ELSE {}
  BY <1>1, <1>2, <1>3, <1>4 DEF Pending
<1>7. \A v \in Writers :
        refresh'[v].stage \in {"read", "computed"} => v = "audit" /\ refresh'[v] = refresh[v]
  BY <1>4 DEF Writers
<1>8. RefreshInv'
  <2>1. ASSUME NEW v \in Writers
        PROVE  /\ Working(v)' =>
                    {array', refresh'[v].read, refresh'[v].packed} \subseteq PackedArray
               /\ Fresh(v)' => refresh'[v].read = array'
               /\ refresh'[v].stage = "read" => refresh'[v].packed = refresh'[v].read
    BY <1>0, <1>1, <1>7 DEF RefreshInv, Working, Fresh
  <2>2. \A j \in Pending' : /\ j.what = "nonLeaseable" => ~j.again
                            /\ j.what = "leaseable" => policy' # {}
    BY <1>0, <1>1, <1>2, <1>3, <1>6 DEF RefreshInv, factVars
  <2> QED
    BY <1>0, <1>1, <1>2, <1>3, <1>4, <2>1, <2>2 DEF RefreshInv
<1>9. OneLot'
  BY <1>0, <1>7 DEF OneLot
<1>10. LeasesShown'
  <2>1. SUFFICES ASSUME ~disturbed' PROVE LeasesShown'
    BY DEF LeasesShown
  <2>2. (job.again \/ job.what = "hasCrew") /\ ~disturbed
    BY <1>1, <1>2, <2>1 DEF Job
  <2>3. /\ \A lot : LeaseDue(lot) => LeaseDue(lot)'
        /\ PolicyDue => PolicyDue'
    BY <1>2, <1>3, <1>6, <2>2, PendingMeans DEF LeaseDue, PolicyDue
  <2>4. LeasesDone' \subseteq LeasesDone /\ (OffersDone' => OffersDone)
    BY <1>1, <2>3, DueStays
  <2>5. ~Fresh("processor")' /\ (Fresh("audit")' => Fresh("audit"))
    BY <1>4 DEF Fresh, Working
  <2> QED
    BY <1>0, <1>1, <1>4, <2>2, <2>4, <2>5, ShowsLess DEF LeasesShown
<1> QED
  BY <1>5, <1>8, <1>9, <1>10 DEF LotInv

LEMMA LotStutter == LotInv /\ UNCHANGED lotVars => LotInv'
<1> SUFFICES ASSUME LotInv, UNCHANGED lotVars PROVE LotInv'
  OBVIOUS
<1>1. UNCHANGED <<agreement, policy, building, crew, array, refresh, auditQueue, redo, disturbed>>
  BY DEF lotVars, factVars
<1>2. LotTypeOK' /\ RefreshInv' /\ OneLot'
  BY <1>1 DEF LotInv, LotTypeOK, RefreshInv, OneLot, Working, Fresh, Pending
<1>3. LeasesDone' = LeasesDone /\ OffersDone' = OffersDone /\ Leases' = Leases
  BY <1>1 DEF LeasesDone, OffersDone, Leases, HasLeaseAgreement, LeaseDue, PolicyDue, Pending
<1>4. LeasesShown'
  BY <1>1, <1>3 DEF LotInv, LeasesShown, Fresh, Working
<1> QED
  BY <1>2, <1>4 DEF LotInv

LEMMA LotInductive == LotInv /\ [Next]_vars => LotInv'
<1> SUFFICES ASSUME LotInv, [Next]_vars PROVE LotInv'
  OBVIOUS
<1>1. CASE UNCHANGED lotVars
  BY <1>1, LotStutter
<1>2. CASE LotNext
  <2>1. "processor" \in Writers /\ "audit" \in Writers
    BY DEF Writers
  <2> QED
    BY <1>2, <2>1, EventsKeep, ReadKeeps, ComputeKeeps, WriteKeeps, ReprocessKeeps,
       ExpiryKeeps, AuditKeeps, CrashKeeps DEF LotNext, LotRefresh, AuditStep
<1> QED
  BY <1>1, <1>2 DEF Next, LotsStep, MailsStep, FaucetStep, BanxaStep, vars

THEOREM LotInvCorrect == Spec => []LotInv
<1>1. Init => LotInv
  BY LotInitial DEF Init
<1> QED
  BY <1>1, LotInductive, PTL DEF Spec

\* Whenever the processor has finished its events, every lot with a running lease
\* is shown as leased, and without a policy none is offered, unless an update of
\* the array was lost (TenancyShown): any number of lots, policies and events.
THEOREM TenancyShownCorrect == Spec => []TenancyShown
<1>1. LotInv => TenancyShown
  <2>1. SUFFICES ASSUME LotInv, ProcessorIdle, ~disturbed
                 PROVE  /\ \A lot \in LotIndices : HasLeaseAgreement(lot) => Shown(lot) = 2
                        /\ policy = {} => \A lot \in LotIndices : Shown(lot) # 1
    BY DEF TenancyShown
  <2>2. (\A lot : ~LeaseDue(lot)) /\ ~PolicyDue
    BY <2>1, PendingMeans DEF ProcessorIdle
  <2>3. LeasesDone = Leases /\ OffersDone = (policy = {})
    BY <2>2 DEF LeasesDone, OffersDone
  <2>4. IF array = Missing THEN Leases = {} ELSE Shows(array, Leases, policy = {})
    BY <2>1, <2>3 DEF LotInv, LeasesShown
  <2>5. \A lot : Shown(lot) = IF array = Missing THEN 0 ELSE ShownIn(array, lot)
    BY DEF Shown, ShownIn, StatusOf
  <2> QED
    BY <2>4, <2>5 DEF Leases, Shows
<1> QED
  BY <1>1, LotInvCorrect, PTL

\* A refresh of one lot that overwrites the array it read changes the bits of
\* that lot only (OtherLotsUntouched), for any number of lots.
THEOREM OtherLotsUntouchedCorrect == Spec => OtherLotsUntouched
<1> DEFINE Untouched ==
      \A w \in Writers :
        LotWrite(w) /\ ~refresh[w].overtaken
          /\ refresh[w].what \notin {"leaseable", "nonLeaseable"} =>
        \A lot \in LotIndices \ {refresh[w].lot} :
          PackedGet(array', lot) = PackedGet(array, lot)
<1>1. LotInv => Untouched
  <2>1. SUFFICES ASSUME LotInv, NEW w \in Writers, LotWrite(w), ~refresh[w].overtaken,
                        refresh[w].what \notin {"leaseable", "nonLeaseable"}
                 PROVE  \A lot \in LotIndices \ {refresh[w].lot} :
                          PackedGet(array', lot) = PackedGet(array, lot)
    OBVIOUS
  <2>2. /\ refresh[w].stage = "computed"
        /\ array' = IF refresh[w].packed = refresh[w].read THEN array ELSE refresh[w].packed
    BY <2>1 DEF LotWrite
  <2>3. refresh[w].read = array
    BY <2>1, <2>2 DEF LotInv, RefreshInv, Fresh, Working
  <2> QED
    BY <2>1, <2>2, <2>3 DEF LotInv, OneLot
<1> QED
  BY <1>1, LotInvCorrect, PTL DEF OtherLotsUntouched

-----------------------------------------------------------------------------
(* Types of all four. A stored record was saved by a claim of its own; the  *)
(* rest follows from the invariants above.                                  *)

Saved == {c \in Claims : claim[c].stage = "saved"}

OneRecordAClaim == Len(records) <= Cardinality(Saved)

Bounded == OneRecordAClaim /\ now <= MaxTime /\ read \subseteq Notices

LEMMA SavedFinite ==
    ASSUME NEW S \in SUBSET Claims
    PROVE  IsFiniteSet(S) /\ Cardinality(S) \in Nat /\ Cardinality(S) <= Cardinality(Claims)
BY FaucetAssumption, FS_Subset, FS_CardinalityType

LEMMA BoundedInitial == Init => Bounded
<1> SUFFICES ASSUME Init PROVE Bounded
  OBVIOUS
<1>1. records = <<>> /\ now = 0 /\ read = {}
  BY DEF Init, FaucetInit, MailInit
<1>2. Cardinality(Saved) \in Nat
  BY SavedFinite DEF Saved
<1> QED
  BY <1>1, <1>2, FaucetAssumption DEF Bounded, OneRecordAClaim

\* A claim that saves had not saved before, and appends one record at most.
LEMMA RecordsKept ==
    ASSUME FaucetTypeOK, OneRecordAClaim, FaucetNext
    PROVE  OneRecordAClaim'
<1>1. ASSUME NEW c \in Claims, SaveClaim(c) PROVE OneRecordAClaim'
  <2>1. claim[c].stage = "paid" /\ claim' = [claim EXCEPT ![c].stage = "saved"]
    BY <1>1 DEF SaveClaim
  <2>2. claim \in [Claims -> ClaimRecord] /\ records \in Seq(Nat) /\ now \in Nat
    BY DEF FaucetTypeOK
  <2>3. Saved' = Saved \cup {c} /\ c \notin Saved
    BY <2>1, <2>2 DEF Saved, ClaimRecord
  <2>4. IsFiniteSet(Saved) /\ Cardinality(Saved) \in Nat
    BY SavedFinite DEF Saved
  <2>5. Cardinality(Saved') = Cardinality(Saved) + 1
    BY <2>3, <2>4, FS_AddElement
  <2>6. Len(records') <= Len(records) + 1
    <3>1. records' = IF claim[c].record = NewRecord THEN Append(records, now)
                     ELSE [records EXCEPT ![claim[c].record] = now]
      BY <1>1 DEF SaveClaim
    <3>2. Len(Append(records, now)) = Len(records) + 1
      BY <2>2
    <3>3. ASSUME NEW i PROVE Len([records EXCEPT ![i] = now]) = Len(records)
      BY <2>2, ExceptSeq
    <3> QED
      BY <2>2, <3>1, <3>2, <3>3
  <2>7. Len(records) \in Nat /\ Len(records') \in Nat
    BY <2>2, <1>1, <2>1 DEF SaveClaim
  <2> QED
    BY <2>4, <2>5, <2>6, <2>7 DEF OneRecordAClaim
<1>2. ASSUME NEW c \in Claims,
             FindRecord(c) \/ RefuseClaim(c) \/ Transfer(c) \/ ForgetClaim(c)
      PROVE  OneRecordAClaim'
  <2>1. claim \in [Claims -> ClaimRecord]
    BY DEF FaucetTypeOK
  <2>2. \A d \in Claims : claim'[d].stage = "saved" <=> claim[d].stage = "saved"
    BY <1>2, <2>1 DEF FindRecord, RefuseClaim, Transfer, ForgetClaim, ClaimRecord
  <2>3. Saved' = Saved /\ records' = records
    BY <1>2, <2>2 DEF Saved, FindRecord, RefuseClaim, Transfer, ForgetClaim
  <2> QED
    BY <2>3 DEF OneRecordAClaim
<1>3. CASE FaucetTick
  BY <1>3 DEF FaucetTick, OneRecordAClaim, Saved
<1> QED
  BY <1>1, <1>2, <1>3 DEF FaucetNext

LEMMA BoundedKept == FaucetInv /\ MailInv /\ Bounded /\ [Next]_vars => Bounded'
<1> SUFFICES ASSUME FaucetInv, MailInv, Bounded, [Next]_vars PROVE Bounded'
  OBVIOUS
<1>1. OneRecordAClaim'
  <2>1. UNCHANGED faucetVars => OneRecordAClaim'
    BY DEF Bounded, OneRecordAClaim, Saved, faucetVars
  <2> QED
    BY <2>1, RecordsKept DEF Next, LotsStep, MailsStep, FaucetStep, BanxaStep, vars, Bounded,
       FaucetInv
<1>2. (now <= MaxTime)'
  <2>1. now \in Nat /\ now <= MaxTime /\ MaxTime \in Nat
    BY FaucetAssumption DEF Bounded, FaucetInv, FaucetTypeOK
  <2>2. FaucetNext => now' = now \/ (now < MaxTime /\ now' = now + 1)
    BY DEF FaucetNext, FaucetTick, FindRecord, RefuseClaim, Transfer, SaveClaim, ForgetClaim
  <2>3. UNCHANGED faucetVars => now' = now
    BY DEF faucetVars
  <2>4. now' = now \/ (now < MaxTime /\ now' = now + 1)
    BY <2>2, <2>3 DEF Next, LotsStep, MailsStep, FaucetStep, BanxaStep, vars
  <2> QED
    BY <2>1, <2>4
<1>3. (read \subseteq Notices)'
  <2>1. MailNext => read' = read \/ \E n \in Notices : read' = read \cup {n}
    BY DEF MailNext, MailStep, MessageNotified, CrewNotified, MessageRead, NoticeAges,
       GetNotificationsToProcess, GroupAndFilter, SendNotifications, PurgeNotifications, MailFails
  <2>2. UNCHANGED mailVars => read' = read
    BY DEF mailVars
  <2> QED
    BY <2>1, <2>2 DEF Next, LotsStep, MailsStep, FaucetStep, BanxaStep, vars, Bounded
<1> QED
  BY <1>1, <1>2, <1>3 DEF Bounded

\* The services keep their types (TypeOK), of which two say something of the
\* code: a recipient has no more records than claims that were saved, and every
\* word of the packed data stays in its width.
THEOREM ServicesTypesCorrect == Spec => []TypeOK
<1> DEFINE AllInv == BanxaInv /\ FaucetInv /\ MailInv /\ LotInv /\ Bounded
<1>1. Init => AllInv
  BY BanxaInitial, FaucetInitial, MailInitial, LotInitial, BoundedInitial DEF Init
<1>2. AllInv /\ [Next]_vars => AllInv'
  BY BanxaInductive, FaucetInductive, MailInductive, LotInductive, BoundedKept
<1>3. AllInv => TypeOK
  <2> SUFFICES ASSUME AllInv PROVE TypeOK
    OBVIOUS
  <2>1. /\ agreement \in [LotIndices -> {"none", "running", "expired"}]
        /\ policy \subseteq Policies
        /\ building \in [LotIndices -> BuildingTypes]
        /\ crew \subseteq LotIndices
        /\ auditQueue \subseteq LotIndices
    BY DEF LotInv, LotTypeOK
  <2>2. array \in [Words -> 0 .. 2^WordBits - 1] \cup {Missing}
    <3>1. 2^WordBits - 1 = 255
      BY Powers DEF WordBits
    <3>2. array \in [Words -> 0..255] \cup {Missing}
      BY DEF LotInv, LotTypeOK, PackedArray, Byte
    <3> QED
      BY <3>1, <3>2
  <2>3. /\ notice \in [Notices -> {"none", "due", "old"}]
        /\ read \subseteq Notices /\ mail.todo \cup mail.toSend \cup mail.toPurge \subseteq Notices
    BY DEF MailInv, MailTypeOK, Run, Bounded
  <2>4. Len(records) <= Cardinality(Claims) /\ now \in 0..MaxTime
    <3>1. Cardinality(Saved) \in Nat /\ Cardinality(Saved) <= Cardinality(Claims)
      BY SavedFinite DEF Saved
    <3>2. Cardinality(Claims) \in Nat /\ MaxTime \in Nat
      BY FaucetAssumption, FS_CardinalityType
    <3>3. Len(records) \in Nat /\ now \in Nat
      BY DEF FaucetInv, FaucetTypeOK
    <3> QED
      BY <3>1, <3>2, <3>3 DEF Bounded, OneRecordAClaim
  <2>5. /\ banxa \in DOMAIN Reported \cup {NoOrder}
        /\ order \in {NoOrder, "checkout_created", "pending"} \cup Final
    BY DEF BanxaInv, BanxaTypeOK, Statuses
  <2> QED
    BY <2>1, <2>2, <2>3, <2>4, <2>5 DEF TypeOK
<1> QED
  BY <1>1, <1>2, <1>3, PTL DEF Spec
=============================================================================
