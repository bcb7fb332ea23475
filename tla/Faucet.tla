------------------------------- MODULE Faucet -------------------------------
(***************************************************************************)
(* The test network faucet: a claim reads the record of the recipient,     *)
(* checks the time since the last one, transfers the tokens on chain, then  *)
(* saves the record. (common/services/Faucet.js; one recipient, one token)  *)
(***************************************************************************)
EXTENDS Integers, Sequences, FiniteSets

CONSTANTS Claims,    \* requests
          Interval,  \* the 23.5 hours between claims
          MaxTime    \* bound

ASSUME FaucetAssumption == IsFiniteSet(Claims) /\ Interval \in Nat /\ MaxTime \in Nat

VARIABLES
  records,    \* stored records, in order of insertion: when last claimed
  claim,      \* per request
  now,
  payments,   \* history: when the chain paid
  raced       \* history: two claims overlapped, or a save did not happen

faucetVars == <<records, claim, now, payments, raced>>

Never == -1
NewRecord == 0
InFlight == {c \in Claims : claim[c].stage \in {"read", "paid"}}

-----------------------------------------------------------------------------
\* recordClaim reads the record: findOne returns the oldest; none is created
\* until the save.
FindRecord(c) ==
  /\ claim[c].stage = "idle"
  /\ claim' = [claim EXCEPT ![c] =
       IF records = <<>>
       THEN [stage |-> "read", record |-> NewRecord, lastClaimed |-> Never]
       ELSE [stage |-> "read", record |-> 1, lastClaimed |-> records[1]]]
  /\ raced' = (raced \/ InFlight # {})
  /\ UNCHANGED <<records, now, payments>>

\* Mutant: the age is compared the other way round.
TooRecent_Swapped(c) ==
  claim[c].lastClaimed # Never /\ now - claim[c].lastClaimed > Interval

TooRecent(c) ==
  claim[c].lastClaimed # Never /\ now - claim[c].lastClaimed < Interval

RefuseClaim(c) ==
  /\ claim[c].stage = "read" /\ TooRecent(c)
  /\ claim' = [claim EXCEPT ![c].stage = "refused"]
  /\ UNCHANGED <<records, now, payments, raced>>

\* erc20.transfer; when it throws, the claim ends with nothing saved.
Transfer(c) ==
  /\ claim[c].stage = "read" /\ ~TooRecent(c)
  /\ \/ /\ claim' = [claim EXCEPT ![c].stage = "paid"]
        /\ payments' = Append(payments, now)
     \/ /\ claim' = [claim EXCEPT ![c].stage = "refused"]
        /\ UNCHANGED payments
  /\ UNCHANGED <<records, now, raced>>

\* The record is saved after the transfer, or never (a crash, a failed save).
SaveClaim(c) ==
  /\ claim[c].stage = "paid"
  /\ records' = IF claim[c].record = NewRecord THEN Append(records, now)
                ELSE [records EXCEPT ![claim[c].record] = now]
  /\ claim' = [claim EXCEPT ![c].stage = "saved"]
  /\ UNCHANGED <<now, payments, raced>>

ForgetClaim(c) ==
  /\ claim[c].stage = "paid"
  /\ claim' = [claim EXCEPT ![c].stage = "refused"]
  /\ raced' = TRUE
  /\ UNCHANGED <<records, now, payments>>

FaucetTick ==
  /\ now < MaxTime
  /\ now' = now + 1
  /\ UNCHANGED <<records, claim, payments, raced>>

FaucetInit ==
  /\ records = <<>> /\ payments = <<>> /\ now = 0 /\ raced = FALSE
  /\ claim = [c \in Claims |-> [stage |-> "idle", record |-> NewRecord,
                                lastClaimed |-> Never]]

FaucetNext ==
  \/ FaucetTick
  \/ \E c \in Claims : FindRecord(c) \/ RefuseClaim(c) \/ Transfer(c) \/ SaveClaim(c)
                       \/ ForgetClaim(c)

-----------------------------------------------------------------------------
Spaced(times) ==
  \A i, j \in DOMAIN times : i < j => times[j] - times[i] >= Interval

\* The chain pays a recipient at most once an interval, unless two claims
\* overlap (both read the record before either saves it: nothing on the way
\* makes the second one look again) or a payment is not recorded.
PaidOncePerInterval == raced \/ Spaced(payments)
=============================================================================
