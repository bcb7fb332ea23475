----------------------------- MODULE BanxaOrder -----------------------------
(***************************************************************************)
(* An order at Banxa and the copy of its status the server keeps. The copy  *)
(* is refreshed on request: load the document, ask Banxa, set the status,   *)
(* save. Requests overlap. A save writes the paths that differ from the     *)
(* document as it was loaded, and no others. (common/services/Banxa.js)     *)
(***************************************************************************)
EXTENDS Integers, FiniteSets

CONSTANTS Pollers   \* requests under way at one time

VARIABLES
  banxa,    \* the status at Banxa, external
  order,    \* the stored status, or NoOrder
  polls,    \* per request
  writer    \* history: the request that saved last

banxaVars == <<banxa, order, polls, writer>>

NoOrder == "none"
Nobody == [stage |-> "idle", loaded |-> NoOrder, answer |-> NoOrder]
Final == {"completed", "failed", "cancelled"}

\* Statuses of Banxa, by what banxaStatus makes of them; one it does not know
\* is pending.
Reported == [pendingPayment  |-> "pending",
             coinTransferred |-> "completed",
             declined        |-> "failed",
             expired         |-> "cancelled"]

\* Mutant: the status of a delivered order is not in the list.
BanxaStatus_Unlisted(s) == IF s = "coinTransferred" THEN "pending" ELSE Reported[s]

\* Mutant: the status of Banxa is stored as it is.
BanxaStatus_Raw(s) == s

BanxaStatus(s) == Reported[s]

-----------------------------------------------------------------------------
\* createCheckout: the order exists at Banxa before it is stored, and stays
\* there alone when the request ends in between.
CreateAtBanxa ==
  /\ banxa = NoOrder
  /\ banxa' = "pendingPayment"
  /\ UNCHANGED <<order, polls, writer>>

PersistOrder ==
  /\ banxa # NoOrder /\ order = NoOrder
  /\ order' = "checkout_created"
  /\ UNCHANGED <<banxa, polls, writer>>

\* External: the payment ends in one way.
BanxaSettles(s) ==
  /\ banxa = "pendingPayment" /\ s \in DOMAIN Reported \ {"pendingPayment"}
  /\ banxa' = s
  /\ UNCHANGED <<order, polls, writer>>

\* orderForUser: load the order; refreshOrder: ask Banxa; save.
LoadOrder(p) ==
  /\ polls[p].stage = "idle" /\ order # NoOrder
  /\ polls' = [polls EXCEPT ![p] = [Nobody EXCEPT !.stage = "loaded", !.loaded = order]]
  /\ UNCHANGED <<banxa, order, writer>>

AskBanxa(p) ==
  /\ polls[p].stage = "loaded"
  /\ \/ polls' = [polls EXCEPT ![p].stage = "answered", ![p].answer = BanxaStatus(banxa)]
     \/ polls' = [polls EXCEPT ![p] = Nobody]
  /\ UNCHANGED <<banxa, order, writer>>

\* Mutant: the whole document is written back.
SaveOrder_WholeDocument(p) ==
  /\ polls[p].stage = "answered"
  /\ order' = polls[p].answer
  /\ writer' = polls[p]
  /\ polls' = [polls EXCEPT ![p] = Nobody]
  /\ UNCHANGED banxa

SaveOrder(p) ==
  /\ polls[p].stage = "answered"
  /\ order' = IF polls[p].answer = polls[p].loaded THEN order ELSE polls[p].answer
  /\ writer' = polls[p]
  /\ polls' = [polls EXCEPT ![p] = Nobody]
  /\ UNCHANGED banxa

BanxaInit ==
  /\ banxa = NoOrder /\ order = NoOrder
  /\ polls = [p \in Pollers |-> Nobody] /\ writer = Nobody

BanxaPoll(p) == LoadOrder(p) \/ AskBanxa(p) \/ SaveOrder(p)

BanxaNext ==
  \/ CreateAtBanxa
  \/ PersistOrder
  \/ \E s \in DOMAIN Reported : BanxaSettles(s)
  \/ \E p \in Pollers : BanxaPoll(p)

-----------------------------------------------------------------------------
\* A settled order goes back to pending only by a request that loaded it when
\* no request had refreshed it yet and heard of Banxa before it settled. Any
\* later one that heard `pending` had loaded `pending`: it writes nothing.
SettledKept ==
  [][(order \in Final /\ order' # order) => (writer'.loaded = "checkout_created")]_banxaVars

\* The stored status becomes and stays the one Banxa settled on, while
\* requests go on, whatever stale answers come between.
SettledShown ==
  <>[](\A s \in DOMAIN Reported \ {"pendingPayment"} :
         order # NoOrder /\ banxa = s => order = Reported[s])
=============================================================================
