# Verification of influence-server

TLA+ models of the server's concurrent core, checked with TLC, and theorems about
them proved with TLAPS. Paths below are relative to the repository root.

Contents: [the system](#the-system) · [modules](#modules-and-the-code) ·
[runs](#runs) · [fairness](#fairness) · [proofs](#proofs) ·
[disagreements found](#disagreements-between-code-and-documentation) ·
[not modelled](#what-is-not-modelled) · [plan](#plan)

## The system

influence-server indexes the events that the game's contracts emit on Starknet and
Ethereum into MongoDB, derives game state from them, and serves that state over
HTTP and websockets. Next to the indexer it runs a few services with money behind
them: starter packs and crewmates paid through Stripe and granted on Starknet, and
a paymaster that sponsors the fees of new accounts.

Every part is its own process (`README.md:348-353`, `compose.yaml`, all with
`restart: unless-stopped`): the API server, one retriever per chain, the
event processor, the elastic indexer, and the auditors, which are scheduled (events
every ten minutes, agreements daily). They share nothing but MongoDB (collections,
and the Keyv checkpoints of `lib/cache`, also in MongoDB), Redis for the socket
messages, and the chain. Nothing is ever written in a transaction: what two
processes do to one document is ordered by their single writes only.

### Inventory

| component | state it keeps | operations | what is hard | what makes it correct |
| --- | --- | --- | --- | --- |
| **event retrievers** (`lib/events/retrievers`) | `LAST_RETRIEVED_*_BLOCK`, `CURRENT_*_BLOCK_NUMBER`, the events collection | bootstrap a checkpoint, read a block range, upsert its logs, advance | reorganisations under a range being read, crash between writing and advancing, unordered bulk writes | no log at or below the checkpoint is missing; a repeated range changes nothing |
| **event auditors** (`lib/events/auditors`) | `LAST_AUDITED_FINALIZED_*_BLOCK`, the events, the activities | compare the finalized blocks with the store, mark removed, purge activities, write again, reset `lastProcessed` | four awaited writes per repair against two other writers; cached block status | a block passed holds exactly the canonical logs, for ever |
| **event processor** (`lib/events/processor`, `handlers/BaseHandler.js`) | `lastProcessed` of each event, `LAST_EMITTED_CURRENT_STARKNET_BLOCK_NUMBER` | fetch a batch, run handlers, stamp, announce the block | documents of a batch change after the fetch; one process for both chains; one event that throws blocks all | events in order; every event handled; an announced block is processed |
| **event handlers** (`lib/events/handlers`, some 190 classes) | components, activities, crossings, owners, lot data, notifications, index queue | one per event type | several awaited writes, called again after a failure in the middle | called again, a handler does what it left undone |
| **component store** (`services/Components/*.js`) | one document per component of an entity, with the event that last wrote it | update unless the stored event is newer, delete | events of two chains, late, twice, out of order | a component shows the newest event it was offered |
| **activities** (`services/Activity.js`) | an activity per event, `unresolvedFor` | find or create, resolve the start of a finish, reassign, purge | pairing by a hash of a few fields and a timestamp | each finish resolves the start it finishes, and no other |
| **bridge crossings** (`services/Crossing.js`, `SwayCrossing.js`) | direction and status of assets in transit; pending and ready counters | start, complete, count | events of two chains in any order | a crossing is shown until something completes it; counters equal the transfers in transit |
| **search index** (`services/ElasticSearch.js`, `lib/elasticsearch/Indexer.js`) | queue of changed entities; the index | enqueue, format, bulk index, remove from the queue | documents that change while they are formatted; crash between index and removal | an empty queue means a current index |
| **lot tenancy** (`services/Lot.js`, `services/PackedData`, `workers/agreementAudit.js`) | ten bits per lot of an asteroid, in one cached array | refresh a lot, an attribute, or the lease status of all lots | read, compute, write of the whole array by two processes; values that span two words | the lease bits agree with agreements and policies |
| **notifications** (`services/Notifications`, `lib/notifications`) | pending notifications | create, collect, send, purge | a run that throws or stops between mail and purge | mailed once, unless a run failed; never dropped unsent |
| **offchain purchases** (`services/StarterPackPurchase.js`, `CrewmatePurchase.js`, `controllers/stripe.js`) | the purchase document and its status | checkout, webhook, customization, claim, submit, confirm | redelivered webhooks, concurrent requests, failures around an irrevocable transaction | one grant per paid purchase, and a status that says so |
| **AVNU paymaster** (`services/AvnuPaymaster.js`) | `paymasterReservedMilliStrk`, sponsorships | reserve, execute, mark submitted | concurrent calls, optimistic locking, roll-back | never sponsors more than the budget; never loses track of it |
| **faucet** (`services/Faucet.js`) | `lastClaimed` per recipient and token | claim | check, transfer, save | one claim a day |
| **Banxa orders** (`services/Banxa.js`) | the status of an order | create, refresh | stale answers of a third party | the final status stays |
| **login challenge, missions, messages, annotations, users, referrals** | one document each, or none | validate, upsert, derive | little | an upsert per natural key |
| **HTTP API, sockets, metadata, images, health, RPC providers, schemas, formatters** | none, or caches | read and format | caches | outside the models, see below |

How they interact: retrievers and auditors write `events`; the processor reads the
unprocessed ones in time order and calls a handler, which writes components and
activities and queues entities for the index; the indexer drains the queue; the
auditor reaches back into `events` and `activities` when a block differs. A
purchase is created by the API, paid through a Stripe webhook, granted by a
Starknet transaction the API sends, and confirmed by the handler of the event that
transaction emits. Handlers refresh the packed lot data and store notifications; the
agreement audit refreshes the same lot data, and the mail worker empties the
notifications. The paymaster charges the fees of a new account to that
purchase.

## Modules and the code

| module | models | shape |
| --- | --- | --- |
| `Chain` | the network, as far as the server relies on it: mining, reorganisations above the finalized height, finality, logs with their block's status | external |
| `EventStore` | events collection, activities, checkpoints, RPC cache; `services/Event*.js` as operators | shared state |
| `EventRetriever` | `lib/events/retrievers/*/retriever.js` | one action per awaited request |
| `EventAuditor` | `lib/events/auditors/*.js`; the four writes of `repairChangedBlocks` are four actions | one action per awaited request |
| `EventProcessor` | `EventProcessor.js`, `BaseHandler.js` | one action per awaited request |
| `EventPipeline` | the composition, with worker failures; properties | `Next`, `Spec`, `FairSpec` |
| `EventPipelineInv` | the inductive invariants of the pipeline | invariants |
| `NatLemmas` | extremes of sets of naturals, sums over finite sets | lemmas |
| `EventPipelineProofs`, `EventAuditProofs` | types; audits, statuses, checkpoints, order of handling | theorems |
| `PaymasterBudget` | `reserveBudget`, `validateExecuteRequest`, `markSubmitted` of `AvnuPaymaster.js` for one purchase | one action per awaited request |
| `PaymasterProofs` | the accounting | theorems |
| `OffchainPurchase` | one purchase: Stripe, its webhook, `completeGrantRequest`, `submitGrant`, the confirming handler | one action per awaited request |
| `OffchainPurchaseProofs` | proofs | theorems |
| `CrewmatePurchase`, `CrewmatePurchaseProofs` | `services/CrewmatePurchase.js`: the same steps with the ownership check of the crew | composition, theorems |
| `HandlerSteps` | the vocabulary of effects handlers are written in | sequences of effects |
| `TaskHandlers`, `SystemHandlers`, `ComponentHandlers`, `BridgeHandlers` | every handler class of `lib/events/handlers`, one definition each | programs |
| `Handlers` | `lib/events/processor/config.js`: the handler of an event | table |
| `EventHandling` | the processor running those programs; `Activity`, `Component`, `Nft`, `Crossing`, `SwayCrossing`, `AsteroidSale`, `ElasticSearch` services and the indexer | one action per awaited effect |
| `ComponentRegister` | what components promise: a register of the newest event offered | abstract specification |
| `EventHandlingProofs` | the register and every safety property of `EventHandling` | theorems |
| `LotTenancy` | `LotData.js`, `PackedData.js`, `Lot.js`, `agreementAudit.js` | read, compute, write of two processes |
| `NotificationMail` | `services/Notifications`, `lib/notifications/Processor.js`, `workers/notifications.js` | one action per notification or mail |
| `Faucet`, `BanxaOrder` | `recordClaim`; `createCheckout`, `orderForUser`, `refreshOrder` | one action per awaited request |
| `Services` | the four services above, one at a time | composition |
| `ServicesProofs` | every safety property of the four | theorems |
| `MC*` | sets and symmetry for TLC | instances |

Granularity. Node.js runs one callback at a time, and the workers are separate
processes, so anything can happen between two awaited requests and nothing in
between. An action is therefore the code from one `await` to the next. Where
requests between two writes only read what nothing else changes, they are folded
into one action (the comparison of the auditor reads its logs and its documents in
one step; both are of final blocks, which only the retriever of a block that is not
yet audited could disturb). Folded in the same way: the block number, the logs and the
blocks of one pull of the retriever, whose answers may disagree when the chain forks
between them; the checkpoints a worker reads, of which it is the only writer but for the
bootstrap from another worker's; and the bootstrap with the write that stores it, because
a crash between the two leaves nothing behind. A reorganisation in the middle of one
pull is therefore left out; one between a pull and its saves, or between two of them, is
in.

**Events.** A document of the events collection is a record `[tx, n, block, fork,
status, removed, done]`: `tx` and `n` are its `_id` and the log it holds, `fork`
the block hash, `done` says `lastProcessed` is set. A transaction emits one event,
so `tx` also plays its transaction index. `Matches` is the filter of the upsert,
where the two chains differ: Starknet finds a document of the log by
`removed: false`, Ethereum by the block hash. `Logs` reads the chain through
`rpcCache`, because `rpc.js` takes the status of a block from a cache.

**The retriever** (`idle → pull → save → advance`) writes its logs one at a time,
because a bulk write is atomic per document only; `MayWrite` is the `ordered`
option. **The auditor** (`idle → start → compare → remove → purge → upsert →
reset → refresh → advance`) keeps in memory what the code keeps in local variables:
`changed` blocks, transaction hashes to purge, events to write. **The processor**
(`idle → handle → finalize → … → check → emit`) holds the batch as it was fetched;
`Stamped` writes `lastProcessed` alone, whatever has become of the document. A
failure drops the memory of a worker at any point.

**The paymaster**: `sponsorship[t]` is the document of request fingerprint `t`,
with the version its compare-and-swap uses; `call[c]` is a running `forward()`,
through `find → charge → save (→ rollback)` for a build and `execute → mark` for an
execution. `executed` and `settled` are history variables.

**The purchase**: `doc` is the document; `webhook[w]` and `request[r]` the local
variables of a running handler, with the status each has read, and for a delivery
whether another one has saved since (`overtaken`, a history variable). `Write` is a
Mongoose `save()`: only paths that differ from what was loaded are written. A
grant is appended to `grants` at the moment `account.execute` is accepted, before
the answer is known.

**Handlers.** A handler class is a definition of the same name (with `V0`, `V1` for
versioned events): the sequence of its awaited effects in the order of the source,
early returns included. For instance

    ConstructionFinished ==
        Once \o Resolves("ConstructionStarted") \o Tell(AtSite) \o Lot("buildingType")

is a `findOrCreateOne`, a return if the activity existed, a `resolveStartActivity`, the
rooms pushed, and an update of the lot's building type. `EventHandling` interprets the
programs with one action per effect: between any two, events are retrieved, the
indexer takes a step, or a process crashes. Reading, comparing and saving one component
is one step, because the processor is the only writer of components while it runs.
A component, an owner or a crossing holds the number of the event it is of; numbers
follow the order of the two chains (timestamp, transaction, log), so that ties of
timestamps across transactions and chains can be told from order. `scenario` is a short
history of the chains; `Arrive` stores its events in any order, which is what separate
retrievers and a later audit do. `skipped` notes a handler that left its follow-ups out
when it was called again, `overtaken` that an event was handled after a later one, and
properties say where they depend on either. `run.old` is the event of the document a
save replaced, the handler's own event if it is called again: the reset of an agreement's
status (`ResetStatus`, on `terminated`) and the rooms of `TellReplaced` and
`TellIfChanged` depend on it. Every handler class is modelled that `config.js` registers;
`starknet/ShipVariant` and `starknet/Sway/Transfer.js` are not registered and never run.

**Services.** `LotTenancy` scales ten bits a lot and 32 a word down to five and eight:
the value of a lot still spans two words. `refresh[w]` is one refresh under way by the
processor or the audit; its three steps are the read, the computation and the write.
`NotificationMail` runs one mail run at a time, as the scheduler does. `Services`
chooses one of the four by `subject`: they share no state, and exploring them side by
side would only multiply it.

## Runs

Passing runs. All switch the deadlock check off, because every model bounds its
environment (blocks, forks, builds, requests) and the real system is idle once
nothing is left to do.

| run | question | instance | shows |
| --- | --- | --- | --- |
| `PipelineStarknet` | `TypeOK`, `AuditedCanonical`, `AcceptedUnlessMisread`, `RetrievedComplete`, `EventuallySettled` | Starknet, 2 blocks, 1 transaction, 1 reorganisation, a failure of any worker anywhere, blocks cached for any time | what the auditor passed stays canonical, with its final status unless the RPC cache answered for a block that was final; restarts skip nothing, and the pipeline comes to rest |
| `PipelineEthereum` | `PipelineInv`, `FirstHandledInOrder` | Ethereum, 2 transactions, retrieval and audit of 2 blocks at a time, processor batches of 1 | the other upsert filter; the inductive invariants of the proofs, which imply `AuditedCanonical` and `RetrievedComplete`; first handling in chain order with a backlog larger than a batch |
| `PaymasterRaces` | `TypeOK`, `ChargedOnce`, `WithinBudgetUnshared`, `BuildsAnswered` | 3 calls, 1 transaction, 3 builds, 1 failure of any kind | optimistic locking charges each reservation once, never beyond the budget; a crash leaves at least what is reserved charged; AVNU keeps to the budget unless two executes overlap; the retry loop ends |
| `PurchasePaid` | `TypeOK`, `PaidBeforeGrant`, `ClaimedOnce`, `PaidOnce`, `PaidRecorded`, `SubmissionEnds` | crewmate purchase, 2 deliveries, 2 requests that overlap or retry, 2 failures, restarts, lost answers of execute | nothing is granted unpaid or without a customization; no second claim of a submitted purchase, but for the two ways `overruled` records; only a delivery overtaken by another puts a purchase back to paid; a payment is recorded, submissions end |
| `Handlers` | 13 properties of `EventHandling` | 230 histories of two to four events, retrieved in every order, one crash of processor or indexer | see below |
| `Services` | 10 properties of the services | 2 lots that share a word, 3 lot events, a crash; 2 notifications, 3 submissions, a failing run; 3 claims; 2 requests for an order | see below |

`Handlers`: a finish resolves its own start (`StartsResolved`), a delivery even when its
handler crashed (`ReceivedDespiteCrash`), and nothing else stops an activity waiting
(`OngoingKept`); packages follow a building that changes hands
(`PackagesFollowBuilding`); a handler that crashed after its save does, when called
again, every follow-up that does not depend on the document it replaced
(`FollowUpsSurvive`); components implement the register
(`ImplementsRegister`); counters and crossings of the bridges and the owners on both
chains agree with the events handled (`SwayCounted`, `CrossingKept`, `CrossingGone`,
`OwnersCurrent`); an empty queue means a current index (`SearchCurrent`, of each component and owner that
all its events queue the document for); all events are
handled and indexed in the end (`EventuallySettled`).

`Services`: lease bits follow agreements and policies (`TenancyShown`) and single-lot
refreshes leave other lots alone (`OtherLotsUntouched`); the audit clears what expired
(`ExpiredCleared`); a message is mailed once per submission and failed run
(`MailedOnce`), never dropped (`NothingDropped`) and in the end mailed, read or too old
(`MailArrives`); claims that do not overlap are an interval apart
(`PaidOncePerInterval`); a settled Banxa order stays settled (`SettledKept`) and is shown
(`SettledShown`).

Violation runs, each a short instance of one disagreement listed
[below](#disagreements-between-code-and-documentation): `PipelineMissedEvent`,
`PipelineCachedStatus`, `PaymasterConcurrent`, `PurchaseOverlapping`,
`PurchaseConfirmed`, `HandlersLostReset`.

`ChargedOnce` and `WithinBudgetUnshared` are stated of behaviours in
which nothing was lost (`lost`): a call cut short keeps its charge, and a write that
was applied although it was reported as failed is rolled back by the code.
`FirstHandledInOrder` is stated until the first fork or audit: an audit that removes
and writes again a block the processor is about to read changes the order.

### Bounds

- `MaxBlock`, `MaxFinal` = 2: a range behind and a range ahead of a worker, a
  transaction that moves between blocks, and an audit that follows another one.
  `MaxForks` = 1 is one reorganisation of any depth; with it a log can be orphaned,
  included elsewhere, or dropped. `MaxVersions` = 3 exceeds the documents any of
  the runs create for one log (live, removed, one to spare).
- `BlockBatch` is 1 so that every block boundary is a batch boundary, and 2 in
  `PipelineEthereum` for repairs of several blocks at once.
- `MaxFailures`: one failure can strike at every step of every worker; the run
  of the purchase, which asks about retries, allows two.
- `MaxBuilds` = 3 lets two builds race while a third rebuilds an executed
  transaction; fees of 1 and 2 give an increase of zero, a partial increase and a
  full one; the budgets (2, 3, 5) are small enough to be hit.
- Two requests, and two deliveries, are the least that race, and the second may also
  begin when the first is through, to retry what it left; for more of them there are the
  theorems. `PurchasePaid` is of a crewmate purchase, whose steps are those of a starter
  pack and the refusal of the crew: its behaviours contain those of both. Two customizations tell whose was granted.
- The scenarios of `Handlers` (`MCEventHandling`) combine, for each mechanism, the
  handlers that use it: two starts and a finish of each task, in one block or several;
  components of each shape saved, cleared and saved again by events of one chain or
  two; every token and its bridges there and back; SWAY withdrawals of one amount
  twice; and each other handler at least once, with a crash at every effect.
  Three or four events suffice for an event, its counterpart and one that interferes.
- In `Services` two lots share a word, and a third event lets a policy come and go
  around a lease; three claims let a third one profit from a race of two; two requests
  are the least that bring a stale answer.
- No run uses symmetry: transactions of the pipeline are ordered, and the others
  check liveness or are small.

Assumptions behind switches: `SlowRetriever = FALSE` says that finality (hours on
Starknet, minutes on Ethereum) does not overtake logs the retriever holds in memory;
Without it `AuditedCanonical` fails. Nothing is assumed of the RPC cache: an entry
may outlive any change of its block's status (`blockTtl` is an hour), until the block
itself is gone from the chain, as the cache is asked by block hash. The history
variable `misread` collects the final blocks the cache answered for with an older
status. Every run evaluates the assumptions the proofs rest on: that the constants are of
their sorts (`ChainAssumption`, `ScenarioAssumption`, `FaucetAssumption`, `LotAssumption`
and the like), what all handlers have in common (`ProgramForms`), and in
`MCEventHandling` that its histories meet the hypotheses of the theorems about tasks and
withdrawals (`HistoriesApart`). `Restarts`, `LostReplies`, `Overlapping` of the purchase switch on what their
names say; the three are on in `PurchasePaid`, and no theorem asks for one of them to
be off. `LegacyAccepted` is the checkpoint `ACCEPTED_L1_BLOCK` of an earlier release,
which `getBootstrapCheckpoint` still reads first and nothing writes any more; the runs are
of a deployment without one, the theorems of any.

## Fairness

- `EventPipeline`: weak fairness of each worker. Retriever and processor are loops
  that the container platform restarts (`restart: unless-stopped`); the auditor is
  scheduled every ten minutes (`README.md:350-351`). Weak fairness of
  `BlockFinalized` is the network's. Mining, forks, cache expiry and failures have
  none.
- `PaymasterBudget`: weak fairness of the steps of a running call. An awaited
  request returns or rejects (AVNU calls carry a timeout). Nothing forces a wallet
  to ask.
- `OffchainPurchase`: weak fairness of a running request, and of the handling of a
  delivery: Stripe delivers again until it is answered with a 2xx. Neither the
  customer, nor the player, nor Starknet is forced to act.

- `EventHandling`: weak fairness of retrieval (`Arrival`), of the processor and of the
  indexer, which the platform restarts. None of crashes.
- `Services`: weak fairness of a refresh that was begun and of processing an event
  again, of the scheduled audit and mail worker, and of players who keep asking for an
  order; strong fairness of an answer of Banxa, which may fail but not for ever.

## Proofs

All theorems hold for every value of the constants under the named assumptions.

Every invariant and every action property that a run checks is a theorem; what is left
to TLC is liveness. A bound in a run, such as one failure or two blocks, is a bound of
the run only.

### The pipeline

- `EventPipelineProofs!TypeCorrect`: `Spec => []TypeOK`.
- `EventAuditProofs!AuditCorrect`: `SlowRetriever = FALSE => (Spec =>
  []AuditedCanonical)`. `AuditedCanonical` is not inductive: a write of the
  retriever of a log it read before a reorganisation could land in an audited
  block. `AuditInv` adds why it cannot. A document is the only one its upsert can
  find (`StoreInv`). Each log in the retriever's memory agrees with what is final
  (`RetrieverInv`: here the assumption enters, in `BlockFinalized`). The auditor
  works above its checkpoint and below finality (`AuditorRange`). After its
  comparison each canonical log of the batch is stored or about to be, and nothing
  else is, except in blocks it has yet to clear (`AuditorRepairs`). An upsert that
  agrees with the final blocks can then neither remove a log from an audited block
  nor add one to it.
- `AcceptedUnlessMisreadCorrect`, under the same assumption and for a cache of any
  lifetime: a log the retriever or the auditor read as "accepted on L2" is of a block
  that was not final then, or of one in `misread` (`StatusesRead`), and once compared, a
  stored event has its final status, or is about to be refreshed, or is of a block in
  `misread` (`StatusesRepaired`). `PipelineCachedStatus` shows that the exception is
  needed: without it the statement is `AuditedAccepted`, which the code violates.
- `RetrievedCompleteCorrect`: once a range was read, each log of it is held or stored
  (`RetrieverRange`), and an audit removes nothing at or below the checkpoint it first
  started from (`RemovedInv`). `RetrievedComplete` counts from `retrieveStart`, the
  checkpoint the retriever first started from, a history variable: what a bootstrap from
  the auditor's checkpoint skips is not the retriever's to store. An upsert of one log
  never takes the document of another (`AuditInv` again).
- `FirstHandledInOrderCorrect`: on Ethereum, from the types alone. Until the first fork
  or audit, a log is stored only after all logs before it in the chain
  (`StoredInOrder`), the retriever holds the next ones (`RetrievingInOrder`), and what
  precedes an event of the batch was handled or is in the batch before it
  (`HandlingInOrder`); so the processor's fetch cannot pass over an earlier log. An
  unordered bulk write (`MayWrite_Unordered`) breaks `StoredInOrder`.
- `PipelineInvCorrect`: the four together; `PipelineEthereum` checks them.

### Purchases and the paymaster

- `OffchainPurchaseProofs!PurchaseTypeCorrect`: `Spec => []TypeOK`. `TypeOK` says
  of `grants` that each has a customization; `Customized` adds that a request past
  its first save finds one in the document.
- `PaidBeforeGrantCorrect`: no assumption. `PaidFirst` says
  that whatever left `checkout_created` behind, and every running request, did so
  after the payment.
- `PaidOnceCorrect`: no assumption. `CheckoutOpen` says
  that a delivery which has read `checkout_created` still finds it there, unless another
  has saved since (`overtaken`), and that an open checkout has no running request.
- `ClaimedOnceCorrect`: no assumption; requests overlap, answers are lost and events are
  delivered as they like. The property names what can break it in the history variable
  `overruled`: an execute that ends with an error while a grant is on its way whose hash
  is not in the document (its own, whose answer was lost, or that of another request
  which executes the purchase it found claimed), and a delivery that puts a purchase
  which was claimed since it read it back to paid. `Guarded` says that until then, after
  a submission, the hash is in the document, or the purchase is in a status no claim
  accepts, or a request that holds the hash is about to save it (`Holds`). That a claim
  is not repeated does not mean that the grant is submitted once: the loser of a claim
  submits without one, which is `PurchaseOverlapping`.
- `CrewmatePurchaseProofs!CrewmatePaidOnce` and `CrewmateClaimedOnce`: the same two
  for crewmate purchases. A step is one of `OffchainPurchase`, or the refusal of the
  crew, which ends a request and touches nothing else (`CrewmateStep`); the invariants
  above are shown to survive it, and the step lemmas are cited for the rest.
- `PaymasterProofs`: `PaymasterTypeCorrect`, `ChargedOnceCorrect`,
  `WithinBudgetUnsharedCorrect`, without assumptions beyond the sorts of the constants.
  The totals are sums over the transactions and the calls; `NatLemmas` shows what becomes
  of a sum when one term changes. `Snapshots` says that a version not yet overtaken still
  means the fee that was read, so that the increase a build has charged is the increase
  its write makes (`Increases`); whatever a call may still roll back is part of what is
  reserved (`ChargesBacked`). For the budget, `Executions` compares what AVNU has
  sponsored with the reservations settled or being spent, which `ChargedOnce` bounds by
  what the purchase was charged. `PaymasterConcurrent` shows why executes may not
  overlap.

### Handlers

All hold for every set of histories (`Scenarios`), of any length, and any number of
crashes. They hold of the handlers of this repository, not of any table: what the proofs
use of it is `ProgramForms` and, where one program matters, its text. `ProgramForms` is a
closed formula about the table of `Handlers` (owners and crossings are written first, the
index is queued after what it shows, a handler that goes on only if it saved has saved
one thing); TLC evaluates it in every run that has the table.

- `HandlingTypesHold`: `Spec => []TypeOK`.
- `ComponentsImplementRegister`: `Spec => Register!Spec`. The
  inductive invariant: each component holds 0 and was offered nothing, or holds one of
  the newest of the events it was offered. A step that saves, refuses or removes maps to
  `Offer` or `Remove`; all others to stuttering. What needs care is the order: it is by
  place in the chain within one chain and by timestamp across two. The two together are
  not transitive, so `Newest` asks for places only when all events offered are of one
  chain.
- `OngoingStays`: `Spec => OngoingKept`, from the type invariant.
  `FindStart` compares the event it found by place, although the query compares
  timestamps.
- `InTurn` is the ground of the rest: a handler that runs is of an event before all that
  were begun and not handled, and an event that begins before an earlier one makes the
  pair `overtaken`. `Past(e, i)` says that the handler of `e` has been through its
  effect `i`; each property is strengthened from "was handled" to "is past the effect".
- `OwnersCurrentHolds`, `CrossingKeptHolds`, `CrossingGoneHolds`: what the last event in
  order wrote is still there, because any later writer was begun.
- `PackagesFollowBuildingHolds`: a package that was reassigned is only reassigned again
  by a later repossession.
- `FollowUpsSurviveHolds`: a follow-up passed by was done, or the event was refused and
  had never been saved. A handler called again cannot be refused, because what is stored
  is never of a later event until it is handled (`NotLaterInv`). Follow-ups here are lot
  data, notifications and single updates, which handlers make whatever document they
  replaced. What depends on that document, the status of an agreement and two kinds of
  messages, is lost by a crash after the save: `HandlersLostReset`.
- `StartsResolvedHolds`, for `StartsApart`: two starts of a task on an entity differ in
  time. `findStartActivity` tells them apart by timestamps alone and the theorem says
  what it does where they differ, as they do if the contracts let no task start and end
  in one block. `ReceivedDespiteCrashHolds` asks also for
  `SentApart`: nothing is sent in the block in which it was received. `SwayCountedHolds`
  asks for `WithdrawnFirst`: the contracts prove or consume only what was initiated.
  Events may still arrive, and be handled, in any order.
- `SearchCurrentHolds`: items name the event that queued them (`ItemsInv`), the indexer
  writes only what it formatted (`IndexerInv`), and a document shows a component as it
  is, or will be formatted again, or a handler that wrote it has yet to queue the
  document (`ComponentsFresh`, `OwnersFresh`). The last disjunct is where a handler may
  crash; `FollowUpInv` says that it comes to its queueing again.

### Services

- `SettledKeptCorrect`: a request that holds a final status heard it from Banxa
  (`Heard`).
- `PaidOncePerIntervalCorrect`: unless claims `raced`, one is under way at most, what it
  read is what is stored, and the one record is as recent as every payment
  (`FaucetAlone`).
- `MailedOnceCorrect`, `NothingDroppedCorrect`: a run is to mail only what is owed, and
  what is due is owed unless the run has mailed it and is about to remove it
  (`MailOwed`); a run removes nothing wanted that was not mailed (`PurgeMailed`).
- `OtherLotsUntouchedCorrect`, `TenancyShownCorrect`: `PackedSet` changes the bits of one
  value only (`PackedSetsOnly`), a lemma of each of the eight positions a value may have
  in the words, for every number of lots. `LotInv` then says of each refresh what the
  array it is about to write will show: all leases but those the processor's event is
  about.
- `ServicesTypesCorrect`: the types, and no recipient has more records than claims.

Only model-checked: liveness (`EventuallySettled` of the pipeline and of the handlers,
`BuildsAnswered`, `PaidRecorded`, `SubmissionEnds`, `ExpiredCleared`, `MailArrives`,
`SettledShown`), which the prover has no rules for, and the six violations.

## Disagreements between code and documentation

| run | what happens |
| --- | --- |
| `PipelineMissedEvent` | The auditor purges an activity and resets its event between handler and stamp; the stamp wins and the activity is gone for good. |
| `PipelineCachedStatus` | A block cached before its acceptance on L1 passes its only audit with a stale status. |
| `PaymasterConcurrent` | Two execute requests in flight share one reservation. |
| `PurchaseOverlapping` | A request that loses the claim to a submitted purchase submits it again. |
| `PurchaseConfirmed` | `grant_confirmed`, saved by the indexer, is overwritten by `grant_submitted`. |
| `HandlersLostReset` | The handler of a longer lease crashes between saving it and resetting its status; called again it compares the new end with itself (`agreements/Prepaid.js:41`), and the lease stays cancelled. |

Others were seen with the same models and have no run of their own, being of the
same kind or of less weight:

- a batch fetched before an audit creates the activity of an orphaned transaction
  after the audit purged it (`EventProcessor.js:21`), the mirror of
  `PipelineMissedEvent`;
- a block is announced while an event stored a moment ago waits
  (`EventProcessor.js:78`);
- removed events are reset "to be re-processed" (`services/Event/Starknet.js:78`) and
  the query of the processor leaves them out (`services/Event.js:13`);
- Starknet events are sorted by age (`services/Event/Starknet.js:10`) and then
  written by an unordered bulk write;
- a customization submitted later replaces the stored one after the first was
  granted (`StarterPackPurchase.js:318`);
- a save that fails after `execute` reports a submitted grant as failed
  (`StarterPackPurchase.js:414`, against `README.md:226`).

Found with the models of handlers and services, each excluded from a property by the
condition named:

- a handler that removes a component and crashes before it returns finds nothing to
  remove when it is called again, and returns before lot data and index are refreshed
  (`components/policies/Prepaid.js`; `skipped`); most handlers of system events return
  likewise once their activity exists;
- `deleteOne` compares no events (`Component.js:45`): a clearing event that comes late
  deletes a newer document; the register forgets what it was offered when it is removed;
- `BridgeFromStarknet.js:14` looks the token up by `_entity.uuid`, a field no document
  has, so the owner on Starknet is dropped where the comment at line 27 says it is kept
  (`OwnsAlone`);
- called again after its save, `Unique.js:31` does not tell the old tenant and
  `Crew/v1.js:42` may not tell the crew (`run.old`); and `Crew/v1.js:28` computes no
  `lastReadyAt` from a document that is of its own event, so the save drops the field
  `Activity.js:212` reads (the fields of a component are not modelled);
- a message to Starknet that is retrieved after its `BridgedFromL1` was handled leaves a
  crossing until the message is consumed on Ethereum (`CrossingGone`, `overtaken`), and a
  withdrawal proven before it was seen to be initiated leaves one pending for good
  (`SwayCounted`);
- the services for crews, leases and tasks store recipients as `entitities`
  (`CrewReady.js:44`, `LeaseExpiration.js:55`, `Resolvable.js:39`), so such a
  notification has none, and the mail worker throws on it before it sends anything
  (`MailArrives` is stated for the time when none is due); one of two notifications in
  one mail that cannot be formatted is purged with the other (`NothingDropped`);
- two refreshes of an asteroid's lots at once lose one of them (`disturbed`);
- two overlapping claims at the faucet are both paid, and each inserts a record if it is
  the first: the index on recipient and token is not unique (`raced`);
- an order whose request ends between Banxa and the database is never stored; an order
  that was loaded as `checkout_created` overwrites a final status with a stale `pending`
  (`SettledKept`).

`workers/eventProcessor.js` passes the option `timestamp` where `EventProcessor.main`
reads `timeStamp`, so `--timestamp` has no effect; the model has no such option.

## What is not modelled

`PROJECT.json` lists every component with its reason. In short:

- the login challenge (a nonce with a TTL; what matters is the signature, which the
  wallet contract checks), missions (derived on request from indexed documents), users,
  watch lists, referrals, claims, annotations and API keys (one upsert each, on behalf of
  one user);
- formatting, metadata, images, schemas, queries and the routes that read have no
  behaviour a model adds to; sockets are fire-and-forget; the back-off of the providers,
  their transport and ABI decoding are below the granularity of `Chain`;
- scripts an operator runs (`bin/`, `lib/backfills`), with the snapshots of components
  one of them writes and `updateOrCreateFromEvent` respects, and `runOnce` with explicit
  blocks.

Within modelled components: a Banxa order that is refunded after it was completed (the
model has Banxa settle an order once), two auditors that overlap, the time that passes (TTLs and
thresholds are nondeterministic), product listing, validation of a customization,
eligibility for sponsorship, the rate limit, and the data an event carries into a
document. `EventPipeline` reduces a handler to its activity and `EventHandling` reduces
the store to events that arrive; a repair of the auditor in the middle of real handlers
is in neither, because the product of the two is beyond an exhaustive run.

## Plan

Done: the event pipeline, the paymaster, both purchases, all handlers with the
components, activities, bridges and index they write, lot data, notifications, faucet and
Banxa orders; every safety property of a run proved. Next:

1. Refinements: an abstract canonical log implemented by the audited part of the
   pipeline, and an abstract purchase (open, paid, granted) implemented by
   `OffchainPurchase` as far as nothing is `overruled`, each with its proof.
2. `FirstHandledInOrder` after forks, and for Starknet as far as its unordered bulk write
   lets it be stated.
3. Two audits at once, and a crash between the four writes of a repair, which the
   hazards list without a property.
4. The order of the register when events of both chains are offered: which writes may go
   back in the chain.
5. Snapshots of components, once a script that writes them runs next to the processor.
