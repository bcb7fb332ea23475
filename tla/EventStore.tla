----------------------------- MODULE EventStore ------------------------------
(***************************************************************************)
(* What the event workers share through MongoDB: the events collection     *)
(* (services/Event.js, services/Event/Starknet.js, services/Event/         *)
(* Ethereum.js), the Activity documents recorded by the event handlers and *)
(* the block checkpoints kept in the Keyv cache (lib/cache).               *)
(***************************************************************************)
EXTENDS Chain

CONSTANTS
    Origin,         \* originBlock of the configuration
    BlockBatch,     \* blocks read at a time
    MaxVersions     \* bound: documents ever created for one transaction

ASSUME StoreAssumption ==
    /\ Origin \in Nat \ {0}
    /\ BlockBatch \in Nat \ {0}
    /\ MaxVersions \in Nat

VARIABLES
    docs,           \* the events collection
    activities,     \* transactions an Activity document exists for
    lastRetrieved,  \* LAST_RETRIEVED_*_BLOCK
    lastAudited,    \* LAST_AUDITED_FINALIZED_*_BLOCK
    currentBlock,   \* CURRENT_*_BLOCK_NUMBER
    lastEmitted,    \* LAST_EMITTED_CURRENT_STARKNET_BLOCK_NUMBER
    rpcCache        \* blocks the Starknet RPC cache holds with status ACCEPTED_ON_L2

storeVars == <<docs, activities, lastRetrieved, lastAudited, currentBlock,
               lastEmitted, rpcCache>>

\* The value of a checkpoint that was never written.
Unset == -1
Checkpoint == {Unset} \cup Nat

\* The pair tx, n stands for the _id of a document.
Doc == [tx : Tx, n : 1..MaxVersions, block : Heights, fork : Forks,
        status : {"L1", "L2"}, removed : BOOLEAN, done : BOOLEAN]

StoreTypeOK ==
    /\ docs \subseteq Doc
    /\ activities \subseteq Tx
    /\ lastRetrieved \in Checkpoint
    /\ lastAudited \in Checkpoint
    /\ currentBlock \in Checkpoint
    /\ lastEmitted \in Checkpoint
    /\ rpcCache \subseteq Heights \X Forks

StoreInit ==
    /\ docs = {}
    /\ activities = {}
    /\ lastRetrieved = Unset
    /\ lastAudited = Unset
    /\ currentBlock = Unset
    /\ lastEmitted = Unset
    /\ rpcCache = {}

Larger(a, b) == IF a < b THEN b ELSE a
Smaller(a, b) == IF a < b THEN a ELSE b

Live == {d \in docs : ~d.removed}

SameLog(d, e) == d.tx = e.tx /\ d.block = e.block /\ d.fork = e.fork

\* The filter of the upsert: Starknet looks for the one document of the log
\* that is not removed, Ethereum for the log in the very same block.
StarknetMatches_AnyDocument(d, e) == d.tx = e.tx    \* mutant: without removed: false
StarknetMatches(d, e) == d.tx = e.tx /\ ~d.removed
EthereumMatches(d, e) == SameLog(d, e)
Matches(d, e) ==
    IF Source = "Starknet" THEN StarknetMatches(d, e) ELSE EthereumMatches(d, e)

\* The update of the upsert; an Ethereum update also clears removed.
Refreshed(d, e) ==
    [d EXCEPT !.block = e.block, !.fork = e.fork, !.status = e.status,
              !.removed = IF Source = "Ethereum" THEN FALSE ELSE @, !.done = FALSE]

FreeVersions(e) == {n \in 1..MaxVersions : \A d \in docs : d.tx = e.tx => d.n # n}

NewDoc(e) ==
    [tx |-> e.tx, n |-> CHOOSE n \in FreeVersions(e) : TRUE, block |-> e.block,
     fork |-> e.fork, status |-> e.status, removed |-> FALSE, done |-> FALSE]

\* One operation of the bulk write in updateOrCreateMany.
UpdateOrCreate(e) ==
    LET found == {d \in docs : Matches(d, e)} IN
    \/ /\ found = {}
       /\ FreeVersions(e) # {}
       /\ docs' = docs \cup {NewDoc(e)}
    \/ \E d \in found : docs' = (docs \ {d}) \cup {Refreshed(d, e)}

\* updateMany({ blockNumber: { $in }, removed: { $ne: true } })
UpdateManyAsRemoved(blocks) ==
    docs' = {IF d.block \in blocks /\ ~d.removed
               THEN [d EXCEPT !.removed = TRUE, !.done = FALSE] ELSE d : d \in docs}

ResetLastProcessedFromBlock(block) ==
    docs' = {IF d.block >= block /\ ~d.removed
               THEN [d EXCEPT !.done = FALSE] ELSE d : d \in docs}

PurgeByTransactionHashes(txs) == activities' = activities \ txs

NonProcessed == {d \in docs : ~d.done /\ ~d.removed}

\* The sort of getNonProcessed: block time, then position in the block.
Before(d, e) == d.block < e.block \/ (d.block = e.block /\ d.tx < e.tx)

\* Which of the events left may be written next: an ordered bulk write, as for
\* Ethereum, runs oldest first; the unordered one for Starknet promises nothing.
MayWrite_Unordered(e, events) == TRUE               \* mutant: ordered: false for both
MayWrite(e, events) == Source = "Starknet" \/ \A x \in events : ~Before(x, e)

\* The batches a sorted find limited to n documents may return.
FirstBatches(S, n) ==
    {B \in SUBSET S :
        /\ Cardinality(B) = Smaller(n, Cardinality(S))
        /\ \A d \in B, e \in S \ B : ~Before(e, d)}

\* blockNumber of getLatestEventByBlock, which skips removed Starknet events.
EventBlocks == {d.block : d \in IF Source = "Starknet" THEN Live ELSE docs}
LatestEventBlock ==
    IF EventBlocks = {} THEN Unset
    ELSE CHOOSE b \in EventBlocks : \A c \in EventBlocks : c <= b

=============================================================================
