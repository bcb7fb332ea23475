---------------------------- MODULE EventPipeline ----------------------------
(***************************************************************************)
(* The event pipeline of one chain: the chain, the retriever, the auditor  *)
(* and the processor over the shared collections.  The workers are         *)
(* separate processes; each of their steps is one awaited request, and any *)
(* of them may fail or be restarted between two steps.                     *)
(***************************************************************************)
EXTENDS EventRetriever, EventAuditor, EventProcessor

CONSTANTS
    MaxFailures,    \* bound: failures and restarts of the workers
    SlowRetriever   \* whether finality may overtake the logs the retriever holds

ASSUME PipelineAssumption ==
    /\ MaxFailures \in Nat
    /\ SlowRetriever \in BOOLEAN

VARIABLES
    failures,       \* failures so far
    handled,        \* history: transactions whose event was ever handled
    auditStart,     \* history: the checkpoint the first audit started from
    retrieveStart,  \* history: the checkpoint the retriever first started from
    misread         \* history: final blocks the RPC cache answered for as L2

history == <<handled, auditStart, retrieveStart, misread>>

vars == <<chainVars, storeVars, retriever, auditor, processor, failures, history>>

TypeOK ==
    /\ ChainTypeOK
    /\ StoreTypeOK
    /\ RetrieverTypeOK
    /\ AuditorTypeOK
    /\ ProcessorTypeOK
    /\ failures \in 0..MaxFailures
    /\ handled \subseteq Tx
    /\ auditStart \in Checkpoint
    /\ retrieveStart \in Checkpoint
    /\ misread \subseteq Heights

Init ==
    /\ ChainInit
    /\ StoreInit
    /\ RetrieverInit
    /\ AuditorInit
    /\ ProcessorInit
    /\ failures = 0
    /\ handled = {}
    /\ auditStart = Unset
    /\ retrieveStart = Unset
    /\ misread = {}

\* The RPC cache is asked by block hash, so what it holds of a block that is gone
\* is never read again and left out.
ChainGrows ==
    /\ Mine \/ Reorg
    /\ rpcCache' = {c \in rpcCache : c[1] \in DOMAIN chain' /\ chain'[c[1]].fork = c[2]}
    /\ UNCHANGED <<docs, activities, lastRetrieved, lastAudited, currentBlock,
                   lastEmitted, retriever, auditor, processor, failures, history>>

\* Finality takes minutes on Ethereum and hours on Starknet.  Unless the
\* constant says otherwise it waits for logs in flight of a fork that is gone
\* or of the block itself.  The hour of the RPC cache it does not wait for.
BlockFinalized ==
    /\ Finalize
    /\ \/ SlowRetriever
       \/ \A e \in retriever.events :
            IsCanonical(e) /\ (e.status = "L2" => e.block # finalized + 1)
    /\ UNCHANGED <<storeVars, retriever, auditor, processor, failures, history>>

\* An entry of the RPC cache reaches its time to live.
CacheExpires ==
    /\ \E c \in rpcCache : rpcCache' = rpcCache \ {c}
    /\ UNCHANGED <<chainVars, docs, activities, lastRetrieved, lastAudited,
                   currentBlock, lastEmitted, retriever, auditor, processor,
                   failures, history>>

\* The final blocks of which logs were read with the status of a cached block.
Misread(logs) == {e.block : e \in {x \in logs : x.status = "L2" /\ x.block <= finalized}}

Retrieve ==
    /\ RetrieverStep
    /\ retrieveStart' = IF lastRetrieved = Unset THEN lastRetrieved' ELSE retrieveStart
    /\ misread' = IF retriever.pc = "pull" THEN misread \cup Misread(retriever'.events)
                  ELSE misread
    /\ UNCHANGED <<auditor, processor, failures, handled, auditStart>>

Audit ==
    /\ AuditorStep
    /\ auditStart' = IF lastAudited = Unset THEN lastAudited' ELSE auditStart
    /\ misread' = IF auditor.pc = "compare"
                    THEN misread \cup Misread(Logs(auditor.from, BatchEnd, rpcCache))
                  ELSE misread
    /\ UNCHANGED <<retriever, processor, failures, handled, retrieveStart>>

Process ==
    /\ ProcessorStep
    /\ handled' = handled \cup activities'
    /\ UNCHANGED <<retriever, auditor, failures, auditStart, retrieveStart, misread>>

Fail ==
    /\ failures < MaxFailures
    /\ failures' = failures + 1
    /\ \/ RetrieverFail /\ UNCHANGED <<auditor, processor>>
       \/ AuditorFail /\ UNCHANGED <<retriever, processor>>
       \/ ProcessorFail /\ UNCHANGED <<retriever, auditor>>
    /\ UNCHANGED history

Next == ChainGrows \/ BlockFinalized \/ CacheExpires \/ Retrieve \/ Audit \/ Process \/ Fail

Spec == Init /\ [][Next]_vars

\* The workers loop or are rescheduled, so a step that stays possible is taken;
\* every block becomes final in the end.  The chain need not grow.
Fairness ==
    /\ WF_vars(BlockFinalized)
    /\ WF_vars(Retrieve)
    /\ WF_vars(Audit)
    /\ WF_vars(Process)

FairSpec == Spec /\ Fairness

-----------------------------------------------------------------------------

Canonical(b) == {[tx |-> t, block |-> b, fork |-> chain[b].fork] : t \in chain[b].txs}

Identity(d) == [tx |-> d.tx, block |-> d.block, fork |-> d.fork]

StoredIn(b) == {d \in Live : d.block = b}

\* The blocks the retriever has passed since it first started.
Retrieved == Larger(Origin, retrieveStart + 1)..lastRetrieved

\* The checkpoint of the retriever (runner, setLastRetrievedBlock) never runs
\* ahead of the events: as long as the chain did not fork, each log of a block
\* it has passed is stored, whatever failed on the way.  Only an audit that has
\* yet to pass the block may have marked it removed.
RetrievedComplete ==
    forks = 0 =>
      \A b \in Retrieved : \A e \in Canonical(b) :
        \E d \in docs : Identity(d) = e /\ (d.removed => lastAudited < b)

\* The blocks the auditor has passed since it first started.
Audited == Larger(Origin, auditStart + 1)..lastAudited

\* Every block the auditor has passed (auditOnce) holds exactly the canonical
\* logs, each once and under the hash of its block: what a fork left behind is
\* gone and what the retriever missed is there, whatever the retriever and the
\* auditor itself write later.
AuditedCanonical ==
    \A b \in Audited :
      /\ {Identity(d) : d \in StoredIn(b)} = Canonical(b)
      /\ \A d, e \in StoredIn(b) : d.tx = e.tx => d = e

\* Until the chain forks or an audit sets in, events are handled for the first
\* time in chain order, whatever was retrieved meanwhile: getNonProcessed sorts
\* what is stored, and updateOrCreateMany is to create events "from oldest to
\* newest", which its bulk write keeps for Ethereum.
FirstHandledInOrder ==
    [][forks = 0 /\ lastAudited = Unset =>
         \A t \in handled' \ handled, u \in handled :
           \A b, c \in DOMAIN chain :
             t \in chain[b].txs /\ u \in chain[c].txs => c < b \/ (c = b /\ u < t)]_vars

Settled ==
    /\ finalized = HeadBlock
    /\ lastAudited = HeadBlock
    /\ retriever.pc = "idle" /\ lastRetrieved >= HeadBlock
    /\ processor.batch = {}
    /\ NonProcessed = {}

\* The audits let no event be missed (README.md, "in order to catch missed
\* events or reorgs"): when every block is final and audited and no event is
\* left to process, each canonical event has its Activity.
NoMissedEvent == Settled => Included(chain) \subseteq activities

\* Audited blocks carry the status they have on the chain: the metadata of a
\* block that became ACCEPTED_ON_L1 is refreshed (refreshMetadataBlocks).
AuditedAccepted ==
    Source = "Starknet" =>
      \A b \in Audited : \A d \in StoredIn(b) : d.status = "L1"

\* That cache is the only way a stale status gets past the audit: a block the
\* auditor has passed is stored as accepted on L1 for ever, whatever was read of
\* it earlier, unless the RPC cache answered for it after it had become final
\* (_getBlockWithTxHashes, cacheEnabled).
AcceptedUnlessMisread ==
    Source = "Starknet" =>
      \A b \in Audited \ misread : \A d \in StoredIn(b) : d.status = "L1"

\* The pipeline comes to rest with every block final, retrieved and audited and
\* every stored event processed, however often it was reset.
EventuallySettled == <>[](Settled \/ HeadBlock < Origin)

=============================================================================
