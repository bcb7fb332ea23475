-------------------------- MODULE EventPipelineInv ---------------------------
(***************************************************************************)
(* The inductive invariants of the pipeline: why no later write of the     *)
(* retriever or of the auditor can spoil a block that was audited, nor     *)
(* leave it with a status it no longer has, why the checkpoint of the      *)
(* retriever never runs ahead of what is stored, and why events are        *)
(* handled in the order of the chain.                                      *)
(***************************************************************************)
EXTENDS EventPipeline

StoredTxs(b) == {d.tx : d \in StoredIn(b)}

\* Only canonical logs are stored in block b.
Sound(b) == \A d \in StoredIn(b) : d.fork = chain[b].fork /\ d.tx \in chain[b].txs

\* No transaction is in two blocks, and forks are numbered in order.
ChainInv ==
    /\ \A b, c \in DOMAIN chain : b # c => chain[b].txs \cap chain[c].txs = {}
    /\ \A b \in DOMAIN chain : chain[b].fork <= forks

\* An upsert finds at most one document.
StoreInv ==
    /\ IsFiniteSet(docs)
    /\ \A d, e \in docs :
         /\ IF Source = "Starknet" THEN d.tx = e.tx /\ ~d.removed /\ ~e.removed
                                   ELSE SameLog(d, e)
         => d = e

\* What e says of the final blocks is what they hold.
AgreesWithFinal(e) ==
    \A b \in 1..finalized :
      /\ e.tx \in chain[b].txs <=> e.block = b
      /\ e.block = b => e.fork = chain[b].fork

\* e was read from the chain as it is or was.
ReadFromChain(e) ==
    /\ e.fork <= forks
    /\ e.fork = forks => e.block <= HeadBlock
    /\ IsCanonical(e) => e.tx \in chain[e.block].txs

\* The logs the retriever holds do not contradict what has become final since.
RetrieverInv == \A e \in retriever.events : ReadFromChain(e) /\ AgreesWithFinal(e)

\* The auditor works on final blocks it has not passed yet...
Batch == auditor.from..BatchEnd

Comparing == auditor.pc \notin {"idle", "start"}

AuditorRange ==
    /\ auditor.pc # "idle" => auditor.target <= finalized
    /\ Comparing => /\ lastAudited # Unset
                    /\ auditor.from = Larger(Origin, lastAudited + 1)
                    /\ auditor.from <= auditor.target
    /\ auditor.pc \in {"idle", "start", "compare"} =>
         auditor.changed = {} /\ auditor.repair = {} /\ auditor.refresh = {}
    /\ auditor.changed \subseteq Batch
    /\ \A e \in auditor.repair \cup auditor.refresh :
         e.block \in Batch /\ AgreesWithFinal(e)
    /\ auditor.pc \in {"reset", "refresh", "advance"} => auditor.repair = {}

Pending(b) == {e.tx : e \in {x \in auditor.repair : x.block = b}}

\* ...and once it has compared them each log of theirs is stored or about to be,
\* and nothing else is stored in a block it has cleared or found unchanged.
AuditorRepairs ==
    Comparing /\ auditor.pc # "compare" =>
      \A b \in Batch :
        IF auditor.pc = "remove" /\ b \in auditor.changed
          THEN chain[b].txs \subseteq Pending(b)
          ELSE Sound(b) /\ chain[b].txs \subseteq StoredTxs(b) \cup Pending(b)

AuditedInv ==
    \A b \in Audited : b <= finalized /\ Sound(b) /\ chain[b].txs \subseteq StoredTxs(b)

AuditInv ==
    /\ TypeOK
    /\ ChainInv
    /\ StoreInv
    /\ RetrieverInv
    /\ AuditorRange
    /\ AuditorRepairs
    /\ AuditedInv

-----------------------------------------------------------------------------

\* What d, a log or a stored event, says of the status of its block is what a
\* final block has, or the cache answered for that block.
Accepted(d) == d.status = "L1" \/ d.block \in misread

\* Logs are held as accepted on L2 until their block is final.
StatusesRead == \A e \in retriever.events : e.block > finalized \/ Accepted(e)

\* The auditor holds logs accepted on L1, and once it has compared a block each
\* stored event of it is too, or is about to be refreshed.
StatusesRepaired ==
    /\ \A e \in auditor.repair \cup auditor.refresh : Accepted(e)
    /\ auditor.pc = "advance" => auditor.refresh = {}
    /\ Comparing /\ auditor.pc # "compare" =>
         \A b \in Batch : \A d \in StoredIn(b) :
           \/ auditor.pc = "remove" /\ b \in auditor.changed
           \/ Accepted(d)
           \/ \E e \in auditor.refresh : e.tx = d.tx

StatusInv ==
    Source = "Starknet" => StatusesRead /\ StatusesRepaired /\ AcceptedUnlessMisread

\* Log t of block b is stored, removed or not.
Recorded(t, b) == \E d \in docs : d.tx = t /\ d.block = b /\ d.fork = 0

\* An audit removes nothing at or below the checkpoint it first started from.
RemovedInv ==
    /\ lastAudited = Unset => auditStart = Unset
    /\ auditStart <= lastAudited
    /\ \A d \in docs : d.removed => lastAudited # Unset /\ auditStart < d.block

\* The retriever works on the blocks after its checkpoint, and each log of them
\* is held or stored once they were read.
RetrieverRange ==
    retriever.pc # "idle" =>
      /\ lastRetrieved # Unset
      /\ retriever.from = Larger(Origin, lastRetrieved + 1)
      /\ retriever.to <= HeadBlock
      /\ retriever.pc = "advance" => retriever.events = {}
      /\ retriever.pc # "pull" =>
           \A b \in retriever.from..retriever.to : \A t \in chain[b].txs :
             Recorded(t, b) \/ \E e \in retriever.events : e.tx = t /\ e.block = b

RetrievedInv ==
    /\ RemovedInv
    /\ forks = 0 =>
         /\ RetrieverRange
         /\ \A b \in Retrieved : b <= HeadBlock /\ \A t \in chain[b].txs : Recorded(t, b)

-----------------------------------------------------------------------------

\* Log t of block b, one the retriever has to store since it first started.
Due(t, b) ==
    b \in DOMAIN chain /\ t \in chain[b].txs /\ b >= Larger(Origin, retrieveStart + 1)

Earlier(t, b, u, c) == b < c \/ (b = c /\ t < u)

HasDoc(t, b) == \E d \in docs : d.tx = t /\ d.block = b

\* A log is stored after all those before it, and stamped once it was handled.
StoredInOrder ==
    /\ \A d \in docs : ~d.removed /\ Due(d.tx, d.block) /\ (d.done => d.tx \in handled)
    /\ \A b \in Heights, t \in Tx : Due(t, b) =>
         /\ b <= lastRetrieved => HasDoc(t, b)
         /\ \A d \in docs : Earlier(t, b, d.tx, d.block) => HasDoc(t, b)

\* The retriever holds the logs of the next blocks that are not stored yet.
RetrievingInOrder ==
    /\ lastRetrieved = Unset =>
         retriever.pc = "idle" /\ docs = {} /\ handled = {} /\ processor.batch = {}
    /\ retrieveStart <= lastRetrieved
    /\ lastRetrieved = retrieveStart \/ lastRetrieved <= HeadBlock
    /\ retriever.pc # "idle" =>
         /\ retriever.from = Larger(Origin, lastRetrieved + 1)
         /\ retriever.from <= retriever.to /\ retriever.to <= HeadBlock
    /\ retriever.pc = "advance" => retriever.events = {}
    /\ retriever.pc \in {"save", "advance"} =>
         /\ \A e \in retriever.events :
              Due(e.tx, e.block) /\ e.block \in retriever.from..retriever.to
         /\ \A b \in retriever.from..retriever.to : \A t \in Tx :
              Due(t, b) =>
                HasDoc(t, b) \/ \E e \in retriever.events : e.tx = t /\ e.block = b

\* Whatever is before a log that was handled was handled too; whatever is before
\* one of the batch was handled or is in the batch.
HandlingInOrder ==
    /\ activities \subseteq handled
    /\ \A u \in handled : \E c \in Heights : Due(u, c)
    /\ \A u \in handled : \A b, c \in Heights : \A t \in Tx :
         Due(u, c) /\ Due(t, b) /\ Earlier(t, b, u, c) => t \in handled
    /\ \A s \in processor.batch :
         /\ Due(s.tx, s.block)
         /\ \A b \in Heights, t \in Tx :
              Due(t, b) /\ Earlier(t, b, s.tx, s.block) =>
                t \in handled \/ \E r \in processor.batch : r.tx = t /\ r.block = b
    /\ processor.pc = "finalize" => \A s \in Current : s.tx \in handled

Untouched == Source = "Ethereum" /\ forks = 0 /\ lastAudited = Unset

OrderInv ==
    /\ Comparing => lastAudited # Unset
    /\ Untouched =>
         /\ \A b, c \in DOMAIN chain : b # c => chain[b].txs \cap chain[c].txs = {}
         /\ StoredInOrder
         /\ RetrievingInOrder
         /\ HandlingInOrder

PipelineInv == AuditInv /\ StatusInv /\ RetrievedInv /\ OrderInv

=============================================================================
