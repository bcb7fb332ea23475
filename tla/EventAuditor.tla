---------------------------- MODULE EventAuditor -----------------------------
(***************************************************************************)
(* The auditor of one chain: lib/events/auditors/starknet.js and its       *)
(* Ethereum twin over Base.js.  auditOnce() compares the finalized blocks  *)
(* it has not audited yet with the events collection, repairs the blocks   *)
(* that differ and advances the audit checkpoint batch by batch.           *)
(***************************************************************************)
EXTENDS EventStore

CONSTANTS
    AuditLookback,  \* Starknet bootstrapLookbackBlocks, Ethereum finalityBlocks
    LegacyAccepted  \* ACCEPTED_L1_BLOCK, which an earlier release may have left

ASSUME AuditorAssumption == AuditLookback \in Nat /\ LegacyAccepted \in Checkpoint

VARIABLE auditor

AuditorPc == {"idle", "start", "compare", "remove", "purge", "upsert", "reset",
              "refresh", "advance"}

AuditorTypeOK ==
    auditor \in [pc : AuditorPc, from : Nat, target : Nat, changed : SUBSET Nat,
                 txs : SUBSET Tx, repair : SUBSET ChainEvent,
                 refresh : SUBSET ChainEvent]

AuditorIdle ==
    [pc |-> "idle", from |-> 0, target |-> 0, changed |-> {}, txs |-> {},
     repair |-> {}, refresh |-> {}]

AuditorInit == auditor = AuditorIdle

BatchEnd == Smaller(auditor.target, auditor.from + BlockBatch - 1)

\* The scheduled run reads the finalized frontier.
AuditorReadFrontier ==
    /\ auditor.pc = "idle"
    /\ auditor' = [AuditorIdle EXCEPT !.pc = "start", !.target = finalized]
    /\ UNCHANGED <<chainVars, storeVars>>

\* The checkpoint an auditor without one starts from.
StarknetBootstrap_Unbounded ==                      \* mutant: without Math.max
    LET hint == IF lastRetrieved # Unset THEN lastRetrieved ELSE auditor.target
    IN Smaller(auditor.target, hint) - AuditLookback
StarknetBootstrap ==
    LET hint == IF LegacyAccepted # Unset THEN LegacyAccepted
                ELSE IF lastRetrieved # Unset THEN lastRetrieved
                ELSE IF LatestEventBlock # Unset THEN LatestEventBlock
                ELSE auditor.target
    IN Larger(Origin - 1, Smaller(auditor.target, hint) - AuditLookback)

EthereumBootstrap ==
    LET base == Larger(Origin - 1, Larger(lastRetrieved, LatestEventBlock))
    IN Larger(Origin - 1, base - AuditLookback)

\* getBootstrapCheckpoint, then either the first batch or the early return.  A
\* Starknet auditor that has just bootstrapped moves the checkpoint to the
\* frontier before it returns.
AuditorStart ==
    LET checkpoint == IF lastAudited # Unset THEN lastAudited
                      ELSE IF Source = "Starknet" THEN StarknetBootstrap
                      ELSE EthereumBootstrap
        start == Larger(Origin, checkpoint + 1)
    IN
    /\ auditor.pc = "start"
    /\ IF start > auditor.target
         THEN /\ lastAudited' = IF Source = "Starknet" /\ lastAudited = Unset
                                  THEN auditor.target ELSE checkpoint
              /\ auditor' = AuditorIdle
         ELSE /\ lastAudited' = checkpoint
              /\ auditor' = [auditor EXCEPT !.pc = "compare", !.from = start]
    /\ UNCHANGED <<chainVars, docs, activities, lastRetrieved, currentBlock,
                   lastEmitted, rpcCache>>

\* compareBlockEvents: as many stored events as logs, each log stored under
\* the hash of its block.  chainEvents and storedEvents are those of one block.
IdentityChanged_KeyOnly(chainEvents, storedEvents) ==       \* mutant: blockHash not compared
    \/ Cardinality(chainEvents) # Cardinality(storedEvents)
    \/ \E e \in chainEvents : \A d \in storedEvents : d.tx # e.tx
IdentityChanged(chainEvents, storedEvents) ==
    \/ Cardinality(chainEvents) # Cardinality(storedEvents)
    \/ \E e \in chainEvents : \A d \in storedEvents : d.tx # e.tx \/ d.fork # e.fork

\* metadataKeys ['status', 'timestamp'], of the Starknet auditor only.
MetadataChanged_Never(chainEvents, storedEvents) == FALSE   \* mutant: no metadataKeys
MetadataChanged(chainEvents, storedEvents) ==
    /\ Source = "Starknet"
    /\ \E e \in chainEvents, d \in storedEvents : d.tx = e.tx /\ d.status # e.status

InBlock(S, b) == {x \in S : x.block = b}

\* The logs and the stored events of the batch are read and compared.
AuditorCompare ==
    LET blocks == auditor.from..BatchEnd
        logs == Logs(auditor.from, BatchEnd, rpcCache)
        changed == {b \in blocks : IdentityChanged(InBlock(logs, b), InBlock(Live, b))}
        stale == {b \in blocks \ changed :
                    MetadataChanged(InBlock(logs, b), InBlock(Live, b))}
    IN
    /\ auditor.pc = "compare"
    /\ auditor' = [auditor EXCEPT
                     !.pc = IF changed # {} THEN "remove"
                            ELSE IF stale # {} THEN "refresh" ELSE "advance",
                     !.changed = changed,
                     !.txs = {d.tx : d \in {x \in Live : x.block \in changed}},
                     !.repair = {e \in logs : e.block \in changed},
                     !.refresh = {e \in logs : e.block \in stale}]
    /\ UNCHANGED <<chainVars, storeVars>>

\* repairChangedBlocks is four writes, each awaited.
AuditorRemove ==
    /\ auditor.pc = "remove"
    /\ UpdateManyAsRemoved(auditor.changed)
    /\ auditor' = [auditor EXCEPT !.pc = "purge"]
    /\ UNCHANGED <<chainVars, activities, lastRetrieved, lastAudited,
                   currentBlock, lastEmitted, rpcCache>>

AuditorPurge ==
    /\ auditor.pc = "purge"
    /\ PurgeByTransactionHashes(auditor.txs)
    /\ auditor' = [auditor EXCEPT !.pc = IF auditor.repair = {} THEN "reset" ELSE "upsert"]
    /\ UNCHANGED <<chainVars, docs, lastRetrieved, lastAudited, currentBlock,
                   lastEmitted, rpcCache>>

AuditorUpsert ==
    /\ auditor.pc = "upsert"
    /\ \E e \in auditor.repair :
         LET rest == auditor.repair \ {e} IN
         /\ MayWrite(e, auditor.repair)
         /\ UpdateOrCreate(e)
         /\ auditor' = [auditor EXCEPT
                          !.repair = rest,
                          !.pc = IF rest = {} THEN "reset" ELSE "upsert"]
    /\ UNCHANGED <<chainVars, activities, lastRetrieved, lastAudited,
                   currentBlock, lastEmitted, rpcCache>>

AuditorReset ==
    /\ auditor.pc = "reset"
    /\ \E first \in auditor.changed :
         /\ \A b \in auditor.changed : first <= b
         /\ ResetLastProcessedFromBlock(first)
    /\ auditor' = [auditor EXCEPT
                     !.pc = IF auditor.refresh = {} THEN "advance" ELSE "refresh"]
    /\ UNCHANGED <<chainVars, activities, lastRetrieved, lastAudited,
                   currentBlock, lastEmitted, rpcCache>>

\* refreshMetadataBlocks
AuditorRefresh ==
    /\ auditor.pc = "refresh"
    /\ \E e \in auditor.refresh :
         LET rest == auditor.refresh \ {e} IN
         /\ UpdateOrCreate(e)
         /\ auditor' = [auditor EXCEPT
                          !.refresh = rest,
                          !.pc = IF rest = {} THEN "advance" ELSE "refresh"]
    /\ UNCHANGED <<chainVars, activities, lastRetrieved, lastAudited,
                   currentBlock, lastEmitted, rpcCache>>

AuditorAdvance ==
    /\ auditor.pc = "advance"
    /\ lastAudited' = BatchEnd
    /\ auditor' = IF BatchEnd = auditor.target THEN AuditorIdle
                  ELSE [AuditorIdle EXCEPT !.pc = "compare", !.from = BatchEnd + 1,
                                           !.target = auditor.target]
    /\ UNCHANGED <<chainVars, docs, activities, lastRetrieved, currentBlock,
                   lastEmitted, rpcCache>>

\* An error of any request or a crash ends the run; the next one starts over.
AuditorFail ==
    /\ auditor.pc # "idle"
    /\ auditor' = AuditorIdle
    /\ UNCHANGED <<chainVars, storeVars>>

AuditorStep ==
    \/ AuditorReadFrontier
    \/ AuditorStart
    \/ AuditorCompare
    \/ AuditorRemove
    \/ AuditorPurge
    \/ AuditorUpsert
    \/ AuditorReset
    \/ AuditorRefresh
    \/ AuditorAdvance

=============================================================================
