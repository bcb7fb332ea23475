------------------------- MODULE EventPipelineProofs -------------------------
(***************************************************************************)
(* Proofs about EventPipeline, for every value of its constants.           *)
(***************************************************************************)
EXTENDS EventPipeline, NatLemmas, SequenceTheorems

-----------------------------------------------------------------------------
(* Lemmas about the operators the workers are built from.                  *)

\* getLatestEventByBlock returns the block of an event, or nothing.
LEMMA LatestEventBlockType ==
    ASSUME StoreTypeOK
    PROVE  LatestEventBlock \in Checkpoint
<1>1. EventBlocks \in SUBSET (0..MaxBlock)
  BY DEF EventBlocks, StoreTypeOK, Live, Doc, Heights
<1>2. MaxBlock \in Nat
  BY ChainAssumption
<1>3. CASE EventBlocks = {}
  BY <1>3 DEF LatestEventBlock, Checkpoint, Unset
<1>4. CASE EventBlocks # {}
  <2>1. \E b \in EventBlocks : \A c \in EventBlocks : c <= b
    BY <1>1, <1>2, <1>4, GreatestElement
  <2>2. LatestEventBlock \in EventBlocks
    BY <1>4, <2>1 DEF LatestEventBlock
  <2> QED
    BY <1>1, <2>2 DEF Checkpoint
<1> QED
  BY <1>3, <1>4

\* A provider returns logs of blocks that exist, of transactions in them.
LEMMA LogsType ==
    ASSUME ChainTypeOK, NEW from, NEW to, NEW cached
    PROVE  Logs(from, to, cached) \in SUBSET ChainEvent
<1> SUFFICES ASSUME NEW b \in (from..to) \cap DOMAIN chain,
                    NEW t \in chain[b].txs
             PROVE  [tx |-> t, block |-> b, fork |-> chain[b].fork,
                     status |-> Status(b, cached)] \in ChainEvent
  BY DEF Logs
<1>1. b \in Heights /\ chain[b] \in Block
  BY ChainAssumption DEF ChainTypeOK, Heights
<1>2. Status(b, cached) \in {"L1", "L2"}
  BY DEF Status
<1>3. t \in Tx /\ chain[b].fork \in Forks
  BY <1>1 DEF Block
<1> QED
  BY <1>1, <1>2, <1>3 DEF ChainEvent

\* The upsert keeps the collection a set of well-formed documents.
LEMMA UpdateOrCreateType ==
    ASSUME docs \subseteq Doc, NEW e \in ChainEvent, UpdateOrCreate(e)
    PROVE  docs' \subseteq Doc
<1>1. e.tx \in Tx /\ e.block \in Heights /\ e.fork \in Forks /\ e.status \in {"L1", "L2"}
  BY DEF ChainEvent
<1>2. ASSUME FreeVersions(e) # {}
      PROVE  NewDoc(e) \in Doc
  <2> DEFINE n == CHOOSE k \in FreeVersions(e) : TRUE
  <2>1. n \in 1..MaxVersions
    BY <1>2 DEF FreeVersions
  <2>2. NewDoc(e) = [tx |-> e.tx, n |-> n, block |-> e.block, fork |-> e.fork,
                     status |-> e.status, removed |-> FALSE, done |-> FALSE]
    BY DEF NewDoc
  <2> HIDE DEF n
  <2> QED
    BY <1>1, <2>1, <2>2 DEF Doc
<1>3. ASSUME NEW d \in docs
      PROVE  Refreshed(d, e) \in Doc
  BY <1>1 DEF Refreshed, Doc
<1> QED
  BY <1>2, <1>3 DEF UpdateOrCreate

\* A bulk write of the fields removed and lastProcessed.
LEMMA RemoveType ==
    ASSUME docs \subseteq Doc, NEW blocks, UpdateManyAsRemoved(blocks)
    PROVE  docs' \subseteq Doc
<1>1. ASSUME NEW d \in docs
      PROVE  (IF d.block \in blocks /\ ~d.removed
                THEN [d EXCEPT !.removed = TRUE, !.done = FALSE] ELSE d) \in Doc
  BY DEF Doc
<1> QED
  BY <1>1 DEF UpdateManyAsRemoved

LEMMA ResetType ==
    ASSUME docs \subseteq Doc, NEW b, ResetLastProcessedFromBlock(b)
    PROVE  docs' \subseteq Doc
<1>1. ASSUME NEW d \in docs
      PROVE  (IF d.block >= b /\ ~d.removed
                THEN [d EXCEPT !.done = FALSE] ELSE d) \in Doc
  BY DEF Doc
<1> QED
  BY <1>1 DEF ResetLastProcessedFromBlock

-----------------------------------------------------------------------------
(* Type correctness, one lemma per worker and one step per action.         *)

LEMMA ChainGrowsType ==
    ASSUME ChainTypeOK, Mine \/ Reorg
    PROVE  ChainTypeOK'
<1> USE ChainAssumption
<1>1. chain \in Seq(Block) /\ Len(chain) \in 0..MaxBlock
  BY DEF ChainTypeOK
<1>2. CASE Mine
  <2>1. PICK txs \in SUBSET (Tx \ Included(chain)) :
          chain' = Append(chain, [fork |-> forks, txs |-> txs])
    BY <1>2 DEF Mine
  <2>2. [fork |-> forks, txs |-> txs] \in Block
    BY DEF ChainTypeOK, Block
  <2>3. chain' \in Seq(Block) /\ Len(chain') = Len(chain) + 1
    BY <1>1, <2>1, <2>2
  <2> QED
    BY <1>2, <2>3 DEF Mine, ChainTypeOK, HeadBlock
<1>3. CASE Reorg
  <2>1. PICK keep \in finalized..(HeadBlock - 1) :
          \E txs \in SUBSET (Tx \ Included(SubSeq(chain, 1, keep))) :
            chain' = Append(SubSeq(chain, 1, keep), [fork |-> forks + 1, txs |-> txs])
    BY <1>3 DEF Reorg
  <2>2. keep \in 0..(Len(chain) - 1)
    BY <1>1, <2>1 DEF ChainTypeOK, HeadBlock
  <2>3. SubSeq(chain, 1, keep) \in Seq(Block) /\ Len(SubSeq(chain, 1, keep)) = keep
    BY <1>1, <2>2
  <2>4. forks + 1 \in Forks
    BY <1>3 DEF Reorg, ChainTypeOK, Forks
  <2>5. PICK txs \in SUBSET (Tx \ Included(SubSeq(chain, 1, keep))) :
          chain' = Append(SubSeq(chain, 1, keep), [fork |-> forks + 1, txs |-> txs])
    BY <2>1
  <2>6. [fork |-> forks + 1, txs |-> txs] \in Block
    BY <2>4 DEF Block
  <2>7. chain' \in Seq(Block) /\ Len(chain') = keep + 1
    BY <2>3, <2>5, <2>6
  <2> QED
    BY <1>1, <1>3, <2>1, <2>2, <2>4, <2>7 DEF Reorg, ChainTypeOK, HeadBlock
<1> QED
  BY <1>2, <1>3

\* The retriever writes well-formed documents, checkpoints and caches.
LEMMA RetrieverType ==
    ASSUME ChainTypeOK, StoreTypeOK, RetrieverTypeOK, RetrieverStep
    PROVE  StoreTypeOK' /\ RetrieverTypeOK'
<1> USE StoreAssumption, RetrieverAssumption
<1>1. HeadBlock \in Nat
  BY DEF ChainTypeOK, HeadBlock
<1>2. CASE RetrieverBootstrap
  <2>1. lastRetrieved' \in Checkpoint
    BY <1>1, <1>2, LatestEventBlockType
    DEF RetrieverBootstrap, StoreTypeOK, Checkpoint, Unset, Larger
  <2> QED
    BY <1>2, <2>1 DEF RetrieverBootstrap, StoreTypeOK, RetrieverTypeOK
<1>3. CASE RetrieverReadHead
  <2> DEFINE from == Larger(Origin, lastRetrieved + 1)
             to == Smaller(HeadBlock, from + BlockBatch - 1)
  <2>1. from \in Nat /\ to \in Nat
    BY <1>1, <1>3 DEF RetrieverReadHead, StoreTypeOK, Checkpoint, Larger, Smaller
  <2>2. RetrieverIdle \in [pc : {"idle", "pull", "save", "advance"},
                           from : Nat, to : Nat, events : SUBSET ChainEvent]
    BY DEF RetrieverIdle
  <2>3. retriever' \in {retriever, [RetrieverIdle EXCEPT !.pc = "pull", !.from = from, !.to = to]}
    BY <1>3 DEF RetrieverReadHead
  <2> HIDE DEF from, to
  <2>4. RetrieverTypeOK'
    BY <2>1, <2>2, <2>3 DEF RetrieverTypeOK
  <2> QED
    BY <1>1, <1>3, <2>4 DEF RetrieverReadHead, StoreTypeOK, Checkpoint
<1>4. CASE RetrieverPull
  <2> DEFINE events == Logs(retriever.from, retriever.to, rpcCache)
  <2>1. events \in SUBSET ChainEvent
    BY LogsType
  <2>2. rpcCache' \subseteq Heights \X Forks
    <3>1. \A e \in events : <<e.block, e.fork>> \in Heights \X Forks
      BY <2>1 DEF ChainEvent
    <3> HIDE DEF events
    <3>2. rpcCache' = CachedBy(events)
      BY <1>4 DEF RetrieverPull, events
    <3> QED
      BY <3>1, <3>2 DEF CachedBy, StoreTypeOK
  <2>3. RetrieverTypeOK'
    <3>1. retriever' = [retriever EXCEPT !.pc = IF events = {} THEN "advance" ELSE "save",
                                         !.events = events]
      BY <1>4 DEF RetrieverPull
    <3> HIDE DEF events
    <3> QED
      BY <2>1, <3>1 DEF RetrieverTypeOK
  <2> QED
    BY <1>4, <2>2, <2>3 DEF RetrieverPull, StoreTypeOK
<1>5. CASE RetrieverSave
  <2>1. PICK e \in retriever.events :
          /\ UpdateOrCreate(e)
          /\ retriever' = [retriever EXCEPT
               !.events = retriever.events \ {e},
               !.pc = IF retriever.events \ {e} = {} THEN "advance" ELSE "save"]
    BY <1>5 DEF RetrieverSave
  <2>2. docs' \subseteq Doc
    BY <2>1, UpdateOrCreateType DEF StoreTypeOK, RetrieverTypeOK
  <2>3. RetrieverTypeOK'
    BY <2>1 DEF RetrieverTypeOK
  <2> QED
    BY <1>5, <2>2, <2>3 DEF RetrieverSave, StoreTypeOK
<1>6. CASE RetrieverAdvance
  BY <1>6 DEF RetrieverAdvance, RetrieverIdle, RetrieverTypeOK, StoreTypeOK, Checkpoint
<1> QED
  BY <1>2, <1>3, <1>4, <1>5, <1>6 DEF RetrieverStep

\* An audit without a checkpoint starts from a block.
LEMMA BootstrapType ==
    ASSUME StoreTypeOK, AuditorTypeOK
    PROVE  StarknetBootstrap \in Nat /\ EthereumBootstrap \in Nat
<1> USE StoreAssumption, AuditorAssumption
<1>1. LatestEventBlock \in Checkpoint /\ auditor.target \in Nat
  BY LatestEventBlockType DEF AuditorTypeOK
<1>2. StarknetBootstrap \in Nat
  BY <1>1 DEF StarknetBootstrap, StoreTypeOK, Checkpoint, Unset, Larger, Smaller
<1>3. EthereumBootstrap \in Nat
  BY <1>1 DEF EthereumBootstrap, StoreTypeOK, Checkpoint, Unset, Larger
<1> QED
  BY <1>2, <1>3

\* The auditor does too.
LEMMA AuditorType ==
    ASSUME ChainTypeOK, StoreTypeOK, AuditorTypeOK, AuditorStep
    PROVE  StoreTypeOK' /\ AuditorTypeOK'
<1> USE StoreAssumption, AuditorAssumption
<1> DEFINE Auditor == [pc : AuditorPc, from : Nat, target : Nat, changed : SUBSET Nat,
                       txs : SUBSET Tx, repair : SUBSET ChainEvent,
                       refresh : SUBSET ChainEvent]
<1>1. auditor \in Auditor /\ AuditorIdle \in Auditor
  BY DEF AuditorTypeOK, AuditorIdle, AuditorPc
<1>2. BatchEnd \in Nat
  BY <1>1 DEF BatchEnd, Smaller
<1>3. CASE AuditorReadFrontier
  <2>1. finalized \in Nat
    BY DEF ChainTypeOK
  <2> QED
    BY <1>1, <1>3, <2>1
    DEF AuditorReadFrontier, storeVars, StoreTypeOK, AuditorTypeOK, AuditorPc
<1>4. CASE AuditorStart
  <2> DEFINE checkpoint == IF lastAudited # Unset THEN lastAudited
                           ELSE IF Source = "Starknet" THEN StarknetBootstrap
                           ELSE EthereumBootstrap
             start == Larger(Origin, checkpoint + 1)
  <2>3. checkpoint \in Nat /\ start \in Nat
    BY BootstrapType DEF StoreTypeOK, Checkpoint, Larger
  <2> HIDE DEF checkpoint, start
  <2>4. lastAudited' \in {checkpoint, auditor.target}
    BY <1>4 DEF AuditorStart, checkpoint, start
  <2>5. auditor' \in {AuditorIdle, [auditor EXCEPT !.pc = "compare", !.from = start]}
    BY <1>4 DEF AuditorStart, checkpoint, start
  <2> QED
    BY <1>1, <1>4, <2>3, <2>4, <2>5
    DEF AuditorStart, StoreTypeOK, Checkpoint, AuditorTypeOK, AuditorPc
<1>5. CASE AuditorCompare
  <2> DEFINE blocks == auditor.from..BatchEnd
             logs == Logs(auditor.from, BatchEnd, rpcCache)
             changed == {b \in blocks : IdentityChanged(InBlock(logs, b), InBlock(Live, b))}
             stale == {b \in blocks \ changed :
                         MetadataChanged(InBlock(logs, b), InBlock(Live, b))}
             txs == {d.tx : d \in {x \in Live : x.block \in changed}}
             repair == {e \in logs : e.block \in changed}
             refresh == {e \in logs : e.block \in stale}
  <2>1. changed \in SUBSET Nat
    BY <1>1, <1>2
  <2>2. repair \in SUBSET ChainEvent /\ refresh \in SUBSET ChainEvent
    BY LogsType
  <2>3. txs \in SUBSET Tx
    BY DEF Live, StoreTypeOK, Doc
  <2>4. auditor' = [auditor EXCEPT
                      !.pc = IF changed # {} THEN "remove"
                             ELSE IF stale # {} THEN "refresh" ELSE "advance",
                      !.changed = changed,
                      !.txs = txs,
                      !.repair = repair,
                      !.refresh = refresh]
    BY <1>5 DEF AuditorCompare
  <2>5. StoreTypeOK'
    BY <1>5 DEF AuditorCompare, storeVars, StoreTypeOK
  <2> HIDE DEF changed, txs, repair, refresh, stale
  <2> QED
    BY <1>1, <2>1, <2>2, <2>3, <2>4, <2>5 DEF AuditorTypeOK, AuditorPc
<1>6. CASE AuditorRemove
  <2>1. docs' \subseteq Doc
    BY <1>6, RemoveType DEF AuditorRemove, StoreTypeOK
  <2> QED
    BY <1>1, <1>6, <2>1 DEF AuditorRemove, StoreTypeOK, AuditorTypeOK, AuditorPc
<1>7. CASE AuditorPurge
  BY <1>1, <1>7
  DEF AuditorPurge, PurgeByTransactionHashes, StoreTypeOK, AuditorTypeOK, AuditorPc
<1>8. CASE AuditorUpsert
  <2>1. PICK e \in auditor.repair :
          /\ UpdateOrCreate(e)
          /\ auditor' = [auditor EXCEPT
               !.repair = auditor.repair \ {e},
               !.pc = IF auditor.repair \ {e} = {} THEN "reset" ELSE "upsert"]
    BY <1>8 DEF AuditorUpsert
  <2>2. docs' \subseteq Doc
    BY <1>1, <2>1, UpdateOrCreateType DEF StoreTypeOK
  <2> QED
    BY <1>1, <1>8, <2>1, <2>2 DEF AuditorUpsert, StoreTypeOK, AuditorTypeOK, AuditorPc
<1>9. CASE AuditorReset
  <2>1. docs' \subseteq Doc
    BY <1>9, ResetType DEF AuditorReset, StoreTypeOK
  <2> QED
    BY <1>1, <1>9, <2>1 DEF AuditorReset, StoreTypeOK, AuditorTypeOK, AuditorPc
<1>10. CASE AuditorRefresh
  <2>1. PICK e \in auditor.refresh :
          /\ UpdateOrCreate(e)
          /\ auditor' = [auditor EXCEPT
               !.refresh = auditor.refresh \ {e},
               !.pc = IF auditor.refresh \ {e} = {} THEN "advance" ELSE "refresh"]
    BY <1>10 DEF AuditorRefresh
  <2>2. docs' \subseteq Doc
    BY <1>1, <2>1, UpdateOrCreateType DEF StoreTypeOK
  <2> QED
    BY <1>1, <1>10, <2>1, <2>2 DEF AuditorRefresh, StoreTypeOK, AuditorTypeOK, AuditorPc
<1>11. CASE AuditorAdvance
  <2>1. auditor' \in {AuditorIdle, [AuditorIdle EXCEPT !.pc = "compare", !.from = BatchEnd + 1,
                                                       !.target = auditor.target]}
    BY <1>11 DEF AuditorAdvance
  <2>2. BatchEnd + 1 \in Nat /\ auditor.target \in Nat
    BY <1>1, <1>2
  <2>3. AuditorTypeOK'
    BY <1>1, <2>1, <2>2 DEF AuditorTypeOK, AuditorPc
  <2> QED
    BY <1>2, <1>11, <2>3 DEF AuditorAdvance, StoreTypeOK, Checkpoint
<1> QED
  BY <1>3, <1>4, <1>5, <1>6, <1>7, <1>8, <1>9, <1>10, <1>11 DEF AuditorStep

\* The processor stamps documents and never creates one.
LEMMA ProcessorType ==
    ASSUME StoreTypeOK, ProcessorTypeOK, ProcessorStep
    PROVE  StoreTypeOK' /\ ProcessorTypeOK'
<1>1. CASE ProcessorFetch
  <2>1. PICK batch \in FirstBatches(NonProcessed, BatchSize) :
          processor' = [pc |-> Continue(batch), batch |-> {SnapshotOf(d) : d \in batch}]
    BY <1>1 DEF ProcessorFetch
  <2>2. batch \subseteq Doc
    BY <2>1 DEF FirstBatches, NonProcessed, StoreTypeOK
  <2>3. {SnapshotOf(d) : d \in batch} \subseteq Snapshot
    BY <2>2 DEF SnapshotOf, Snapshot, Doc
  <2>4. Continue(batch) \in {"handle", "check"}
    BY DEF Continue
  <2> QED
    BY <1>1, <2>1, <2>3, <2>4 DEF ProcessorFetch, storeVars, StoreTypeOK, ProcessorTypeOK
<1>2. CASE ProcessorHandle
  <2>1. PICK s \in Current :
          /\ activities' = activities \cup {s.tx}
          /\ processor' = [processor EXCEPT !.pc = "finalize"]
    BY <1>2 DEF ProcessorHandle
  <2>2. s.tx \in Tx
    BY <2>1 DEF Current, ProcessorTypeOK, Snapshot
  <2> QED
    BY <1>2, <2>1, <2>2 DEF ProcessorHandle, StoreTypeOK, ProcessorTypeOK
<1>3. CASE ProcessorFinalize
  <2>1. PICK s \in Current :
          /\ docs' = Stamped(s)
          /\ processor' = [pc |-> Continue(processor.batch \ {s}),
                           batch |-> processor.batch \ {s}]
    BY <1>3 DEF ProcessorFinalize
  <2>2. \A d \in docs : (IF d.tx = s.tx /\ d.n = s.n THEN [d EXCEPT !.done = TRUE] ELSE d)
                          \in Doc
    BY DEF StoreTypeOK, Doc
  <2>3. docs' \subseteq Doc
    BY <2>1, <2>2 DEF Stamped
  <2>4. Continue(processor.batch \ {s}) \in {"handle", "check"}
    BY DEF Continue
  <2> QED
    BY <1>3, <2>1, <2>3, <2>4 DEF ProcessorFinalize, StoreTypeOK, ProcessorTypeOK
<1>4. CASE ProcessorCheck
  BY <1>4 DEF ProcessorCheck, storeVars, StoreTypeOK, ProcessorTypeOK
<1>5. CASE ProcessorEmit
  BY <1>5 DEF ProcessorEmit, ProcessorIdle, StoreTypeOK, ProcessorTypeOK
<1> QED
  BY <1>1, <1>2, <1>3, <1>4, <1>5 DEF ProcessorStep

LEMMA TypeInit == Init => TypeOK
BY ChainAssumption, PipelineAssumption
  DEF Init, ChainInit, StoreInit, RetrieverInit, RetrieverIdle, AuditorInit, AuditorIdle,
    ProcessorInit, ProcessorIdle, TypeOK, ChainTypeOK, StoreTypeOK, RetrieverTypeOK,
    AuditorTypeOK, AuditorPc, ProcessorTypeOK, Checkpoint, Unset, Forks

LEMMA TypeNext ==
    ASSUME TypeOK, [Next]_vars
    PROVE  TypeOK'
<1> USE DEF TypeOK, history
<1>1. CASE ChainGrows
  BY <1>1, ChainGrowsType DEF ChainGrows, storeVars, StoreTypeOK, RetrieverTypeOK,
     AuditorTypeOK, ProcessorTypeOK
<1>2. CASE BlockFinalized
  <2>1. ChainTypeOK'
    BY <1>2 DEF BlockFinalized, Finalize, ChainTypeOK, HeadBlock
  <2>2. StoreTypeOK'
    BY <1>2 DEF BlockFinalized, StoreTypeOK, storeVars
  <2> QED
    BY <1>2, <2>1, <2>2 DEF BlockFinalized, RetrieverTypeOK, AuditorTypeOK, ProcessorTypeOK
<1>3. CASE CacheExpires
  BY <1>3 DEF CacheExpires, chainVars, ChainTypeOK, StoreTypeOK, RetrieverTypeOK,
     AuditorTypeOK, ProcessorTypeOK
<1>4. CASE Retrieve
  <2>1. UNCHANGED chainVars
    BY <1>4 DEF Retrieve, RetrieverStep, RetrieverBootstrap, RetrieverReadHead,
       RetrieverPull, RetrieverSave, RetrieverAdvance
  <2>2. StoreTypeOK' /\ RetrieverTypeOK'
    BY <1>4, RetrieverType DEF Retrieve
  <2>3. retrieveStart' \in Checkpoint
    BY <1>4, <2>2 DEF Retrieve, StoreTypeOK
  <2>4. misread' \subseteq Heights
    BY <1>4, <2>2 DEF Retrieve, Misread, RetrieverTypeOK, ChainEvent
  <2> QED
    BY <1>4, <2>1, <2>2, <2>3, <2>4 DEF Retrieve, chainVars, ChainTypeOK, AuditorTypeOK,
       ProcessorTypeOK
<1>5. CASE Audit
  <2>1. UNCHANGED chainVars
    BY <1>5 DEF Audit, AuditorStep, AuditorReadFrontier, AuditorStart, AuditorCompare,
       AuditorRemove, AuditorPurge, AuditorUpsert, AuditorReset, AuditorRefresh,
       AuditorAdvance
  <2>2. StoreTypeOK' /\ AuditorTypeOK'
    BY <1>5, AuditorType DEF Audit
  <2>3. auditStart' \in Checkpoint
    BY <1>5, <2>2 DEF Audit, StoreTypeOK
  <2>4. misread' \subseteq Heights
    <3> DEFINE logs == Logs(auditor.from, BatchEnd, rpcCache)
    <3>1. logs \in SUBSET ChainEvent
      BY LogsType
    <3>2. misread' \subseteq misread \cup Misread(logs)
      BY <1>5 DEF Audit
    <3> HIDE DEF logs
    <3> QED
      BY <3>1, <3>2 DEF Misread, ChainEvent
  <2> QED
    BY <1>5, <2>1, <2>2, <2>3, <2>4 DEF Audit, chainVars, ChainTypeOK, RetrieverTypeOK,
       ProcessorTypeOK
<1>6. CASE Process
  <2>1. UNCHANGED chainVars
    BY <1>6 DEF Process, ProcessorStep, ProcessorFetch, ProcessorHandle,
       ProcessorFinalize, ProcessorCheck, ProcessorEmit
  <2>2. StoreTypeOK' /\ ProcessorTypeOK'
    BY <1>6, ProcessorType DEF Process
  <2>3. handled' \subseteq Tx
    BY <1>6, <2>2 DEF Process, StoreTypeOK
  <2> QED
    BY <1>6, <2>1, <2>2, <2>3 DEF Process, chainVars, ChainTypeOK, RetrieverTypeOK,
       AuditorTypeOK
<1>7. CASE Fail
  <2>1. UNCHANGED <<chainVars, storeVars, history>>
    BY <1>7 DEF Fail, RetrieverFail, AuditorFail, ProcessorFail
  <2>2. failures' \in 0..MaxFailures
    BY <1>7, PipelineAssumption DEF Fail
  <2>3. RetrieverTypeOK' /\ AuditorTypeOK' /\ ProcessorTypeOK'
    BY <1>7 DEF Fail, RetrieverFail, RetrieverIdle, RetrieverTypeOK, AuditorFail,
       AuditorIdle, AuditorTypeOK, AuditorPc, ProcessorFail, ProcessorIdle, ProcessorTypeOK
  <2> QED
    BY <2>1, <2>2, <2>3 DEF chainVars, storeVars, ChainTypeOK, StoreTypeOK
<1>8. CASE UNCHANGED vars
  BY <1>8 DEF vars, chainVars, storeVars, ChainTypeOK, StoreTypeOK, RetrieverTypeOK,
     AuditorTypeOK, ProcessorTypeOK
<1> QED
  BY <1>1, <1>2, <1>3, <1>4, <1>5, <1>6, <1>7, <1>8 DEF Next

\* Every reachable state of the pipeline is well typed: documents, checkpoints
\* and the workers' memory stay in the domains the code gives them.
THEOREM TypeCorrect == Spec => []TypeOK
<1>1. Init => TypeOK
  BY TypeInit
<1>2. TypeOK /\ [Next]_vars => TypeOK'
  BY TypeNext
<1> QED
  BY <1>1, <1>2, PTL DEF Spec

=============================================================================
