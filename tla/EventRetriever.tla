--------------------------- MODULE EventRetriever ----------------------------
(***************************************************************************)
(* The retriever worker of one chain: lib/events/retrievers/starknet/      *)
(* retriever.js and its Ethereum twin.  One iteration of runner() reads    *)
(* the checkpoint and the head, pulls the logs of a block range, writes    *)
(* them to the events collection and advances the checkpoint.              *)
(***************************************************************************)
EXTENDS EventStore

CONSTANT RetrieverLookback      \* bootstrapLookbackBlocks

ASSUME RetrieverAssumption == RetrieverLookback \in Nat

VARIABLE retriever

RetrieverTypeOK ==
    retriever \in [pc : {"idle", "pull", "save", "advance"},
                   from : Nat, to : Nat, events : SUBSET ChainEvent]

RetrieverIdle == [pc |-> "idle", from |-> 0, to |-> 0, events |-> {}]

RetrieverInit == retriever = RetrieverIdle

\* ensureBootstrapCheckpoint: the first known of the audited block, the head
\* less the lookback, and the newest event.  The head request may fail.
RetrieverBootstrap ==
    /\ retriever.pc = "idle"
    /\ lastRetrieved = Unset
    /\ \E headKnown \in BOOLEAN :
         lastRetrieved' =
           IF lastAudited # Unset THEN lastAudited
           ELSE IF headKnown THEN Larger(Origin - 1, HeadBlock - RetrieverLookback)
           ELSE IF LatestEventBlock # Unset THEN LatestEventBlock
           ELSE Origin - 1
    /\ UNCHANGED <<chainVars, docs, activities, lastAudited, currentBlock,
                   lastEmitted, rpcCache, retriever>>

\* The head is read and cached, and the range of this iteration chosen.  The
\* Ethereum retriever takes a head of zero for a failed request.
RetrieverReadHead_OffByOne ==                       \* mutant: fromBlock < toBlock
    LET from == Larger(Origin, lastRetrieved + 1) IN
    /\ retriever.pc = "idle"
    /\ lastRetrieved # Unset
    /\ currentBlock' = HeadBlock
    /\ retriever' = IF from < HeadBlock
                      THEN [RetrieverIdle EXCEPT !.pc = "pull", !.from = from, !.to = from]
                      ELSE retriever
    /\ UNCHANGED <<chainVars, docs, activities, lastRetrieved, lastAudited,
                   lastEmitted, rpcCache>>
RetrieverReadHead ==
    LET from == Larger(Origin, lastRetrieved + 1)
        to == Smaller(HeadBlock, from + BlockBatch - 1)
    IN
    /\ retriever.pc = "idle"
    /\ lastRetrieved # Unset
    /\ Source = "Ethereum" => HeadBlock # 0
    /\ currentBlock' = HeadBlock
    /\ retriever' = IF from <= HeadBlock
                      THEN [RetrieverIdle EXCEPT !.pc = "pull", !.from = from, !.to = to]
                      ELSE retriever
    /\ UNCHANGED <<chainVars, docs, activities, lastRetrieved, lastAudited,
                   lastEmitted, rpcCache>>

\* A block read before its acceptance on L1 stays in the RPC cache with that
\* status.
CachedBy(events) ==
    rpcCache \cup {<<e.block, e.fork>> : e \in {x \in events : x.status = "L2"}}

\* pullAndFormatEvents
RetrieverPull ==
    LET events == Logs(retriever.from, retriever.to, rpcCache) IN
    /\ retriever.pc = "pull"
    /\ retriever' = [retriever EXCEPT !.pc = IF events = {} THEN "advance" ELSE "save",
                                      !.events = events]
    /\ rpcCache' = CachedBy(events)
    /\ UNCHANGED <<chainVars, docs, activities, lastRetrieved, lastAudited,
                   currentBlock, lastEmitted>>

RetrieverSave ==
    /\ retriever.pc = "save"
    /\ \E e \in retriever.events :
         LET rest == retriever.events \ {e} IN
         /\ MayWrite(e, retriever.events)
         /\ UpdateOrCreate(e)
         /\ retriever' = [retriever EXCEPT
                            !.events = rest,
                            !.pc = IF rest = {} THEN "advance" ELSE "save"]
    /\ UNCHANGED <<chainVars, activities, lastRetrieved, lastAudited,
                   currentBlock, lastEmitted, rpcCache>>

RetrieverAdvance_ToHead ==                          \* mutant: toBlock, not batchToBlock
    /\ retriever.pc = "advance"
    /\ lastRetrieved' = currentBlock
    /\ retriever' = RetrieverIdle
    /\ UNCHANGED <<chainVars, docs, activities, lastAudited, currentBlock,
                   lastEmitted, rpcCache>>
RetrieverAdvance ==
    /\ retriever.pc = "advance"
    /\ lastRetrieved' = retriever.to
    /\ retriever' = RetrieverIdle
    /\ UNCHANGED <<chainVars, docs, activities, lastAudited, currentBlock,
                   lastEmitted, rpcCache>>

\* An exception anywhere in the iteration, or a restart of the worker: what it
\* held in memory is gone.
RetrieverFail ==
    /\ retriever.pc # "idle"
    /\ retriever' = RetrieverIdle
    /\ UNCHANGED <<chainVars, storeVars>>

RetrieverStep ==
    \/ RetrieverBootstrap
    \/ RetrieverReadHead
    \/ RetrieverPull
    \/ RetrieverSave
    \/ RetrieverAdvance

=============================================================================
