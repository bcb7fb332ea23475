--------------------------- MODULE EventProcessor ----------------------------
(***************************************************************************)
(* The event processor worker (lib/events/processor/EventProcessor.js and  *)
(* handlers/BaseHandler.js): one sequential loop that fetches a batch of   *)
(* unprocessed events, runs the handler of each and stamps it, and         *)
(* announces the current Starknet block once nothing is left.  A handler   *)
(* is reduced to the Activity document it finds or creates.                *)
(***************************************************************************)
EXTENDS EventStore

CONSTANT BatchSize      \* batchSize of the processor

ASSUME ProcessorAssumption == BatchSize \in Nat \ {0}

VARIABLE processor

\* A document of the batch, with the fields it had when it was fetched.
Snapshot == [tx : Tx, n : 1..MaxVersions, block : Heights]

ProcessorTypeOK ==
    processor \in [pc : {"idle", "handle", "finalize", "check", "emit"},
                   batch : SUBSET Snapshot]

ProcessorIdle == [pc |-> "idle", batch |-> {}]

ProcessorInit == processor = ProcessorIdle

SnapshotOf(d) == [tx |-> d.tx, n |-> d.n, block |-> d.block]

\* The pc of the loop once only the documents of rest are left in the batch.
Continue(rest) == IF rest = {} THEN "check" ELSE "handle"

\* getNonProcessed({ limit: batchSize })
ProcessorFetch ==
    /\ processor.pc = "idle"
    /\ \E batch \in FirstBatches(NonProcessed, BatchSize) :
         processor' = [pc |-> Continue(batch),
                       batch |-> {SnapshotOf(d) : d \in batch}]
    /\ UNCHANGED <<chainVars, storeVars>>

\* The document eachSeries is at: the first left, in the order of the fetch.
Current == {s \in processor.batch : \A r \in processor.batch : ~Before(r, s)}

\* processEvent: findOrCreateOne finds or creates the Activity of the log.
ProcessorHandle ==
    /\ processor.pc = "handle"
    /\ \E s \in Current :
         /\ activities' = activities \cup {s.tx}
         /\ processor' = [processor EXCEPT !.pc = "finalize"]
    /\ UNCHANGED <<chainVars, docs, lastRetrieved, lastAudited, currentBlock,
                   lastEmitted, rpcCache>>

\* save() writes lastProcessed alone: whatever was written to the document
\* since it was fetched is neither checked nor lost.
Stamped(s) ==
    {IF d.tx = s.tx /\ d.n = s.n THEN [d EXCEPT !.done = TRUE] ELSE d : d \in docs}

ProcessorFinalize ==
    /\ processor.pc = "finalize"
    /\ \E s \in Current :
         LET rest == processor.batch \ {s} IN
         /\ docs' = Stamped(s)
         /\ processor' = [pc |-> Continue(rest), batch |-> rest]
    /\ UNCHANGED <<chainVars, activities, lastRetrieved, lastAudited,
                   currentBlock, lastEmitted, rpcCache>>

\* emitCachedStarknetBlockNumberIfCaughtUp looks for a remaining event...
ProcessorCheck ==
    /\ processor.pc = "check"
    /\ processor' = [processor EXCEPT !.pc = IF NonProcessed = {} THEN "emit" ELSE "idle"]
    /\ UNCHANGED <<chainVars, storeVars>>

\* ...and emitCachedStarknetBlockNumber then reads the cached head, broadcasts
\* it unless it is the last one announced, and remembers it.
Announces == Source = "Starknet" /\ currentBlock # Unset /\ currentBlock # lastEmitted

ProcessorEmit ==
    /\ processor.pc = "emit"
    /\ lastEmitted' = IF Announces THEN currentBlock ELSE lastEmitted
    /\ processor' = ProcessorIdle
    /\ UNCHANGED <<chainVars, docs, activities, lastRetrieved, lastAudited,
                   currentBlock, rpcCache>>

\* A handler that throws, or a crash, ends the process; it is restarted.
ProcessorFail ==
    /\ processor.pc # "idle"
    /\ processor' = ProcessorIdle
    /\ UNCHANGED <<chainVars, storeVars>>

ProcessorStep ==
    \/ ProcessorFetch
    \/ ProcessorHandle
    \/ ProcessorFinalize
    \/ ProcessorCheck
    \/ ProcessorEmit

=============================================================================
