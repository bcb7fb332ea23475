-------------------------------- MODULE Chain --------------------------------
(***************************************************************************)
(* The blockchain the server indexes: Starknet or Ethereum.  It is not     *)
(* part of the repository; it is modelled from what the retrievers and     *)
(* auditors rely on.  A transaction emits one event here, a transaction    *)
(* number is also its index in its block, and a block number stands for    *)
(* the block's timestamp.                                                  *)
(***************************************************************************)
EXTENDS Integers, Sequences, FiniteSets

CONSTANTS
    Source,     \* "Starknet" or "Ethereum"
    Tx,         \* transactions the chain may include
    MaxBlock,   \* bound: height of the chain
    MaxForks,   \* bound: number of reorganisations
    MaxFinal    \* bound: height up to which blocks become final

ASSUME ChainAssumption ==
    /\ Source \in {"Starknet", "Ethereum"}
    /\ Tx \subseteq Nat
    /\ MaxBlock \in Nat
    /\ MaxForks \in Nat
    /\ MaxFinal \in Nat

VARIABLES
    chain,      \* the blocks, from height 1
    finalized,  \* the deepest height no reorganisation can reach
    forks       \* reorganisations so far

chainVars == <<chain, finalized, forks>>

Heights == 1..MaxBlock
Forks == 0..MaxForks

\* The fork number identifies the hash of a block among those of its height.
Block == [fork : Forks, txs : SUBSET Tx]

\* A log as the provider returns it, with the metadata of its block.
ChainEvent == [tx : Tx, block : Heights, fork : Forks, status : {"L1", "L2"}]

ChainTypeOK ==
    /\ chain \in Seq(Block)
    /\ Len(chain) \in 0..MaxBlock
    /\ finalized \in 0..Len(chain)
    /\ forks \in Forks

ChainInit ==
    /\ chain = << >>
    /\ finalized = 0
    /\ forks = 0

HeadBlock == Len(chain)

Included(blocks) == UNION {blocks[b].txs : b \in DOMAIN blocks}

\* A new block is appended to the canonical chain.
Mine ==
    /\ HeadBlock < MaxBlock
    /\ \E txs \in SUBSET (Tx \ Included(chain)) :
         chain' = Append(chain, [fork |-> forks, txs |-> txs])
    /\ UNCHANGED <<finalized, forks>>

\* The blocks above keep are replaced by the first block of another fork.
Reorg ==
    /\ forks < MaxForks
    /\ \E keep \in finalized..(HeadBlock - 1) :
         LET prefix == SubSeq(chain, 1, keep) IN
         \E txs \in SUBSET (Tx \ Included(prefix)) :
           chain' = Append(prefix, [fork |-> forks + 1, txs |-> txs])
    /\ forks' = forks + 1
    /\ UNCHANGED finalized

\* The next block becomes final: accepted on L1, or FinalityBlocks deep.
Finalize ==
    /\ finalized < HeadBlock
    /\ finalized < MaxFinal
    /\ finalized' = finalized + 1
    /\ UNCHANGED <<chain, forks>>

\* Whether the block an event was read from is still canonical.
IsCanonical(e) ==
    /\ e.block \in DOMAIN chain
    /\ chain[e.block].fork = e.fork

\* A Starknet block is ACCEPTED_ON_L2 until it is final; one of the set cached
\* is served with the status it was cached with.
Status(b, cached) ==
    IF Source = "Starknet" /\ (b > finalized \/ <<b, chain[b].fork>> \in cached)
      THEN "L2" ELSE "L1"

\* The logs of the blocks from..to.
Logs(from, to, cached) ==
    UNION { {[tx |-> t, block |-> b, fork |-> chain[b].fork, status |-> Status(b, cached)] :
               t \in chain[b].txs} : b \in (from..to) \cap DOMAIN chain }

=============================================================================
