--------------------------- MODULE EventAuditProofs --------------------------
(***************************************************************************)
(* For every value of the constants, and as long as finality never         *)
(* overtakes logs the retriever holds: AuditInv, StatusInv and             *)
(* RetrievedInv are inductive, hence AuditedCanonical, RetrievedComplete   *)
(* and AcceptedUnlessMisread.  OrderInv is inductive without that          *)
(* assumption, hence FirstHandledInOrder.                                  *)
(***************************************************************************)
EXTENDS EventPipelineInv, EventPipelineProofs, FiniteSetTheorems

-----------------------------------------------------------------------------
(* What a write to the events collection leaves of a block.                *)

Clash(d, e) ==
    IF Source = "Starknet" THEN d.tx = e.tx /\ ~d.removed /\ ~e.removed ELSE SameLog(d, e)

\* The block is the same and nothing sound was lost from it.
Kept(b) ==
    /\ chain'[b] = chain[b]
    /\ Sound(b) => Sound(b)' /\ StoredTxs(b) \subseteq StoredTxs(b)'

\* An upsert replaces the document it matches, if any, by one of its log.
LEMMA UpsertForm ==
    ASSUME StoreTypeOK, StoreInv, NEW e \in ChainEvent, UpdateOrCreate(e)
    PROVE  \E new \in docs', old \in SUBSET docs :
             /\ docs' = (docs \ old) \cup {new}
             /\ IsFiniteSet(docs')
             /\ SameLog(new, e) /\ new.removed = FALSE /\ new.status = e.status
             /\ \A d \in old : d.tx = e.tx
             /\ \A d \in docs \ old : ~Clash(d, new)
<1> DEFINE found == {d \in docs : Matches(d, e)}
<1>1. CASE found = {} /\ docs' = docs \cup {NewDoc(e)}
  <2>1. SameLog(NewDoc(e), e) /\ NewDoc(e).removed = FALSE /\ NewDoc(e).status = e.status
    BY DEF NewDoc, SameLog
  <2>2. \A d \in docs : ~Clash(d, NewDoc(e))
    BY <1>1, <2>1 DEF Clash, Matches, StarknetMatches, EthereumMatches, SameLog
  <2>3. IsFiniteSet(docs')
    BY <1>1, FS_AddElement DEF StoreInv
  <2>4. docs' = (docs \ {}) \cup {NewDoc(e)}
    BY <1>1
  <2>5. NewDoc(e) \in docs' /\ {} \in SUBSET docs
    BY <1>1
  <2> WITNESS NewDoc(e) \in docs', {} \in SUBSET docs
  <2> QED
    BY <2>1, <2>2, <2>3, <2>4, <2>5
<1>2. ASSUME NEW d \in found, docs' = (docs \ {d}) \cup {Refreshed(d, e)}
      PROVE  /\ SameLog(Refreshed(d, e), e) /\ Refreshed(d, e).removed = FALSE
             /\ Refreshed(d, e).status = e.status
             /\ \A x \in docs \ {d} : ~Clash(x, Refreshed(d, e))
             /\ IsFiniteSet(docs')
  <2>1. d \in Doc /\ Matches(d, e)
    BY DEF StoreTypeOK
  <2>2. /\ SameLog(Refreshed(d, e), e) /\ Refreshed(d, e).removed = FALSE
        /\ Refreshed(d, e).status = e.status
    <3>1. /\ Refreshed(d, e).tx = d.tx
          /\ Refreshed(d, e).block = e.block
          /\ Refreshed(d, e).fork = e.fork
          /\ Refreshed(d, e).status = e.status
          /\ Refreshed(d, e).removed = IF Source = "Ethereum" THEN FALSE ELSE d.removed
      BY <2>1 DEF Doc, Refreshed
    <3>2. d.removed \in BOOLEAN
      BY <2>1 DEF Doc
    <3> QED
      BY <2>1, <3>1, <3>2, ChainAssumption
      DEF SameLog, Matches, StarknetMatches, EthereumMatches
  <2>3. ASSUME NEW x \in docs \ {d}, Clash(x, Refreshed(d, e)) PROVE FALSE
    <3>1. Clash(x, d)
      BY <2>1, <2>2, <2>3
      DEF Clash, SameLog, Matches, StarknetMatches, EthereumMatches
    <3> QED
      BY <3>1 DEF StoreInv, Clash
  <2>4. IsFiniteSet(docs')
    BY <1>2, FS_AddElement, FS_RemoveElement DEF StoreInv
  <2> QED
    BY <2>2, <2>3, <2>4
<1>3. ASSUME NEW d \in found, docs' = (docs \ {d}) \cup {Refreshed(d, e)}
      PROVE  \A x \in {d} : x.tx = e.tx
  BY DEF Matches, StarknetMatches, EthereumMatches, SameLog
<1>4. CASE \E d \in found : docs' = (docs \ {d}) \cup {Refreshed(d, e)}
  <2>1. PICK d \in found : docs' = (docs \ {d}) \cup {Refreshed(d, e)}
    BY <1>4
  <2>2. Refreshed(d, e) \in docs' /\ {d} \in SUBSET docs
    BY <2>1
  <2> WITNESS Refreshed(d, e) \in docs', {d} \in SUBSET docs
  <2> QED
    BY <1>2, <1>3, <2>1
<1> QED
  BY <1>1, <1>4 DEF UpdateOrCreate

\* An upsert of a log that agrees with the final blocks keeps all of them, and
\* stores the log.
LEMMA UpsertKeeps ==
    ASSUME StoreTypeOK, StoreInv, NEW e \in ChainEvent, UpdateOrCreate(e),
           AgreesWithFinal(e), UNCHANGED chainVars
    PROVE  /\ StoreInv'
           /\ \A b \in 1..finalized : Kept(b)
           /\ e.block \in 1..finalized => e.tx \in StoredTxs(e.block)'
<1>1. PICK new \in docs', old \in SUBSET docs :
             /\ docs' = (docs \ old) \cup {new}
             /\ IsFiniteSet(docs')
             /\ SameLog(new, e) /\ new.removed = FALSE
             /\ \A d \in old : d.tx = e.tx
             /\ \A d \in docs \ old : ~Clash(d, new)
  BY UpsertForm
<1>2. StoreInv'
  <2> SUFFICES ASSUME NEW x \in docs', NEW y \in docs', Clash(x, y) PROVE x = y
    BY <1>1 DEF StoreInv, Clash
  <2> QED
    BY <1>1 DEF StoreInv, Clash, SameLog
<1>3. ASSUME NEW b \in 1..finalized PROVE Kept(b)
  <2> SUFFICES ASSUME Sound(b)
               PROVE  Sound(b)' /\ StoredTxs(b) \subseteq StoredTxs(b)'
    BY DEF Kept, chainVars
  <2>1. ASSUME NEW d \in StoredIn(b)' PROVE d.fork = chain[b].fork /\ d.tx \in chain[b].txs
    <3>1. CASE d = new
      BY <1>1, <2>1, <3>1 DEF StoredIn, SameLog, AgreesWithFinal
    <3>2. CASE d \in StoredIn(b)
      BY <3>2 DEF Sound
    <3> QED
      BY <1>1, <2>1, <3>1, <3>2 DEF StoredIn, Live
  <2>2. ASSUME NEW d \in StoredIn(b) PROVE \E x \in StoredIn(b)' : x.tx = d.tx
    <3>1. CASE d \in old
      <4>1. e.tx = d.tx /\ e.block = b
        BY <1>1, <3>1 DEF Sound, AgreesWithFinal
      <4>2. new \in StoredIn(b)' /\ new.tx = d.tx
        BY <1>1, <4>1 DEF StoredIn, Live, SameLog
      <4> QED
        BY <4>2
    <3>2. CASE d \notin old
      BY <1>1, <3>2 DEF StoredIn, Live
    <3> QED
      BY <3>1, <3>2
  <2> QED
    BY <2>1, <2>2 DEF Sound, StoredTxs, chainVars
<1>4. ASSUME e.block \in 1..finalized PROVE e.tx \in StoredTxs(e.block)'
  BY <1>1 DEF StoredTxs, StoredIn, Live, SameLog
<1> QED
  BY <1>2, <1>3, <1>4

\* A write of the fields removed and lastProcessed that marks the documents of
\* some blocks as removed empties these blocks and keeps the others.
LEMMA MarkKeeps ==
    ASSUME StoreInv, UNCHANGED chainVars, NEW blocks, NEW f \in [docs -> Doc],
           docs' = {f[d] : d \in docs},
           \A d \in docs : /\ SameLog(f[d], d)
                           /\ f[d].removed <=> d.removed \/ d.block \in blocks
    PROVE  /\ StoreInv'
           /\ \A b : b \notin blocks => Kept(b)
           /\ \A b \in blocks : StoredIn(b)' = {}
<1>1. IsFiniteSet(docs')
  <2>1. f \in Surjection(docs, docs')
    BY DEF Surjection
  <2> QED
    BY <2>1, FS_Surjection DEF StoreInv
<1>2. StoreInv'
  <2> SUFFICES ASSUME NEW x \in docs', NEW y \in docs', Clash(x, y) PROVE x = y
    BY <1>1 DEF StoreInv, Clash
  <2>1. PICK c \in docs, d \in docs : x = f[c] /\ y = f[d]
    OBVIOUS
  <2>2. Clash(c, d)
    BY <2>1 DEF Clash, SameLog
  <2> QED
    BY <2>1, <2>2 DEF StoreInv, Clash
<1>3. ASSUME NEW b, NEW x \in StoredIn(b)'
      PROVE  b \notin blocks /\ \E d \in StoredIn(b) : SameLog(x, d)
  <2>1. PICK d \in docs : x = f[d]
    BY <1>3 DEF StoredIn, Live
  <2> QED
    BY <1>3, <2>1 DEF StoredIn, Live, SameLog
<1>4. ASSUME NEW b, b \notin blocks, NEW d \in StoredIn(b)
      PROVE  f[d] \in StoredIn(b)' /\ f[d].tx = d.tx
  BY <1>4 DEF StoredIn, Live, SameLog
<1>5. ASSUME NEW b, b \notin blocks PROVE Kept(b)
  <2>1. Sound(b) => Sound(b)'
    BY <1>3 DEF Sound, SameLog, chainVars
  <2>2. StoredTxs(b) \subseteq StoredTxs(b)'
    BY <1>4, <1>5 DEF StoredTxs
  <2> QED
    BY <2>1, <2>2 DEF Kept, chainVars
<1> QED
  BY <1>2, <1>3, <1>5

\* Processing and resetting events changes lastProcessed only.
LEMMA StampKeeps ==
    ASSUME StoreTypeOK, StoreInv, UNCHANGED chainVars,
           \/ \E s : docs' = Stamped(s)
           \/ \E b : ResetLastProcessedFromBlock(b)
    PROVE  StoreInv' /\ \A b : Kept(b)
<1>1. CASE \E s : docs' = Stamped(s)
  <2>1. PICK s : docs' = Stamped(s)
    BY <1>1
  <2> DEFINE f == [d \in docs |-> IF d.tx = s.tx /\ d.n = s.n
                                    THEN [d EXCEPT !.done = TRUE] ELSE d]
             none == {}
  <2>2. f \in [docs -> Doc] /\ docs' = {f[d] : d \in docs}
    <3>1. \A d \in docs : (IF d.tx = s.tx /\ d.n = s.n THEN [d EXCEPT !.done = TRUE] ELSE d)
                             \in Doc
      BY DEF StoreTypeOK, Doc
    <3> QED
      BY <2>1, <3>1 DEF Stamped
  <2>3. \A d \in docs : SameLog(f[d], d) /\ (f[d].removed <=> d.removed \/ d.block \in none)
    BY DEF StoreTypeOK, Doc, SameLog
  <2> HIDE DEF f, none
  <2>4. StoreInv' /\ \A x : x \notin none => Kept(x)
    BY <2>2, <2>3, MarkKeeps
  <2> QED
    BY <2>4 DEF none
<1>2. CASE \E b : ResetLastProcessedFromBlock(b)
  <2>1. PICK b : ResetLastProcessedFromBlock(b)
    BY <1>2
  <2> DEFINE f == [d \in docs |-> IF d.block >= b /\ ~d.removed
                                    THEN [d EXCEPT !.done = FALSE] ELSE d]
             none == {}
  <2>2. f \in [docs -> Doc] /\ docs' = {f[d] : d \in docs}
    BY <2>1 DEF ResetLastProcessedFromBlock, StoreTypeOK, Doc
  <2>3. \A d \in docs : SameLog(f[d], d) /\ (f[d].removed <=> d.removed \/ d.block \in none)
    BY DEF StoreTypeOK, Doc, SameLog
  <2> HIDE DEF f, none
  <2>4. StoreInv' /\ \A x : x \notin none => Kept(x)
    BY <2>2, <2>3, MarkKeeps
  <2> QED
    BY <2>4 DEF none
<1> QED
  BY <1>1, <1>2

\* The auditor empties the blocks that changed and no other.
LEMMA RemoveKeeps ==
    ASSUME StoreTypeOK, StoreInv, UNCHANGED chainVars, NEW blocks,
           UpdateManyAsRemoved(blocks)
    PROVE  /\ StoreInv'
           /\ \A b : b \notin blocks => Kept(b)
           /\ \A b \in blocks : StoredIn(b)' = {}
<1> DEFINE f == [d \in docs |-> IF d.block \in blocks /\ ~d.removed
                                  THEN [d EXCEPT !.removed = TRUE, !.done = FALSE] ELSE d]
<1>1. f \in [docs -> Doc] /\ docs' = {f[d] : d \in docs}
  BY DEF UpdateManyAsRemoved, StoreTypeOK, Doc
<1>2. \A d \in docs : SameLog(f[d], d) /\ (f[d].removed <=> d.removed \/ d.block \in blocks)
  BY DEF StoreTypeOK, Doc, SameLog
<1> HIDE DEF f
<1> QED
  BY <1>1, <1>2, MarkKeeps

-----------------------------------------------------------------------------
(* What the chain promises.                                                *)

\* A canonical log agrees with the whole chain.
LEMMA CanonicalAgrees ==
    ASSUME ChainTypeOK, ChainInv, NEW e, e.block \in DOMAIN chain,
           e.fork = chain[e.block].fork, e.tx \in chain[e.block].txs
    PROVE  /\ ReadFromChain(e)
           /\ \A b \in DOMAIN chain : /\ e.tx \in chain[b].txs <=> e.block = b
                                      /\ e.block = b => e.fork = chain[b].fork
<1>1. ReadFromChain(e)
  BY DEF ChainTypeOK, ChainInv, ReadFromChain, HeadBlock
<1>2. ASSUME NEW b \in DOMAIN chain, e.tx \in chain[b].txs PROVE e.block = b
  BY <1>2 DEF ChainInv
<1> QED
  BY <1>1, <1>2

\* The logs of a range are canonical, and are those of its blocks.
LEMMA LogsCanonical ==
    ASSUME NEW from, NEW to, NEW cached
    PROVE  /\ \A e \in Logs(from, to, cached) :
                /\ e.block \in (from..to) \cap DOMAIN chain
                /\ e.fork = chain[e.block].fork
                /\ e.tx \in chain[e.block].txs
                /\ e.status = Status(e.block, cached)
           /\ \A b \in (from..to) \cap DOMAIN chain : \A t \in chain[b].txs :
                \E e \in Logs(from, to, cached) : e.tx = t /\ e.block = b
<1>1. ASSUME NEW b \in (from..to) \cap DOMAIN chain, NEW t \in chain[b].txs
      PROVE  [tx |-> t, block |-> b, fork |-> chain[b].fork, status |-> Status(b, cached)]
               \in Logs(from, to, cached)
  BY DEF Logs
<1>2. ASSUME NEW e \in Logs(from, to, cached)
      PROVE  \E b \in (from..to) \cap DOMAIN chain : \E t \in chain[b].txs :
               e = [tx |-> t, block |-> b, fork |-> chain[b].fork, status |-> Status(b, cached)]
  BY DEF Logs
<1>3. ASSUME NEW e \in Logs(from, to, cached)
      PROVE  /\ e.block \in (from..to) \cap DOMAIN chain
             /\ e.fork = chain[e.block].fork
             /\ e.tx \in chain[e.block].txs
             /\ e.status = Status(e.block, cached)
  BY <1>2
<1>4. ASSUME NEW b \in (from..to) \cap DOMAIN chain, NEW t \in chain[b].txs
      PROVE  \E e \in Logs(from, to, cached) : e.tx = t /\ e.block = b
  BY <1>1
<1> QED
  BY <1>3, <1>4

\* Before the first reorganisation every block is of the first fork.
LEMMA Unforked ==
    ASSUME ChainTypeOK, ChainInv, forks = 0, NEW b \in DOMAIN chain
    PROVE  chain[b].fork = 0
<1>1. chain[b] \in Block
  BY DEF ChainTypeOK
<1>2. chain[b].fork \in Nat
  BY <1>1, ChainAssumption DEF Block, Forks
<1>3. chain[b].fork <= 0
  BY DEF ChainInv
<1> QED
  BY <1>2, <1>3

\* The chain grows above the final blocks, by a block of the newest fork.
LEMMA ChainGrowsForm ==
    ASSUME ChainTypeOK, Mine \/ Reorg
    PROVE  \E keep \in Nat :
             /\ finalized <= keep /\ keep <= Len(chain)
             /\ finalized' = finalized
             /\ \/ forks' = forks /\ keep = Len(chain)
                \/ forks' = forks + 1
             /\ DOMAIN chain' = 1..(keep + 1) /\ Len(chain') = keep + 1
             /\ \A b \in 1..keep : chain'[b] = chain[b]
             /\ chain'[keep + 1].fork = forks'
             /\ \A b \in 1..keep : chain'[keep + 1].txs \cap chain[b].txs = {}
<1>1. chain \in Seq(Block) /\ Len(chain) \in Nat /\ finalized \in 0..Len(chain)
  BY DEF ChainTypeOK
<1>2. ASSUME NEW keep \in Nat, NEW prefix \in Seq(Block), NEW txs,
             txs \subseteq Tx \ Included(prefix), forks' \in Forks,
             Len(prefix) = keep, \A b \in 1..keep : prefix[b] = chain[b],
             chain' = Append(prefix, [fork |-> forks', txs |-> txs])
      PROVE  /\ DOMAIN chain' = 1..(keep + 1) /\ Len(chain') = keep + 1
             /\ \A b \in 1..keep : chain'[b] = chain[b]
             /\ chain'[keep + 1].fork = forks'
             /\ \A b \in 1..keep : chain'[keep + 1].txs \cap chain[b].txs = {}
  <2>1. [fork |-> forks', txs |-> txs] \in Block
    BY <1>2 DEF Block
  <2>2. DOMAIN prefix = 1..keep
    BY <1>2
  <2>3. \A b \in 1..keep : txs \cap chain[b].txs = {}
    BY <1>2, <2>2 DEF Included
  <2>4. /\ Len(chain') = keep + 1 /\ DOMAIN chain' = 1..(keep + 1)
        /\ \A b \in 1..keep : chain'[b] = prefix[b]
        /\ chain'[keep + 1] = [fork |-> forks', txs |-> txs]
    BY <1>1, <1>2, <2>1
  <2> QED
    BY <1>2, <2>3, <2>4
<1>3. CASE Mine
  <2>1. PICK txs \in SUBSET (Tx \ Included(chain)) :
          chain' = Append(chain, [fork |-> forks', txs |-> txs])
    BY <1>3 DEF Mine
  <2>2. forks' = forks /\ finalized' = finalized /\ forks' \in Forks
    BY <1>3 DEF Mine, ChainTypeOK
  <2>3. Len(chain) \in Nat /\ finalized <= Len(chain)
    BY <1>1
  <2> QED
    BY <1>1, <1>2, <2>1, <2>2, <2>3
<1>4. CASE Reorg
  <2>1. PICK keep \in finalized..(HeadBlock - 1) :
          \E txs \in SUBSET (Tx \ Included(SubSeq(chain, 1, keep))) :
            chain' = Append(SubSeq(chain, 1, keep), [fork |-> forks + 1, txs |-> txs])
    BY <1>4 DEF Reorg
  <2> DEFINE prefix == SubSeq(chain, 1, keep)
  <2>2. /\ keep \in 0..(Len(chain) - 1) /\ keep \in Nat
        /\ finalized <= keep /\ keep <= Len(chain)
    BY <1>1, <2>1 DEF HeadBlock
  <2>3. /\ prefix \in Seq(Block) /\ Len(prefix) = keep
        /\ \A b \in 1..keep : prefix[b] = chain[b]
    BY <1>1, <2>2
  <2>4. forks' = forks + 1 /\ finalized' = finalized /\ forks' \in Forks
    BY <1>4, ChainAssumption DEF Reorg, ChainTypeOK, Forks
  <2>5. PICK txs \in SUBSET (Tx \ Included(prefix)) :
          chain' = Append(prefix, [fork |-> forks', txs |-> txs])
    BY <2>1, <2>4
  <2> HIDE DEF prefix
  <2> QED
    BY <1>2, <2>2, <2>3, <2>4, <2>5
<1> QED
  BY <1>3, <1>4

\* Growth leaves the final blocks alone and what was read from the chain true.
LEMMA ChainGrowsKeeps ==
    ASSUME ChainTypeOK, ChainInv, Mine \/ Reorg
    PROVE  /\ ChainInv' /\ finalized' = finalized
           /\ \A b \in 1..finalized : chain'[b] = chain[b]
           /\ \A e \in ChainEvent : ReadFromChain(e) => ReadFromChain(e)'
<1>1. PICK keep \in Nat :
             /\ finalized <= keep /\ keep <= Len(chain)
             /\ finalized' = finalized
             /\ \/ forks' = forks /\ keep = Len(chain)
                \/ forks' = forks + 1
             /\ DOMAIN chain' = 1..(keep + 1) /\ Len(chain') = keep + 1
             /\ \A b \in 1..keep : chain'[b] = chain[b]
             /\ chain'[keep + 1].fork = forks'
             /\ \A b \in 1..keep : chain'[keep + 1].txs \cap chain[b].txs = {}
  BY ChainGrowsForm
<1>2. /\ Len(chain) \in Nat /\ DOMAIN chain = 1..Len(chain)
      /\ finalized \in Nat /\ forks \in Nat /\ forks' \in Nat
      /\ keep \in Nat /\ finalized <= keep /\ keep <= Len(chain)
  BY <1>1, ChainAssumption DEF ChainTypeOK, Forks
<1>3. /\ forks \in Nat /\ forks' \in Nat /\ Len(chain) \in Nat /\ Len(chain') \in Nat
      /\ forks <= forks' /\ (forks = forks' => Len(chain) <= Len(chain'))
      /\ forks = forks' => keep = Len(chain)
  <2>1. (forks' = forks /\ keep = Len(chain)) \/ forks' = forks + 1
    BY <1>1
  <2>2. Len(chain') = keep + 1
    BY <1>1
  <2>3. forks \in Nat /\ Len(chain) \in Nat
    BY <1>2
  <2> QED
    BY <2>1, <2>2, <2>3
<1>4. ASSUME NEW b \in DOMAIN chain' PROVE b \in 1..keep \/ b = keep + 1
  <2>1. b \in 1..(keep + 1)
    BY <1>1
  <2> QED
    BY <1>2, <2>1
<1>5. \A b \in 1..keep : b \in DOMAIN chain
  BY <1>2
<1>6. ASSUME NEW b \in 1..finalized PROVE chain'[b] = chain[b]
  <2>1. b \in 1..keep
    BY <1>2
  <2> QED
    BY <1>1, <2>1
<1>7. ASSUME NEW b \in DOMAIN chain', NEW c \in DOMAIN chain', b # c
      PROVE  chain'[b].txs \cap chain'[c].txs = {}
  <2>1. CASE b \in 1..keep /\ c \in 1..keep
    <3>1. chain[b].txs \cap chain[c].txs = {}
      BY <1>5, <1>7, <2>1 DEF ChainInv
    <3> QED
      BY <1>1, <2>1, <3>1
  <2>2. CASE b = keep + 1 /\ c \in 1..keep
    BY <1>1, <2>2
  <2>3. CASE c = keep + 1 /\ b \in 1..keep
    BY <1>1, <2>3
  <2> QED
    BY <1>4, <1>7, <2>1, <2>2, <2>3
<1>8. ASSUME NEW b \in DOMAIN chain' PROVE chain'[b].fork <= forks'
  <2>1. CASE b \in 1..keep
    <3>1. chain[b].fork <= forks /\ chain[b] \in Block
      BY <1>2, <1>5, <2>1 DEF ChainInv, ChainTypeOK
    <3>2. chain[b].fork \in Nat /\ forks <= forks'
      BY <1>1, <1>2, <3>1 DEF Block, Forks
    <3>3. chain'[b] = chain[b]
      BY <1>1, <2>1
    <3> QED
      BY <1>2, <3>1, <3>2, <3>3
  <2>2. CASE b = keep + 1
    <3>1. chain'[b].fork = forks'
      BY <1>1, <2>2
    <3> QED
      BY <1>2, <3>1
  <2> QED
    BY <1>4, <2>1, <2>2
<1>9. ASSUME NEW e \in ChainEvent, ReadFromChain(e) PROVE ReadFromChain(e)'
  <2>1. e.fork \in Nat /\ e.block \in Nat
    BY DEF ChainEvent, Forks, Heights
  <2> DEFINE fork == e.fork
             block == e.block
  <2>2. fork <= forks /\ (fork = forks => block <= Len(chain))
    BY <1>9 DEF ReadFromChain, HeadBlock
  <2>3. fork \in Nat /\ block \in Nat
    BY <2>1
  <2>4. fork <= forks' /\ (fork = forks' => block <= Len(chain'))
    <3> HIDE DEF fork, block
    <3> QED
      BY <1>3, <2>2, <2>3
  <2>5. ASSUME e.block \in DOMAIN chain', chain'[e.block].fork = e.fork
        PROVE  e.tx \in chain'[e.block].txs
    <3>1. CASE e.block = keep + 1
      <4>1. fork = forks' /\ block = keep + 1
        BY <1>1, <2>5, <3>1
      <4> HIDE DEF fork, block
      <4> QED
        BY <1>3, <2>2, <2>3, <4>1
    <3>2. CASE e.block \in 1..keep
      <4>1. chain'[e.block] = chain[e.block] /\ e.block \in DOMAIN chain
        BY <1>1, <1>5, <3>2
      <4> QED
        BY <1>9, <2>5, <4>1 DEF ReadFromChain, IsCanonical
    <3> QED
      BY <1>4, <2>5, <3>1, <3>2
  <2> QED
    BY <2>4, <2>5 DEF ReadFromChain, IsCanonical, HeadBlock
<1> QED
  BY <1>1, <1>6, <1>7, <1>8, <1>9 DEF ChainInv

-----------------------------------------------------------------------------
(* AuditInv is inductive.                                                  *)

\* The batch lies within the final blocks, and above what was audited.
LEMMA BatchIsFinal ==
    ASSUME TypeOK, AuditorRange, Comparing
    PROVE  /\ BatchEnd \in Nat /\ BatchEnd <= finalized
           /\ auditor.from <= BatchEnd
           /\ \A b \in Batch : b \in 1..finalized /\ b \in DOMAIN chain /\ b \notin Audited
<1>1. /\ auditor.from \in Nat /\ auditor.target \in Nat /\ finalized \in Nat
      /\ Len(chain) \in Nat /\ finalized <= Len(chain) /\ lastAudited \in Nat
      /\ Origin \in Nat \ {0} /\ BlockBatch \in Nat \ {0}
  BY StoreAssumption
  DEF TypeOK, AuditorTypeOK, ChainTypeOK, StoreTypeOK, Checkpoint, AuditorRange
<1>2. /\ auditor.target <= finalized /\ auditor.from <= auditor.target
      /\ auditor.from = Larger(Origin, lastAudited + 1)
  BY DEF AuditorRange, Comparing
<1>3. /\ BatchEnd \in Nat /\ BatchEnd <= auditor.target /\ auditor.from <= BatchEnd
  BY <1>1, <1>2 DEF BatchEnd, Smaller
<1>4. auditor.from >= 1 /\ lastAudited < auditor.from
  BY <1>1, <1>2 DEF Larger
<1>5. ASSUME NEW b \in Batch
      PROVE  b \in 1..finalized /\ b \in 1..Len(chain) /\ b > lastAudited
  BY <1>1, <1>2, <1>3, <1>4 DEF Batch
<1>6. DOMAIN chain = 1..Len(chain)
  BY DEF TypeOK, ChainTypeOK
<1>7. ASSUME NEW b \in Batch PROVE b \notin Audited
  BY <1>1, <1>5 DEF Audited
<1> QED
  BY <1>1, <1>2, <1>3, <1>5, <1>6, <1>7

\* Logs that agree with the final blocks go on to while these stay the same.
LEMMA AgreesKept ==
    ASSUME finalized' = finalized, \A b \in 1..finalized : chain'[b] = chain[b],
           NEW e, AgreesWithFinal(e)
    PROVE  AgreesWithFinal(e)'
BY DEF AgreesWithFinal

\* A step of another actor that keeps the final blocks cannot disturb the audit.
LEMMA OthersKeepAudit ==
    ASSUME TypeOK, AuditorRange, AuditorRepairs, AuditedInv,
           UNCHANGED <<auditor, lastAudited, auditStart>>,
           finalized' \in Nat, finalized <= finalized',
           \A b \in 1..finalized : Kept(b),
           \A e \in auditor.repair \cup auditor.refresh : AgreesWithFinal(e)'
    PROVE  AuditorRange' /\ AuditorRepairs' /\ AuditedInv'
<1>1. finalized \in Nat
  BY DEF TypeOK, ChainTypeOK
<1>2. Batch' = Batch /\ Comparing' = Comparing /\ Audited' = Audited
  BY DEF Batch, BatchEnd, Comparing, Audited
<1>3. AuditorRange'
  <2>1. auditor.target \in Nat
    BY DEF TypeOK, AuditorTypeOK
  <2>2. auditor.target <= finalized => auditor.target <= finalized'
    BY <1>1, <2>1
  <2> QED
    BY <1>2, <2>2 DEF AuditorRange
<1>4. ASSUME Comparing, NEW b \in Batch PROVE Kept(b)
  BY <1>4, BatchIsFinal
<1>5. AuditorRepairs'
  <2> SUFFICES ASSUME Comparing', auditor'.pc # "compare", NEW b \in Batch'
               PROVE  IF auditor'.pc = "remove" /\ b \in auditor'.changed
                        THEN chain'[b].txs \subseteq Pending(b)'
                        ELSE Sound(b)' /\ chain'[b].txs \subseteq StoredTxs(b)' \cup Pending(b)'
    BY DEF AuditorRepairs
  <2>1. Pending(b)' = Pending(b)
    BY DEF Pending
  <2> QED
    BY <1>2, <1>4, <2>1 DEF AuditorRepairs, Kept
<1>6. AuditedInv'
  <2> SUFFICES ASSUME NEW b \in Audited
               PROVE  b <= finalized' /\ Sound(b)' /\ chain'[b].txs \subseteq StoredTxs(b)'
    BY <1>2 DEF AuditedInv
  <2>1. b \in Nat /\ b >= 1 /\ b <= finalized
    BY StoreAssumption DEF AuditedInv, Audited, Larger, TypeOK, StoreTypeOK, Checkpoint, Unset
  <2>2. b \in 1..finalized
    BY <1>1, <2>1
  <2> QED
    BY <1>1, <2>1, <2>2 DEF AuditedInv, Kept
<1> QED
  BY <1>3, <1>5, <1>6

\* compareBlockEvents compares counts and looks up each log: when it reports no
\* change the stored events are the canonical logs, no more and no fewer.
LEMMA CompareSound ==
    ASSUME TypeOK, ChainInv, StoreInv, NEW from, NEW to, NEW cached,
           NEW b \in (from..to) \cap DOMAIN chain,
           ~ IdentityChanged(InBlock(Logs(from, to, cached), b), InBlock(Live, b))
    PROVE  Sound(b) /\ chain[b].txs \subseteq StoredTxs(b)
<1> DEFINE C == InBlock(Logs(from, to, cached), b)
           S == InBlock(Live, b)
           f == [e \in C |-> CHOOSE d \in S : d.tx = e.tx /\ d.fork = e.fork]
<1>1. S = StoredIn(b)
  BY DEF InBlock, StoredIn
<1>2. IsFiniteSet(S)
  BY FS_Subset DEF StoreInv, InBlock, Live
<1>3. Cardinality(C) = Cardinality(S)
  BY DEF IdentityChanged
<1>4. ASSUME NEW e \in C PROVE \E d \in S : d.tx = e.tx /\ d.fork = e.fork
  BY DEF IdentityChanged
<1>5. ASSUME NEW e \in C PROVE f[e] \in S /\ f[e].tx = e.tx /\ f[e].fork = e.fork
  BY <1>4
<1>6. ASSUME NEW e \in C
      PROVE  /\ e.block = b /\ e.fork = chain[b].fork /\ e.tx \in chain[b].txs
             /\ e.status = Status(b, cached) /\ e \in ChainEvent
  BY LogsCanonical, LogsType DEF InBlock, TypeOK
<1>7. ASSUME NEW t \in chain[b].txs PROVE \E e \in C : e.tx = t
  BY LogsCanonical DEF InBlock
<1>8. f \in Injection(C, S)
  <2>1. ASSUME NEW x \in C, NEW y \in C, f[x] = f[y] PROVE x = y
    <3>1. x.tx = y.tx /\ x.block = y.block /\ x.fork = y.fork /\ x.status = y.status
      BY <1>5, <1>6, <2>1
    <3>2. x \in ChainEvent /\ y \in ChainEvent
      BY <1>6
    <3> QED
      BY <3>1, <3>2 DEF ChainEvent
  <2>2. f \in [C -> S]
    BY <1>5
  <2> QED
    BY <2>1, <2>2 DEF Injection, IsInjective
<1>9. f \in Surjection(C, S)
  <2> HIDE DEF C, S, f
  <2> QED
    BY <1>2, <1>3, <1>8, FS_Injection
<1>10. ASSUME NEW d \in S PROVE d.fork = chain[b].fork /\ d.tx \in chain[b].txs
  <2>1. PICK e \in C : f[e] = d
    BY <1>9 DEF Surjection
  <2> QED
    BY <1>5, <1>6, <2>1
<1>11. ASSUME NEW t \in chain[b].txs PROVE t \in StoredTxs(b)
  BY <1>1, <1>4, <1>7 DEF StoredTxs
<1> QED
  BY <1>1, <1>10, <1>11 DEF Sound

LEMMA KeptWithDocs ==
    ASSUME docs' = docs, NEW b, chain'[b] = chain[b]
    PROVE  Kept(b)
BY DEF Kept, Sound, StoredTxs, StoredIn, Live

\* The chain grows.
LEMMA ChainGrowsInv ==
    ASSUME AuditInv, ChainGrows
    PROVE  /\ ChainInv' /\ StoreInv' /\ RetrieverInv'
           /\ AuditorRange' /\ AuditorRepairs' /\ AuditedInv'
<1> USE DEF AuditInv
<1>1. /\ ChainInv' /\ finalized' = finalized
      /\ \A b \in 1..finalized : chain'[b] = chain[b]
      /\ \A e \in ChainEvent : ReadFromChain(e) => ReadFromChain(e)'
  BY ChainGrowsKeeps DEF ChainGrows, TypeOK
<1>2. UNCHANGED <<docs, retriever, auditor, lastAudited, auditStart>>
  BY DEF ChainGrows, storeVars, history
<1>3. StoreInv'
  BY <1>2 DEF StoreInv
<1>4. RetrieverInv'
  BY <1>1, <1>2, AgreesKept DEF RetrieverInv, TypeOK, RetrieverTypeOK
<1>5. \A b \in 1..finalized : Kept(b)
  BY <1>1, <1>2, KeptWithDocs
<1>6. \A e \in auditor.repair \cup auditor.refresh : AgreesWithFinal(e)'
  BY <1>1, AgreesKept DEF AuditorRange
<1>7. finalized' \in Nat /\ finalized <= finalized'
  BY <1>1 DEF TypeOK, ChainTypeOK
<1> QED
  BY <1>1, <1>2, <1>3, <1>4, <1>5, <1>6, <1>7, OthersKeepAudit

\* A block becomes final while no log the retriever holds contradicts it.
LEMMA BlockFinalizedInv ==
    ASSUME AuditInv, BlockFinalized, SlowRetriever = FALSE
    PROVE  /\ ChainInv' /\ StoreInv' /\ RetrieverInv'
           /\ AuditorRange' /\ AuditorRepairs' /\ AuditedInv'
<1> USE DEF AuditInv
<1>1. /\ UNCHANGED <<chain, forks, docs, retriever, auditor, lastAudited, auditStart>>
      /\ finalized' = finalized + 1 /\ finalized < Len(chain)
      /\ \A e \in retriever.events : IsCanonical(e)
  BY DEF BlockFinalized, Finalize, HeadBlock, storeVars, history
<1>2. /\ finalized \in Nat /\ Len(chain) \in Nat /\ DOMAIN chain = 1..Len(chain)
  BY DEF TypeOK, ChainTypeOK
<1>3. 1..finalized' \subseteq DOMAIN chain
  BY <1>1, <1>2
<1>4. ASSUME NEW e, e.block \in DOMAIN chain, e.fork = chain[e.block].fork,
             e.tx \in chain[e.block].txs
      PROVE  AgreesWithFinal(e)'
  <2>1. \A b \in DOMAIN chain : /\ e.tx \in chain[b].txs <=> e.block = b
                                /\ e.block = b => e.fork = chain[b].fork
    BY <1>4, CanonicalAgrees DEF TypeOK
  <2> QED
    BY <1>1, <1>3, <2>1 DEF AgreesWithFinal
<1>5. RetrieverInv'
  <2>1. ASSUME NEW e \in retriever.events PROVE ReadFromChain(e)' /\ AgreesWithFinal(e)'
    <3>1. e.block \in DOMAIN chain /\ chain[e.block].fork = e.fork /\ ReadFromChain(e)
      BY <1>1 DEF IsCanonical, RetrieverInv
    <3>2. e.tx \in chain[e.block].txs
      BY <3>1 DEF ReadFromChain, IsCanonical
    <3>3. ReadFromChain(e)'
      BY <1>1, <3>1 DEF ReadFromChain, IsCanonical, HeadBlock
    <3> QED
      BY <1>4, <3>1, <3>2, <3>3
  <2> QED
    BY <1>1, <2>1 DEF RetrieverInv
<1>6. ASSUME NEW e \in auditor.repair \cup auditor.refresh PROVE AgreesWithFinal(e)'
  <2>1. e.block \in Batch /\ AgreesWithFinal(e)
    BY DEF AuditorRange
  <2>2. Comparing
    BY <1>6, <2>1 DEF AuditorRange, Comparing
  <2>3. e.block \in 1..finalized /\ e.block \in DOMAIN chain
    BY <2>1, <2>2, BatchIsFinal
  <2> QED
    BY <1>4, <2>1, <2>3 DEF AgreesWithFinal
<1>7. \A b \in 1..finalized : Kept(b)
  BY <1>1, KeptWithDocs
<1>8. ChainInv' /\ StoreInv'
  BY <1>1 DEF ChainInv, StoreInv
<1>9. finalized' \in Nat /\ finalized <= finalized'
  BY <1>1, <1>2
<1> QED
  BY <1>1, <1>5, <1>6, <1>7, <1>8, <1>9, OthersKeepAudit

\* A step that writes nothing but caches, the processor's memory or the stamps.
LEMMA QuietInv ==
    ASSUME AuditInv, UNCHANGED <<chainVars, retriever, auditor, lastAudited, auditStart>>,
           StoreInv', \A b \in 1..finalized : Kept(b)
    PROVE  /\ ChainInv' /\ RetrieverInv'
           /\ AuditorRange' /\ AuditorRepairs' /\ AuditedInv'
<1> USE DEF AuditInv, chainVars
<1>1. \A e : AgreesWithFinal(e)' <=> AgreesWithFinal(e)
  BY DEF AgreesWithFinal
<1>2. ChainInv' /\ RetrieverInv'
  BY <1>1 DEF ChainInv, RetrieverInv, ReadFromChain, IsCanonical, HeadBlock
<1>3. \A e \in auditor.repair \cup auditor.refresh : AgreesWithFinal(e)'
  BY <1>1 DEF AuditorRange
<1>4. finalized' \in Nat /\ finalized <= finalized'
  BY DEF TypeOK, ChainTypeOK
<1> QED
  BY <1>2, <1>3, <1>4, OthersKeepAudit

\* The retriever: a log it saves agrees with the final blocks.
LEMMA RetrieveInv ==
    ASSUME AuditInv, Retrieve
    PROVE  /\ ChainInv' /\ StoreInv' /\ RetrieverInv'
           /\ AuditorRange' /\ AuditorRepairs' /\ AuditedInv'
<1> USE DEF AuditInv
<1>1. UNCHANGED <<chainVars, auditor, lastAudited, auditStart>>
  BY DEF Retrieve, RetrieverStep, RetrieverBootstrap, RetrieverReadHead, RetrieverPull,
     RetrieverSave, RetrieverAdvance, history
<1>2. \A e : /\ AgreesWithFinal(e)' <=> AgreesWithFinal(e)
             /\ ReadFromChain(e)' <=> ReadFromChain(e)
  BY <1>1 DEF AgreesWithFinal, ReadFromChain, IsCanonical, HeadBlock, chainVars
<1>3. StoreInv' /\ \A b \in 1..finalized : Kept(b)
  <2>1. CASE docs' = docs
    BY <1>1, <2>1, KeptWithDocs DEF StoreInv, chainVars
  <2>2. CASE RetrieverSave
    <3>1. PICK e \in retriever.events : UpdateOrCreate(e)
      BY <2>2 DEF RetrieverSave
    <3>2. AgreesWithFinal(e) /\ e \in ChainEvent
      BY DEF RetrieverInv, TypeOK, RetrieverTypeOK
    <3> QED
      BY <1>1, <3>1, <3>2, UpsertKeeps DEF TypeOK
  <2> QED
    BY <2>1, <2>2 DEF Retrieve, RetrieverStep, RetrieverBootstrap, RetrieverReadHead,
       RetrieverPull, RetrieverAdvance
<1>4. RetrieverInv'
  <2>1. CASE retriever'.events \subseteq retriever.events
    BY <1>2, <2>1 DEF RetrieverInv
  <2>2. CASE RetrieverPull
    <3> DEFINE events == Logs(retriever.from, retriever.to, rpcCache)
    <3>1. retriever'.events = events
      BY <2>2 DEF RetrieverPull, TypeOK, RetrieverTypeOK
    <3>2. ASSUME NEW e \in events PROVE ReadFromChain(e) /\ AgreesWithFinal(e)
      <4>1. /\ e.block \in DOMAIN chain /\ e.fork = chain[e.block].fork
            /\ e.tx \in chain[e.block].txs
        BY LogsCanonical
      <4>2. /\ ReadFromChain(e)
            /\ \A b \in DOMAIN chain : /\ e.tx \in chain[b].txs <=> e.block = b
                                       /\ e.block = b => e.fork = chain[b].fork
        BY <4>1, CanonicalAgrees DEF TypeOK
      <4>3. 1..finalized \subseteq DOMAIN chain
        BY DEF TypeOK, ChainTypeOK
      <4> QED
        BY <4>2, <4>3 DEF AgreesWithFinal
    <3> QED
      BY <1>2, <3>1, <3>2 DEF RetrieverInv
  <2>3. CASE RetrieverBootstrap \/ RetrieverReadHead \/ RetrieverAdvance
    <3>1. /\ RetrieverIdle.events = {}
          /\ RetrieverIdle \in [pc : {"idle"}, from : Nat, to : Nat, events : {{}}]
      BY DEF RetrieverIdle
    <3>2. \A from, to : [RetrieverIdle EXCEPT !.pc = "pull", !.from = from, !.to = to].events = {}
      BY <3>1
    <3>3. CASE RetrieverReadHead
      BY <2>1, <3>2, <3>3 DEF RetrieverReadHead
    <3>4. CASE RetrieverBootstrap \/ RetrieverAdvance
      BY <2>1, <3>1, <3>4 DEF RetrieverBootstrap, RetrieverAdvance
    <3> QED
      BY <2>3, <3>3, <3>4
  <2>4. CASE RetrieverSave
    <3>1. PICK e \in retriever.events :
            retriever' = [retriever EXCEPT
                            !.events = retriever.events \ {e},
                            !.pc = IF retriever.events \ {e} = {} THEN "advance" ELSE "save"]
      BY <2>4 DEF RetrieverSave
    <3>2. retriever'.events \subseteq retriever.events
      BY <3>1 DEF TypeOK, RetrieverTypeOK
    <3> QED
      BY <2>1, <3>2
  <2> QED
    BY <2>2, <2>3, <2>4 DEF Retrieve, RetrieverStep
<1>5. ChainInv'
  BY <1>1 DEF ChainInv, chainVars
<1>6. \A e \in auditor.repair \cup auditor.refresh : AgreesWithFinal(e)'
  BY <1>2 DEF AuditorRange
<1>7. finalized' \in Nat /\ finalized <= finalized'
  BY <1>1 DEF TypeOK, ChainTypeOK, chainVars
<1> QED
  BY <1>1, <1>3, <1>4, <1>5, <1>6, <1>7, OthersKeepAudit

\* The processor only stamps documents.
LEMMA ProcessInv ==
    ASSUME AuditInv, Process
    PROVE  /\ ChainInv' /\ StoreInv' /\ RetrieverInv'
           /\ AuditorRange' /\ AuditorRepairs' /\ AuditedInv'
<1> USE DEF AuditInv
<1>1. UNCHANGED <<chainVars, retriever, auditor, lastAudited, auditStart>>
  BY DEF Process, ProcessorStep, ProcessorFetch, ProcessorHandle, ProcessorFinalize,
     ProcessorCheck, ProcessorEmit, storeVars
<1>2. StoreInv' /\ \A b \in 1..finalized : Kept(b)
  <2>1. CASE docs' = docs
    BY <1>1, <2>1, KeptWithDocs DEF StoreInv, chainVars
  <2>2. CASE ProcessorFinalize
    <3>1. \E s : docs' = Stamped(s)
      BY <2>2 DEF ProcessorFinalize
    <3> QED
      BY <1>1, <3>1, StampKeeps DEF TypeOK
  <2> QED
    BY <2>1, <2>2 DEF Process, ProcessorStep, ProcessorFetch, ProcessorHandle,
       ProcessorCheck, ProcessorEmit, storeVars
<1> QED
  BY <1>1, <1>2, QuietInv

\* A failure forgets what a worker held; an audit starts over.
LEMMA FailInv ==
    ASSUME AuditInv, Fail
    PROVE  /\ ChainInv' /\ StoreInv' /\ RetrieverInv'
           /\ AuditorRange' /\ AuditorRepairs' /\ AuditedInv'
<1> USE DEF AuditInv
<1>1. UNCHANGED <<chainVars, docs, lastAudited, auditStart>>
  BY DEF Fail, RetrieverFail, AuditorFail, ProcessorFail, storeVars, history
<1>2. StoreInv' /\ ChainInv' /\ \A b \in 1..finalized : Kept(b)
  BY <1>1, KeptWithDocs DEF StoreInv, ChainInv, chainVars
<1>3. CASE RetrieverFail /\ UNCHANGED <<auditor, processor>>
  <2>1. RetrieverInv'
    BY <1>3 DEF RetrieverFail, RetrieverIdle, RetrieverInv
  <2>2. \A e \in auditor.repair \cup auditor.refresh : AgreesWithFinal(e)'
    BY <1>1 DEF AuditorRange, AgreesWithFinal, chainVars
  <2>3. finalized' \in Nat /\ finalized <= finalized'
    BY <1>1 DEF TypeOK, ChainTypeOK, chainVars
  <2> QED
    BY <1>1, <1>2, <1>3, <2>1, <2>2, <2>3, OthersKeepAudit
<1>4. CASE AuditorFail /\ UNCHANGED <<retriever, processor>>
  <2>1. auditor' = AuditorIdle
    BY <1>4 DEF AuditorFail
  <2>2. RetrieverInv'
    BY <1>1, <1>4
    DEF RetrieverInv, AgreesWithFinal, ReadFromChain, IsCanonical, HeadBlock, chainVars
  <2>3. AuditorRange' /\ AuditorRepairs'
    BY <2>1 DEF AuditorRange, AuditorRepairs, AuditorIdle, Comparing
  <2>4. AuditedInv'
    BY <1>1 DEF AuditedInv, Audited, Sound, StoredTxs, StoredIn, Live, chainVars
  <2> QED
    BY <1>2, <2>2, <2>3, <2>4
<1>5. CASE ProcessorFail /\ UNCHANGED <<retriever, auditor>>
  BY <1>1, <1>2, <1>5, QuietInv
<1> QED
  BY <1>3, <1>4, <1>5 DEF Fail

\* An audit that has just chosen its checkpoint has passed no block.
LEMMA NothingAudited ==
    ASSUME auditStart' = lastAudited', lastAudited' \in Checkpoint
    PROVE  Audited' = {}
<1> DEFINE last == lastAudited'
<1>1. Audited' = Larger(Origin, last + 1)..last
  BY DEF Audited, Larger
<1>2. last \in Int /\ Origin \in Int
  BY StoreAssumption DEF Checkpoint, Unset
<1> HIDE DEF last
<1>3. Larger(Origin, last + 1) \in Int /\ Larger(Origin, last + 1) > last
  BY <1>2 DEF Larger
<1> QED
  BY <1>1, <1>2, <1>3

\* The auditor chooses its work.
LEMMA AuditorPlansInv ==
    ASSUME AuditInv, AuditorReadFrontier \/ AuditorStart,
           auditStart' = IF lastAudited = Unset THEN lastAudited' ELSE auditStart
    PROVE  AuditorRange' /\ AuditorRepairs' /\ AuditedInv'
<1> USE DEF AuditInv
<1>1. UNCHANGED <<chainVars, docs>>
  BY DEF AuditorReadFrontier, AuditorStart, storeVars
<1>2. \A b : Sound(b)' = Sound(b) /\ StoredTxs(b)' = StoredTxs(b)
  BY <1>1 DEF Sound, StoredTxs, StoredIn, Live, chainVars
<1>3. /\ finalized \in Nat /\ auditor.target \in Nat /\ Origin \in Nat \ {0}
      /\ lastAudited \in Checkpoint
  BY StoreAssumption DEF TypeOK, ChainTypeOK, AuditorTypeOK, StoreTypeOK
<1>4. CASE AuditorReadFrontier
  <2>1. auditor' = [AuditorIdle EXCEPT !.pc = "start", !.target = finalized]
    BY <1>4 DEF AuditorReadFrontier
  <2>2. /\ auditor'.pc = "start" /\ auditor'.target = finalized
        /\ auditor'.changed = {} /\ auditor'.repair = {} /\ auditor'.refresh = {}
    BY <2>1 DEF AuditorIdle
  <2>3. AuditorRange' /\ AuditorRepairs'
    BY <1>1, <1>3, <2>2 DEF AuditorRange, AuditorRepairs, Comparing, chainVars
  <2>4. lastAudited' = lastAudited
    BY <1>4 DEF AuditorReadFrontier, storeVars
  <2>5. \A b \in Audited' : b \in Audited
    <3>1. CASE lastAudited = Unset
      BY <1>3, <2>4, <3>1, NothingAudited
    <3>2. CASE lastAudited # Unset
      BY <2>4, <3>2 DEF Audited
    <3> QED
      BY <3>1, <3>2
  <2> QED
    BY <1>1, <1>2, <2>3, <2>5 DEF AuditedInv, chainVars
<1>5. CASE AuditorStart
  <2> DEFINE checkpoint == IF lastAudited # Unset THEN lastAudited
                           ELSE IF Source = "Starknet" THEN StarknetBootstrap
                           ELSE EthereumBootstrap
             start == Larger(Origin, checkpoint + 1)
  <2>1. /\ auditor.pc = "start" /\ auditor.target <= finalized
        /\ auditor.changed = {} /\ auditor.repair = {} /\ auditor.refresh = {}
    BY <1>5 DEF AuditorStart, AuditorRange
  <2>2. checkpoint \in Nat /\ start \in Nat /\ start = Larger(Origin, checkpoint + 1)
    BY <1>3, BootstrapType DEF TypeOK, StoreTypeOK, Checkpoint, Larger
  <2> HIDE DEF checkpoint, start
  <2>3. \/ /\ start > auditor.target /\ auditor' = AuditorIdle
           /\ lastAudited' = IF Source = "Starknet" /\ lastAudited = Unset
                               THEN auditor.target ELSE checkpoint
        \/ /\ start <= auditor.target /\ lastAudited' = checkpoint
           /\ auditor' = [auditor EXCEPT !.pc = "compare", !.from = start]
    BY <1>3, <1>5, <2>2 DEF AuditorStart, checkpoint, start
  <2>4. lastAudited # Unset => checkpoint = lastAudited
    BY DEF checkpoint
  <2>5. lastAudited' \in Nat
    BY <1>3, <2>2, <2>3
  <2>6. \A b \in Audited' : b \in Audited
    <3>1. CASE lastAudited = Unset
      BY <2>5, <3>1, NothingAudited DEF Checkpoint
    <3>2. CASE lastAudited # Unset
      BY <2>3, <2>4, <3>2 DEF Audited
    <3> QED
      BY <3>1, <3>2
  <2>7. AuditedInv'
    BY <1>1, <1>2, <2>6 DEF AuditedInv, chainVars
  <2>8. AuditorRange' /\ AuditorRepairs'
    <3>1. CASE auditor' = AuditorIdle
      BY <3>1 DEF AuditorRange, AuditorRepairs, AuditorIdle, Comparing
    <3>2. CASE /\ start <= auditor.target /\ lastAudited' = checkpoint
               /\ auditor' = [auditor EXCEPT !.pc = "compare", !.from = start]
      <4>1. /\ auditor'.pc = "compare" /\ auditor'.target = auditor.target
            /\ auditor'.from = start
            /\ auditor'.changed = {} /\ auditor'.repair = {} /\ auditor'.refresh = {}
        BY <2>1, <3>2 DEF TypeOK, AuditorTypeOK
      <4>2. lastAudited' # Unset
        BY <2>5 DEF Unset
      <4> QED
        BY <1>1, <2>1, <2>2, <3>2, <4>1, <4>2
        DEF AuditorRange, AuditorRepairs, Comparing, chainVars
    <3> QED
      BY <2>3, <3>1, <3>2
  <2> QED
    BY <2>7, <2>8
<1> QED
  BY <1>4, <1>5

\* The comparison separates the blocks to repair from those that are sound.
LEMMA AuditorCompareInv ==
    ASSUME AuditInv, AuditorCompare, UNCHANGED auditStart
    PROVE  AuditorRange' /\ AuditorRepairs' /\ AuditedInv'
<1> USE DEF AuditInv
<1> DEFINE blocks == auditor.from..BatchEnd
           logs == Logs(auditor.from, BatchEnd, rpcCache)
           changed == {b \in blocks : IdentityChanged(InBlock(logs, b), InBlock(Live, b))}
           stale == {b \in blocks \ changed :
                       MetadataChanged(InBlock(logs, b), InBlock(Live, b))}
           repair == {e \in logs : e.block \in changed}
           refresh == {e \in logs : e.block \in stale}
<1>1. UNCHANGED <<chain, forks, finalized, docs, lastAudited, auditStart>>
  BY DEF AuditorCompare, chainVars, storeVars
<1>2. /\ auditor.pc = "compare"
      /\ auditor' = [auditor EXCEPT
                       !.pc = IF changed # {} THEN "remove"
                              ELSE IF stale # {} THEN "refresh" ELSE "advance",
                       !.changed = changed,
                       !.txs = {d.tx : d \in {x \in Live : x.block \in changed}},
                       !.repair = repair,
                       !.refresh = refresh]
  BY DEF AuditorCompare
<1>3. /\ auditor'.pc = IF changed # {} THEN "remove"
                       ELSE IF stale # {} THEN "refresh" ELSE "advance"
      /\ auditor'.from = auditor.from /\ auditor'.target = auditor.target
      /\ auditor'.changed = changed /\ auditor'.repair = repair /\ auditor'.refresh = refresh
  <2> HIDE DEF changed, stale, repair, refresh
  <2> QED
    BY <1>2 DEF TypeOK, AuditorTypeOK
<1>4. /\ Comparing /\ Comparing' /\ Batch = blocks /\ Batch' = blocks
  BY <1>2, <1>3 DEF Comparing, Batch, BatchEnd
<1>5. /\ \A b \in blocks : b \in 1..finalized /\ b \in DOMAIN chain
  BY <1>4, BatchIsFinal
<1>6. ASSUME NEW e \in logs
      PROVE  /\ AgreesWithFinal(e) /\ e.block \in blocks
  <2>1. /\ e.block \in blocks /\ e.block \in DOMAIN chain
        /\ e.fork = chain[e.block].fork /\ e.tx \in chain[e.block].txs
    BY LogsCanonical
  <2>2. \A b \in DOMAIN chain : /\ e.tx \in chain[b].txs <=> e.block = b
                                /\ e.block = b => e.fork = chain[b].fork
    BY <2>1, CanonicalAgrees DEF TypeOK
  <2>3. 1..finalized \subseteq DOMAIN chain
    BY DEF TypeOK, ChainTypeOK
  <2> QED
    BY <2>1, <2>2, <2>3 DEF AgreesWithFinal
<1>7. AuditorRange'
  <2>1. \A e \in repair \cup refresh : e.block \in blocks /\ AgreesWithFinal(e)'
    BY <1>1, <1>6 DEF AgreesWithFinal
  <2>2. auditor'.pc # "remove" => repair = {}
    BY <1>3
  <2>3. changed \subseteq blocks
    OBVIOUS
  <2> HIDE DEF changed, stale, repair, refresh, blocks
  <2>4. auditor'.pc \in {"remove", "refresh", "advance"}
    BY <1>3
  <2>5. /\ auditor.target <= finalized /\ lastAudited # Unset
        /\ auditor.from = Larger(Origin, lastAudited + 1) /\ auditor.from <= auditor.target
    BY <1>2, <1>4 DEF AuditorRange
  <2> QED
    BY <1>1, <1>3, <1>4, <2>1, <2>2, <2>3, <2>4, <2>5 DEF AuditorRange
<1>8. AuditorRepairs'
  <2> SUFFICES ASSUME NEW b \in blocks
               PROVE  IF auditor'.pc = "remove" /\ b \in changed
                        THEN chain[b].txs \subseteq Pending(b)'
                        ELSE Sound(b)' /\ chain[b].txs \subseteq StoredTxs(b)' \cup Pending(b)'
    BY <1>1, <1>3, <1>4 DEF AuditorRepairs
  <2>1. CASE b \in changed
    <3>1. auditor'.pc = "remove"
      BY <1>3, <2>1
    <3>2. ASSUME NEW t \in chain[b].txs PROVE t \in Pending(b)'
      <4>1. PICK e \in logs : e.tx = t /\ e.block = b
        BY <1>5, LogsCanonical
      <4>2. e \in auditor'.repair
        BY <1>3, <2>1, <4>1
      <4> QED
        BY <4>1, <4>2 DEF Pending
    <3> QED
      BY <2>1, <3>1, <3>2
  <2>2. CASE b \notin changed
    <3>1. Sound(b) /\ chain[b].txs \subseteq StoredTxs(b)
      BY <1>5, <2>2, CompareSound
    <3>2. Sound(b)' /\ chain[b].txs \subseteq StoredTxs(b)'
      BY <1>1, <3>1 DEF Sound, StoredTxs, StoredIn, Live
    <3> QED
      BY <2>2, <3>2
  <2> QED
    BY <2>1, <2>2
<1>9. AuditedInv'
  BY <1>1 DEF AuditedInv, Audited, Sound, StoredTxs, StoredIn, Live
<1> QED
  BY <1>7, <1>8, <1>9

\* The four writes of a repair, and the refresh of what did not change.
LEMMA AuditorWritesInv ==
    ASSUME AuditInv, UNCHANGED auditStart,
           AuditorRemove \/ AuditorPurge \/ AuditorUpsert \/ AuditorReset \/ AuditorRefresh
    PROVE  StoreInv' /\ AuditorRange' /\ AuditorRepairs' /\ AuditedInv'
<1> USE DEF AuditInv
<1>1. UNCHANGED <<chainVars, lastAudited, auditStart>>
  BY DEF AuditorRemove, AuditorPurge, AuditorUpsert, AuditorReset, AuditorRefresh
<1>2. /\ Comparing /\ auditor.pc # "compare"
  BY DEF AuditorRemove, AuditorPurge, AuditorUpsert, AuditorReset, AuditorRefresh, Comparing
<1>3. \A e : AgreesWithFinal(e)' <=> AgreesWithFinal(e)
  BY <1>1 DEF AgreesWithFinal, chainVars
<1>4. \A b \in Batch : b \in 1..finalized /\ b \in DOMAIN chain /\ b \notin Audited
  BY <1>2, BatchIsFinal
<1>5. \A b \in Audited : b \in 1..finalized
  BY StoreAssumption
  DEF AuditedInv, Audited, Larger, TypeOK, ChainTypeOK, StoreTypeOK, Checkpoint, Unset
<1>6. ASSUME NEW pc, pc \in AuditorPc \ {"idle", "start", "compare"}, auditor'.pc = pc,
             auditor'.from = auditor.from, auditor'.target = auditor.target,
             auditor'.changed = auditor.changed,
             auditor'.repair \subseteq auditor.repair,
             auditor'.refresh \subseteq auditor.refresh,
             pc \in {"reset", "refresh", "advance"} => auditor'.repair = {}
      PROVE  AuditorRange' /\ Batch' = Batch /\ Comparing'
  <2>1. Batch' = Batch /\ Comparing'
    BY <1>6 DEF Batch, BatchEnd, Comparing
  <2>2. /\ auditor.target <= finalized /\ lastAudited # Unset
        /\ auditor.from = Larger(Origin, lastAudited + 1) /\ auditor.from <= auditor.target
        /\ auditor.changed \subseteq Batch
        /\ \A e \in auditor.repair \cup auditor.refresh : e.block \in Batch /\ AgreesWithFinal(e)
    BY <1>2 DEF AuditorRange, Comparing
  <2> QED
    BY <1>1, <1>3, <1>6, <2>1, <2>2 DEF AuditorRange, chainVars
<1>7. ASSUME \A b \in Audited : Kept(b) PROVE AuditedInv'
  BY <1>1, <1>7 DEF AuditedInv, Audited, Kept, chainVars
<1>8. \A b \in Batch :
        IF auditor.pc = "remove" /\ b \in auditor.changed
          THEN chain[b].txs \subseteq Pending(b)
          ELSE Sound(b) /\ chain[b].txs \subseteq StoredTxs(b) \cup Pending(b)
  BY <1>2 DEF AuditorRepairs
<1>9. ASSUME NEW pc, auditor'.pc = pc, pc # "remove", Batch' = Batch,
             \A b \in Batch :
               Sound(b)' /\ chain[b].txs \subseteq StoredTxs(b)' \cup Pending(b)'
      PROVE  AuditorRepairs'
  BY <1>1, <1>9 DEF AuditorRepairs, chainVars
<1>10. CASE AuditorRemove
  <2>1. auditor.pc = "remove" /\ auditor' = [auditor EXCEPT !.pc = "purge"]
    BY <1>10 DEF AuditorRemove
  <2>2. /\ auditor'.pc = "purge" /\ auditor'.from = auditor.from
        /\ auditor'.target = auditor.target /\ auditor'.changed = auditor.changed
        /\ auditor'.repair = auditor.repair /\ auditor'.refresh = auditor.refresh
    BY <2>1 DEF TypeOK, AuditorTypeOK
  <2>3. AuditorRange' /\ Batch' = Batch
    BY <1>6, <2>2 DEF AuditorPc
  <2>4. /\ StoreInv' /\ \A b : b \notin auditor.changed => Kept(b)
        /\ \A b \in auditor.changed : StoredIn(b)' = {}
    BY <1>1, <1>10, RemoveKeeps DEF AuditorRemove, TypeOK
  <2>5. ASSUME NEW b \in Batch
        PROVE  Sound(b)' /\ chain[b].txs \subseteq StoredTxs(b)' \cup Pending(b)'
    <3>1. Pending(b)' = Pending(b)
      BY <2>2 DEF Pending
    <3>2. CASE b \in auditor.changed
      BY <1>8, <2>1, <2>4, <3>1, <3>2 DEF Sound
    <3>3. CASE b \notin auditor.changed
      BY <1>8, <2>4, <3>1, <3>3 DEF Kept
    <3> QED
      BY <3>2, <3>3
  <2>6. AuditedInv'
    <3>1. auditor.changed \subseteq Batch
      BY DEF AuditorRange
    <3> QED
      BY <1>4, <1>7, <2>4, <3>1
  <2> QED
    BY <1>9, <2>2, <2>3, <2>4, <2>5, <2>6
<1>11. CASE AuditorPurge
  <2>1. /\ auditor.pc = "purge" /\ docs' = docs
        /\ auditor' = [auditor EXCEPT !.pc = IF auditor.repair = {} THEN "reset" ELSE "upsert"]
    BY <1>11 DEF AuditorPurge
  <2>2. /\ auditor'.pc = IF auditor.repair = {} THEN "reset" ELSE "upsert"
        /\ auditor'.from = auditor.from
        /\ auditor'.target = auditor.target /\ auditor'.changed = auditor.changed
        /\ auditor'.repair = auditor.repair /\ auditor'.refresh = auditor.refresh
    BY <2>1 DEF TypeOK, AuditorTypeOK
  <2>3. AuditorRange' /\ Batch' = Batch
    BY <1>6, <2>2 DEF AuditorPc
  <2>4. \A b \in 1..finalized : Kept(b)
    BY <1>1, <2>1, KeptWithDocs DEF chainVars
  <2>5. ASSUME NEW b \in Batch
        PROVE  Sound(b)' /\ chain[b].txs \subseteq StoredTxs(b)' \cup Pending(b)'
    <3>1. Pending(b)' = Pending(b)
      BY <2>2 DEF Pending
    <3> QED
      BY <1>4, <1>8, <2>1, <2>4, <3>1 DEF Kept
  <2>6. AuditedInv' /\ StoreInv'
    BY <1>5, <1>7, <2>1, <2>4 DEF StoreInv
  <2> QED
    BY <1>9, <2>2, <2>3, <2>5, <2>6
<1>12. CASE AuditorUpsert
  <2>1. auditor.pc = "upsert"
    BY <1>12 DEF AuditorUpsert
  <2>2. PICK e \in auditor.repair :
          /\ UpdateOrCreate(e)
          /\ auditor' = [auditor EXCEPT
               !.repair = auditor.repair \ {e},
               !.pc = IF auditor.repair \ {e} = {} THEN "reset" ELSE "upsert"]
    BY <1>12 DEF AuditorUpsert
  <2>3. /\ auditor'.pc = IF auditor.repair \ {e} = {} THEN "reset" ELSE "upsert"
        /\ auditor'.from = auditor.from
        /\ auditor'.target = auditor.target /\ auditor'.changed = auditor.changed
        /\ auditor'.repair = auditor.repair \ {e} /\ auditor'.refresh = auditor.refresh
    BY <2>2 DEF TypeOK, AuditorTypeOK
  <2>4. AuditorRange' /\ Batch' = Batch
    BY <1>6, <2>3 DEF AuditorPc
  <2>5. e \in ChainEvent /\ AgreesWithFinal(e) /\ e.block \in Batch
    BY DEF AuditorRange, TypeOK, AuditorTypeOK
  <2>6. /\ StoreInv' /\ \A b \in 1..finalized : Kept(b)
        /\ e.block \in 1..finalized => e.tx \in StoredTxs(e.block)'
    BY <1>1, <2>2, <2>5, UpsertKeeps DEF TypeOK
  <2>7. ASSUME NEW b \in Batch
        PROVE  Sound(b)' /\ chain[b].txs \subseteq StoredTxs(b)' \cup Pending(b)'
    <3>1. ASSUME NEW t \in Pending(b) PROVE t \in Pending(b)' \/ t \in StoredTxs(b)'
      BY <1>4, <2>3, <2>5, <2>6 DEF Pending
    <3>2. Sound(b) /\ chain[b].txs \subseteq StoredTxs(b) \cup Pending(b)
      BY <1>8, <2>1
    <3> QED
      BY <1>4, <2>6, <3>1, <3>2 DEF Kept
  <2>8. AuditedInv'
    BY <1>5, <1>7, <2>6
  <2> QED
    BY <1>9, <2>3, <2>4, <2>6, <2>7, <2>8
<1>13. CASE AuditorReset
  <2>1. /\ auditor.pc = "reset" /\ \E b : ResetLastProcessedFromBlock(b)
        /\ auditor' = [auditor EXCEPT !.pc = IF auditor.refresh = {} THEN "advance" ELSE "refresh"]
    BY <1>13 DEF AuditorReset
  <2>2. /\ auditor'.pc = IF auditor.refresh = {} THEN "advance" ELSE "refresh"
        /\ auditor'.from = auditor.from
        /\ auditor'.target = auditor.target /\ auditor'.changed = auditor.changed
        /\ auditor'.repair = auditor.repair /\ auditor'.refresh = auditor.refresh
    BY <2>1 DEF TypeOK, AuditorTypeOK
  <2>3. auditor.repair = {}
    BY <2>1 DEF AuditorRange
  <2>4. AuditorRange' /\ Batch' = Batch
    BY <1>6, <2>2, <2>3 DEF AuditorPc
  <2>5. StoreInv' /\ \A b : Kept(b)
    BY <1>1, <2>1, StampKeeps DEF TypeOK
  <2>6. ASSUME NEW b \in Batch
        PROVE  Sound(b)' /\ chain[b].txs \subseteq StoredTxs(b)' \cup Pending(b)'
    <3>1. Pending(b)' = Pending(b)
      BY <2>2 DEF Pending
    <3> QED
      BY <1>8, <2>1, <2>5, <3>1 DEF Kept
  <2>7. AuditedInv'
    BY <1>7, <2>5
  <2> QED
    BY <1>9, <2>2, <2>4, <2>5, <2>6, <2>7
<1>14. CASE AuditorRefresh
  <2>1. auditor.pc = "refresh" /\ auditor.repair = {}
    BY <1>14 DEF AuditorRefresh, AuditorRange
  <2>2. PICK e \in auditor.refresh :
          /\ UpdateOrCreate(e)
          /\ auditor' = [auditor EXCEPT
               !.refresh = auditor.refresh \ {e},
               !.pc = IF auditor.refresh \ {e} = {} THEN "advance" ELSE "refresh"]
    BY <1>14 DEF AuditorRefresh
  <2>3. /\ auditor'.pc = IF auditor.refresh \ {e} = {} THEN "advance" ELSE "refresh"
        /\ auditor'.from = auditor.from
        /\ auditor'.target = auditor.target /\ auditor'.changed = auditor.changed
        /\ auditor'.refresh = auditor.refresh \ {e} /\ auditor'.repair = auditor.repair
    BY <2>2 DEF TypeOK, AuditorTypeOK
  <2>4. AuditorRange' /\ Batch' = Batch
    BY <1>6, <2>1, <2>3 DEF AuditorPc
  <2>5. e \in ChainEvent /\ AgreesWithFinal(e)
    BY DEF AuditorRange, TypeOK, AuditorTypeOK
  <2>6. StoreInv' /\ \A b \in 1..finalized : Kept(b)
    BY <1>1, <2>2, <2>5, UpsertKeeps DEF TypeOK
  <2>7. ASSUME NEW b \in Batch
        PROVE  Sound(b)' /\ chain[b].txs \subseteq StoredTxs(b)' \cup Pending(b)'
    <3>1. Pending(b)' = Pending(b)
      BY <2>3 DEF Pending
    <3> QED
      BY <1>4, <1>8, <2>1, <2>6, <3>1 DEF Kept
  <2>8. AuditedInv'
    BY <1>5, <1>7, <2>6
  <2> QED
    BY <1>9, <2>3, <2>4, <2>6, <2>7, <2>8
<1> QED
  BY <1>10, <1>11, <1>12, <1>13, <1>14

\* The blocks passed are extended by a batch at most.
LEMMA AdvanceAudited ==
    ASSUME TypeOK, AuditorRange, Comparing, lastAudited' = BatchEnd, UNCHANGED auditStart
    PROVE  \A b \in Audited' : b \in Audited \/ b \in Batch
<1>1. BatchEnd \in Nat /\ auditor.from <= BatchEnd
  BY BatchIsFinal
<1>2. /\ auditor.from \in Nat /\ lastAudited \in Nat /\ Origin \in Nat \ {0} /\ auditStart \in Int
      /\ auditor.from = Larger(Origin, lastAudited + 1)
  BY StoreAssumption
  DEF TypeOK, AuditorTypeOK, StoreTypeOK, Checkpoint, Unset, AuditorRange, Comparing
<1> SUFFICES ASSUME NEW b \in Audited' PROVE b \in Audited \/ b \in Batch
  OBVIOUS
<1>3. Audited' = Larger(Origin, auditStart + 1)..BatchEnd
  BY DEF Audited
<1>4. Larger(Origin, auditStart + 1) \in Int /\ Origin <= Larger(Origin, auditStart + 1)
  BY <1>2 DEF Larger
<1>5. b \in Int /\ Larger(Origin, auditStart + 1) <= b /\ b <= BatchEnd
  BY <1>1, <1>3, <1>4
<1>6. CASE b <= lastAudited
  BY <1>2, <1>4, <1>5, <1>6 DEF Audited
<1>7. CASE lastAudited < b
  BY <1>1, <1>2, <1>4, <1>5, <1>7 DEF Batch, Larger
<1> QED
  BY <1>2, <1>5, <1>6, <1>7

\* The checkpoint advances over blocks that are sound and complete by then.
LEMMA AuditorAdvanceInv ==
    ASSUME AuditInv, AuditorAdvance, UNCHANGED auditStart
    PROVE  AuditorRange' /\ AuditorRepairs' /\ AuditedInv'
<1> USE DEF AuditInv
<1>1. /\ UNCHANGED <<chain, finalized, docs, auditStart>> /\ lastAudited' = BatchEnd
      /\ auditor.pc = "advance"
      /\ auditor' = IF BatchEnd = auditor.target THEN AuditorIdle
                    ELSE [AuditorIdle EXCEPT !.pc = "compare", !.from = BatchEnd + 1,
                                             !.target = auditor.target]
  BY DEF AuditorAdvance, chainVars
<1>2. /\ Comparing /\ auditor.pc # "compare" /\ auditor.pc # "remove" /\ auditor.repair = {}
  BY <1>1 DEF Comparing, AuditorRange
<1>3. /\ BatchEnd \in Nat /\ BatchEnd <= finalized /\ auditor.from <= BatchEnd
      /\ \A b \in Batch : b \in 1..finalized
  BY <1>2, BatchIsFinal
<1>4. /\ auditor.from \in Nat /\ auditor.target \in Nat /\ finalized \in Nat
      /\ lastAudited \in Nat /\ Origin \in Nat \ {0} /\ auditStart \in Int
      /\ auditor.from = Larger(Origin, lastAudited + 1) /\ auditor.target <= finalized
      /\ auditor.from <= auditor.target
  BY <1>2, StoreAssumption
  DEF TypeOK, AuditorTypeOK, ChainTypeOK, StoreTypeOK, Checkpoint, Unset, AuditorRange, Comparing
<1>5. ASSUME NEW b \in Batch PROVE Sound(b) /\ chain[b].txs \subseteq StoredTxs(b)
  BY <1>2 DEF AuditorRepairs, Pending
<1>6. \A b \in Audited' : b \in Audited \/ b \in Batch
  BY <1>1, <1>2, AdvanceAudited
<1>7. AuditedInv'
  <2>1. ASSUME NEW b \in Audited'
        PROVE  b <= finalized /\ Sound(b) /\ chain[b].txs \subseteq StoredTxs(b)
    BY <1>3, <1>5, <1>6 DEF AuditedInv
  <2> QED
    BY <1>1, <2>1 DEF AuditedInv, Sound, StoredTxs, StoredIn, Live
<1>8. AuditorRange' /\ AuditorRepairs'
  <2>1. CASE BatchEnd = auditor.target
    <3>1. auditor' = AuditorIdle
      BY <1>1, <2>1
    <3> QED
      BY <3>1 DEF AuditorRange, AuditorRepairs, AuditorIdle, Comparing
  <2>2. CASE BatchEnd # auditor.target
    <3>1. auditor' = [AuditorIdle EXCEPT !.pc = "compare", !.from = BatchEnd + 1,
                                         !.target = auditor.target]
      BY <1>1, <2>2
    <3>2. AuditorIdle \in [pc : {"idle"}, from : Nat, target : Nat, changed : {{}}, txs : {{}},
                           repair : {{}}, refresh : {{}}]
      BY DEF AuditorIdle
    <3>3. /\ auditor'.pc = "compare" /\ auditor'.from = BatchEnd + 1
          /\ auditor'.target = auditor.target /\ auditor'.changed = {}
          /\ auditor'.repair = {} /\ auditor'.refresh = {}
      BY <3>1, <3>2
    <3>4. BatchEnd <= auditor.target /\ BatchEnd + 1 <= auditor.target
      BY <1>3, <1>4, <2>2, StoreAssumption DEF BatchEnd, Smaller
    <3>5. BatchEnd + 1 = Larger(Origin, BatchEnd + 1)
      BY <1>3, <1>4 DEF Larger
    <3>6. lastAudited' # Unset
      BY <1>1, <1>3 DEF Unset
    <3> QED
      BY <1>1, <1>4, <3>3, <3>4, <3>5, <3>6 DEF AuditorRange, AuditorRepairs, Comparing
  <2> QED
    BY <2>1, <2>2
<1> QED
  BY <1>7, <1>8

LEMMA AuditStepInv ==
    ASSUME AuditInv, Audit
    PROVE  /\ ChainInv' /\ StoreInv' /\ RetrieverInv'
           /\ AuditorRange' /\ AuditorRepairs' /\ AuditedInv'
<1>1. UNCHANGED <<chainVars, retriever>>
  BY DEF Audit, AuditorStep, AuditorReadFrontier, AuditorStart, AuditorCompare,
     AuditorRemove, AuditorPurge, AuditorUpsert, AuditorReset, AuditorRefresh, AuditorAdvance
<1>2. ChainInv' /\ RetrieverInv'
  BY <1>1 DEF AuditInv, ChainInv, RetrieverInv, ReadFromChain, AgreesWithFinal, IsCanonical,
     HeadBlock, chainVars
<1>3. auditStart' = IF lastAudited = Unset THEN lastAudited' ELSE auditStart
  BY DEF Audit
<1>4. CASE AuditorReadFrontier \/ AuditorStart
  <2>1. StoreInv'
    BY <1>4 DEF AuditorReadFrontier, AuditorStart, AuditInv, StoreInv, storeVars
  <2> QED
    BY <1>2, <1>3, <1>4, <2>1, AuditorPlansInv
<1>5. ASSUME Comparing PROVE UNCHANGED auditStart
  BY <1>3, <1>5 DEF AuditInv, AuditorRange
<1>6. CASE AuditorCompare
  <2>1. StoreInv' /\ Comparing
    BY <1>6 DEF AuditorCompare, AuditInv, StoreInv, storeVars, Comparing
  <2> QED
    BY <1>2, <1>5, <1>6, <2>1, AuditorCompareInv
<1>7. CASE AuditorRemove \/ AuditorPurge \/ AuditorUpsert \/ AuditorReset \/ AuditorRefresh
  <2>1. Comparing
    BY <1>7 DEF AuditorRemove, AuditorPurge, AuditorUpsert, AuditorReset, AuditorRefresh,
       Comparing
  <2> QED
    BY <1>2, <1>5, <1>7, <2>1, AuditorWritesInv
<1>8. CASE AuditorAdvance
  <2>1. StoreInv' /\ Comparing
    BY <1>8 DEF AuditorAdvance, AuditInv, StoreInv, Comparing
  <2> QED
    BY <1>2, <1>5, <1>8, <2>1, AuditorAdvanceInv
<1> QED
  BY <1>4, <1>6, <1>7, <1>8 DEF Audit, AuditorStep

-----------------------------------------------------------------------------
(* The theorems.                                                           *)

LEMMA AuditInvInit == Init => AuditInv
<1> SUFFICES ASSUME Init PROVE AuditInv
  OBVIOUS
<1>1. TypeOK
  BY TypeInit
<1>2. ChainInv /\ RetrieverInv
  BY DEF Init, ChainInit, RetrieverInit, RetrieverIdle, ChainInv, RetrieverInv
<1>3. StoreInv
  BY FS_EmptySet DEF Init, StoreInit, StoreInv
<1>4. AuditorRange /\ AuditorRepairs
  BY DEF Init, AuditorInit, AuditorIdle, AuditorRange, AuditorRepairs, Comparing
<1>5. AuditedInv
  BY StoreAssumption DEF Init, StoreInit, AuditedInv, Audited, Larger, Unset
<1> QED
  BY <1>1, <1>2, <1>3, <1>4, <1>5 DEF AuditInv

LEMMA AuditInvNext ==
    ASSUME AuditInv, [Next]_vars, SlowRetriever = FALSE
    PROVE  AuditInv'
<1>1. TypeOK'
  BY TypeNext DEF AuditInv
<1>2. CASE ChainGrows
  BY <1>1, <1>2, ChainGrowsInv DEF AuditInv
<1>3. CASE BlockFinalized
  BY <1>1, <1>3, BlockFinalizedInv DEF AuditInv
<1>4. CASE Retrieve
  BY <1>1, <1>4, RetrieveInv DEF AuditInv
<1>5. CASE Audit
  BY <1>1, <1>5, AuditStepInv DEF AuditInv
<1>6. CASE Process
  BY <1>1, <1>6, ProcessInv DEF AuditInv
<1>7. CASE Fail
  BY <1>1, <1>7, FailInv DEF AuditInv
<1>8. CASE CacheExpires \/ UNCHANGED vars
  <2>1. UNCHANGED <<chainVars, docs, retriever, auditor, lastAudited, auditStart>>
    BY <1>8 DEF CacheExpires, vars, storeVars, history
  <2>2. StoreInv' /\ \A b \in 1..finalized : Kept(b)
    BY <2>1, KeptWithDocs DEF AuditInv, StoreInv, chainVars
  <2> QED
    BY <1>1, <2>1, <2>2, QuietInv DEF AuditInv
<1> QED
  BY <1>2, <1>3, <1>4, <1>5, <1>6, <1>7, <1>8 DEF Next

\* The invariant says what AuditedCanonical does.
LEMMA AuditInvImplies == AuditInv => AuditedCanonical
<1> SUFFICES ASSUME AuditInv, NEW b \in Audited
             PROVE  /\ {Identity(d) : d \in StoredIn(b)} = Canonical(b)
                    /\ \A d, e \in StoredIn(b) : d.tx = e.tx => d = e
  BY DEF AuditedCanonical
<1>1. Sound(b) /\ chain[b].txs \subseteq StoredTxs(b)
  BY DEF AuditInv, AuditedInv
<1>2. ASSUME NEW d \in StoredIn(b)
      PROVE  Identity(d) = [tx |-> d.tx, block |-> b, fork |-> chain[b].fork]
  BY <1>1 DEF Identity, Sound, StoredIn
<1>3. ASSUME NEW d \in StoredIn(b) PROVE Identity(d) \in Canonical(b)
  BY <1>1, <1>2 DEF Canonical, Sound
<1>4. ASSUME NEW t \in chain[b].txs
      PROVE  \E d \in StoredIn(b) : Identity(d) = [tx |-> t, block |-> b, fork |-> chain[b].fork]
  BY <1>1, <1>2 DEF StoredTxs
<1>5. ASSUME NEW d \in StoredIn(b), NEW e \in StoredIn(b), d.tx = e.tx PROVE d = e
  <2>1. d \in docs /\ e \in docs /\ ~d.removed /\ ~e.removed /\ SameLog(d, e)
    BY <1>1, <1>5 DEF StoredIn, Live, SameLog, Sound
  <2> QED
    BY <1>5, <2>1 DEF AuditInv, StoreInv
<1> QED
  BY <1>3, <1>4, <1>5 DEF Canonical

\* Once the auditor (auditOnce) has passed a block the events collection holds
\* exactly the canonical logs of it, for ever, whatever the interleaving with the
\* retriever, the processor, reorganisations and failures, for both chains and
\* any batch size and lookback, as long as finality does not overtake logs of
\* orphaned blocks that the retriever still holds.
THEOREM AuditCorrect == SlowRetriever = FALSE => (Spec => []AuditedCanonical)
<1> SUFFICES ASSUME SlowRetriever = FALSE PROVE Spec => []AuditedCanonical
  OBVIOUS
<1>1. AuditInv /\ [Next]_vars => AuditInv'
  BY AuditInvNext
<1> QED
  BY AuditInvInit, AuditInvImplies, <1>1, PTL DEF Spec

\* What makes it so: AuditInv holds in every reachable state, of either chain,
\* whatever the batch size and the lookbacks (Base.js, starknet.js, ethereum.js).
THEOREM AuditInvCorrect == SlowRetriever = FALSE => (Spec => []AuditInv)
<1> SUFFICES ASSUME SlowRetriever = FALSE PROVE Spec => []AuditInv
  OBVIOUS
<1>1. AuditInv /\ [Next]_vars => AuditInv'
  BY AuditInvNext
<1> QED
  BY AuditInvInit, <1>1, PTL DEF Spec

-----------------------------------------------------------------------------
(* The status of audited blocks.                                           *)

\* A write leaves block b with no status it did not have, except acceptance.
StatusKept(b) ==
    \A d \in StoredIn(b)' :
      Accepted(d) \/ \E c \in StoredIn(b) : c.tx = d.tx /\ c.status = d.status

\* Only a block the cache answers for is added to those it has answered for.
LEMMA MisreadGrows ==
    ASSUME [Next]_vars
    PROVE  misread \subseteq misread' /\ \A d : Accepted(d) => Accepted(d)'
<1>1. misread \subseteq misread'
  BY DEF Next, ChainGrows, BlockFinalized, CacheExpires, Retrieve, Audit, Process, Fail, vars,
     history
<1> QED
  BY <1>1 DEF Accepted

\* A stored event of block b is accepted if b was misread, whatever it says.
LEMMA AcceptedAudited ==
    AcceptedUnlessMisread <=>
      (Source = "Starknet" => \A b \in Audited : \A d \in StoredIn(b) : Accepted(d))
BY DEF AcceptedUnlessMisread, Accepted, StoredIn

LEMMA UpsertStatus ==
    ASSUME StoreTypeOK, StoreInv, NEW e \in ChainEvent, UpdateOrCreate(e),
           NEW b, Accepted(e) \/ e.block # b
    PROVE  StatusKept(b)
<1>1. PICK new \in docs', old \in SUBSET docs :
             /\ docs' = (docs \ old) \cup {new}
             /\ SameLog(new, e) /\ new.status = e.status
  BY UpsertForm
<1> QED
  BY <1>1 DEF StatusKept, StoredIn, Live, SameLog, Accepted

\* The document of a log accepted on L1 is, once it is written.
LEMMA UpsertAccepts ==
    ASSUME Source = "Starknet", StoreTypeOK, StoreInv, NEW e \in ChainEvent,
           UpdateOrCreate(e), Accepted(e),
           NEW d \in docs', ~d.removed, d.tx = e.tx
    PROVE  Accepted(d)
<1>1. PICK new \in docs', old \in SUBSET docs :
             /\ docs' = (docs \ old) \cup {new}
             /\ SameLog(new, e) /\ new.removed = FALSE /\ new.status = e.status
             /\ \A x \in docs \ old : ~Clash(x, new)
  BY UpsertForm
<1>2. d # new => Clash(d, new)
  BY <1>1 DEF Clash, SameLog
<1> QED
  BY <1>1, <1>2 DEF Accepted, SameLog

LEMMA MarkStatus ==
    ASSUME StoreTypeOK,
           \/ docs' = docs
           \/ \E s : docs' = Stamped(s)
           \/ \E b : ResetLastProcessedFromBlock(b)
           \/ \E blocks : UpdateManyAsRemoved(blocks)
    PROVE  \A b : StatusKept(b)
<1>1. ASSUME NEW d \in docs'
      PROVE  \E c \in docs : /\ c.tx = d.tx /\ c.block = d.block /\ c.status = d.status
                             /\ ~d.removed => ~c.removed
  <2>1. CASE docs' = docs
    BY <2>1
  <2>2. CASE \E s : docs' = Stamped(s)
    BY <2>2 DEF Stamped, StoreTypeOK, Doc
  <2>3. CASE \E b : ResetLastProcessedFromBlock(b)
    BY <2>3 DEF ResetLastProcessedFromBlock, StoreTypeOK, Doc
  <2>4. CASE \E blocks : UpdateManyAsRemoved(blocks)
    <3>1. PICK blocks : UpdateManyAsRemoved(blocks)
      BY <2>4
    <3>2. PICK c \in docs : d = IF c.block \in blocks /\ ~c.removed
                                  THEN [c EXCEPT !.removed = TRUE, !.done = FALSE] ELSE c
      BY <3>1 DEF UpdateManyAsRemoved
    <3>3. c \in Doc
      BY DEF StoreTypeOK
    <3>4. c.tx = d.tx /\ c.block = d.block /\ c.status = d.status /\ (~d.removed => ~c.removed)
      BY <3>2, <3>3 DEF Doc
    <3> QED
      BY <3>4
  <2> QED
    BY <2>1, <2>2, <2>3, <2>4
<1> QED
  BY <1>1 DEF StatusKept, StoredIn, Live

\* The blocks up to finalized are all that the audit is about.
LEMMA AuditIsFinal ==
    ASSUME AuditInv
    PROVE  /\ Comparing => \A b \in Batch : b \in 1..finalized /\ b \in DOMAIN chain
           /\ \A b \in Audited : b \in 1..finalized
<1>1. Comparing => \A b \in Batch : b \in 1..finalized /\ b \in DOMAIN chain
  BY BatchIsFinal DEF AuditInv
<1>2. ASSUME NEW b \in Audited PROVE b \in 1..finalized
  <2>1. /\ b \in Larger(Origin, auditStart + 1)..lastAudited /\ b <= finalized
        /\ auditStart \in Int /\ lastAudited \in Int /\ finalized \in Nat
    BY DEF AuditInv, AuditedInv, Audited, TypeOK, ChainTypeOK, StoreTypeOK, Checkpoint, Unset
  <2>2. Larger(Origin, auditStart + 1) \in Int /\ Larger(Origin, auditStart + 1) >= 1
    BY <2>1, StoreAssumption DEF Larger
  <2> QED
    BY <2>1, <2>2
<1> QED
  BY <1>1, <1>2

LEMMA OthersKeepStatus ==
    ASSUME Source = "Starknet", AuditInv, StatusesRepaired, AcceptedUnlessMisread, [Next]_vars,
           UNCHANGED <<auditor, lastAudited, auditStart>>,
           \A b \in 1..finalized : StatusKept(b)
    PROVE  StatusesRepaired' /\ AcceptedUnlessMisread'
<1>0. \A d : Accepted(d) => Accepted(d)'
  BY MisreadGrows
<1>1. Batch' = Batch /\ Comparing' = Comparing /\ Audited' = Audited
  BY DEF Batch, BatchEnd, Comparing, Audited
<1>2. ASSUME Comparing, auditor.pc # "compare", NEW b \in Batch, NEW d \in StoredIn(b)'
      PROVE  \/ auditor.pc = "remove" /\ b \in auditor.changed
             \/ Accepted(d)
             \/ \E e \in auditor.refresh : e.tx = d.tx
  <2>1. Accepted(d) \/ \E c \in StoredIn(b) : c.tx = d.tx /\ c.status = d.status
    BY <1>2, AuditIsFinal DEF StatusKept
  <2> QED
    BY <1>2, <2>1 DEF StatusesRepaired, Accepted, StoredIn
<1>3. StatusesRepaired'
  BY <1>0, <1>1, <1>2 DEF StatusesRepaired
<1>4. ASSUME NEW b \in Audited, NEW d \in StoredIn(b)' PROVE Accepted(d)
  <2>1. Accepted(d) \/ \E c \in StoredIn(b) : c.tx = d.tx /\ c.status = d.status
    BY <1>4, AuditIsFinal DEF StatusKept
  <2> QED
    BY <1>4, <2>1, AcceptedAudited DEF Accepted, StoredIn
<1>5. \A b \in Audited' : \A d \in StoredIn(b)' : Accepted(d)'
  BY <1>0, <1>1, <1>4
<1> QED
  BY <1>3, <1>5 DEF AcceptedUnlessMisread, Accepted, StoredIn

\* Where no write of a status is possible.
LEMMA QuietStatus ==
    ASSUME Source = "Starknet", AuditInv, StatusesRepaired, AcceptedUnlessMisread, [Next]_vars,
           UNCHANGED <<auditor, lastAudited, auditStart>>,
           \/ docs' = docs
           \/ \E s : docs' = Stamped(s)
    PROVE  StatusesRepaired' /\ AcceptedUnlessMisread'
<1>1. \A b : StatusKept(b)
  BY MarkStatus DEF AuditInv, TypeOK
<1> QED
  BY <1>1, OthersKeepStatus

LEMMA RetrieveStatus ==
    ASSUME Source = "Starknet", AuditInv, StatusesRead, StatusesRepaired, AcceptedUnlessMisread,
           Retrieve, [Next]_vars
    PROVE  StatusesRead' /\ StatusesRepaired' /\ AcceptedUnlessMisread'
<1>0. TypeOK
  BY DEF AuditInv
<1>1. /\ UNCHANGED <<chainVars, auditor, lastAudited, auditStart>>
      /\ \A d : Accepted(d) => Accepted(d)'
  BY MisreadGrows DEF Retrieve, RetrieverStep, RetrieverBootstrap, RetrieverReadHead,
     RetrieverPull, RetrieverSave, RetrieverAdvance
<1>2. CASE RetrieverSave
  <2>1. PICK e \in retriever.events :
          /\ UpdateOrCreate(e)
          /\ retriever' = [retriever EXCEPT
                            !.events = retriever.events \ {e},
                            !.pc = IF retriever.events \ {e} = {} THEN "advance" ELSE "save"]
    BY <1>2 DEF RetrieverSave
  <2>2. e \in ChainEvent /\ (Accepted(e) \/ e.block > finalized) /\ finalized \in Nat
    BY <1>0 DEF StatusesRead, TypeOK, RetrieverTypeOK, ChainEvent, ChainTypeOK
  <2>3. \A b \in 1..finalized : Accepted(e) \/ e.block # b
    BY <2>2
  <2>4. \A b \in 1..finalized : StatusKept(b)
    BY <1>0, <2>1, <2>2, <2>3, UpsertStatus DEF AuditInv, TypeOK
  <2>5. retriever'.events \subseteq retriever.events
    BY <1>0, <2>1 DEF TypeOK, RetrieverTypeOK
  <2>6. StatusesRead'
    BY <1>1, <2>1, <2>5 DEF StatusesRead, chainVars
  <2> QED
    BY <1>1, <2>4, <2>6, OthersKeepStatus
<1>3. CASE RetrieverPull
  <2> DEFINE events == Logs(retriever.from, retriever.to, rpcCache)
  <2>1. retriever'.events = events /\ docs' = docs /\ retriever.pc = "pull"
    BY <1>0, <1>3 DEF RetrieverPull, TypeOK, RetrieverTypeOK
  <2>2. ASSUME NEW e \in events PROVE e.block > finalized \/ Accepted(e)'
    <3>1. e.status \in {"L1", "L2"} /\ e.block \in Nat /\ finalized \in Nat
      BY <1>0, LogsType, ChainAssumption DEF TypeOK, ChainTypeOK, ChainEvent, Heights
    <3>2. misread' = misread \cup Misread(events)
      BY <2>1 DEF Retrieve
    <3> HIDE DEF events
    <3>3. e.status = "L2" /\ e.block <= finalized => e.block \in misread'
      BY <3>2 DEF Misread
    <3> QED
      BY <3>1, <3>3 DEF Accepted
  <2>3. StatusesRead'
    BY <1>1, <2>1, <2>2 DEF StatusesRead, chainVars
  <2> QED
    BY <1>1, <2>1, <2>3, QuietStatus
<1>4. CASE RetrieverBootstrap \/ RetrieverReadHead \/ RetrieverAdvance
  <2>1. docs' = docs
    BY <1>4 DEF RetrieverBootstrap, RetrieverReadHead, RetrieverAdvance
  <2>2. retriever'.events \subseteq retriever.events
    <3>1. /\ RetrieverIdle.events = {}
          /\ RetrieverIdle \in [pc : {"idle"}, from : Nat, to : Nat, events : {{}}]
      BY DEF RetrieverIdle
    <3>2. \A from, to : [RetrieverIdle EXCEPT !.pc = "pull", !.from = from, !.to = to].events = {}
      BY <3>1
    <3>3. CASE RetrieverReadHead
      BY <3>2, <3>3 DEF RetrieverReadHead
    <3>4. CASE RetrieverBootstrap \/ RetrieverAdvance
      BY <3>1, <3>4 DEF RetrieverBootstrap, RetrieverAdvance
    <3> QED
      BY <1>4, <3>3, <3>4
  <2>3. StatusesRead'
    BY <1>1, <2>1, <2>2 DEF StatusesRead, chainVars
  <2> QED
    BY <1>1, <2>1, <2>3, QuietStatus
<1> QED
  BY <1>2, <1>3, <1>4 DEF Retrieve, RetrieverStep

\* The comparison holds logs accepted on L1, and all that are to be refreshed.
LEMMA AuditorCompareStatus ==
    ASSUME Source = "Starknet", AuditInv, AcceptedUnlessMisread,
           Audit, AuditorCompare, UNCHANGED auditStart, [Next]_vars
    PROVE  StatusesRepaired' /\ AcceptedUnlessMisread'
<1>0. TypeOK
  BY DEF AuditInv
<1> DEFINE blocks == auditor.from..BatchEnd
           logs == Logs(auditor.from, BatchEnd, rpcCache)
           changed == {b \in blocks : IdentityChanged(InBlock(logs, b), InBlock(Live, b))}
           stale == {b \in blocks \ changed :
                       MetadataChanged(InBlock(logs, b), InBlock(Live, b))}
           repair == {e \in logs : e.block \in changed}
           refresh == {e \in logs : e.block \in stale}
<1>1. UNCHANGED <<chain, docs, lastAudited, auditStart>>
  BY DEF AuditorCompare, chainVars, storeVars
<1>2. /\ auditor.pc = "compare"
      /\ auditor' = [auditor EXCEPT
                       !.pc = IF changed # {} THEN "remove"
                              ELSE IF stale # {} THEN "refresh" ELSE "advance",
                       !.changed = changed,
                       !.txs = {d.tx : d \in {x \in Live : x.block \in changed}},
                       !.repair = repair,
                       !.refresh = refresh]
  BY DEF AuditorCompare
<1>3. /\ auditor'.pc = IF changed # {} THEN "remove"
                       ELSE IF stale # {} THEN "refresh" ELSE "advance"
      /\ auditor'.from = auditor.from /\ auditor'.target = auditor.target
      /\ auditor'.changed = changed /\ auditor'.repair = repair /\ auditor'.refresh = refresh
  <2> HIDE DEF changed, stale, repair, refresh
  <2> QED
    BY <1>0, <1>2 DEF TypeOK, AuditorTypeOK
<1>4. Comparing /\ Batch = blocks /\ Batch' = blocks
  BY <1>2, <1>3 DEF Comparing, Batch, BatchEnd
<1>5. \A b \in blocks : b \in 1..finalized /\ b \in DOMAIN chain
  BY <1>4, AuditIsFinal
<1>6. ASSUME NEW e \in logs PROVE Accepted(e)' /\ e.block \in blocks
  <2>1. e.block \in blocks
    BY LogsCanonical
  <2>2. e.block \in Nat /\ e.block <= finalized /\ finalized \in Nat
    BY <1>0, <1>5, <2>1 DEF TypeOK, ChainTypeOK
  <2>3. e.status \in {"L1", "L2"}
    BY <1>0, LogsType DEF TypeOK, ChainEvent
  <2>4. misread' = misread \cup Misread(logs)
    BY <1>2 DEF Audit
  <2> HIDE DEF logs
  <2>5. e.status = "L2" => e.block \in misread'
    BY <2>2, <2>4 DEF Misread
  <2> QED
    BY <2>1, <2>3, <2>5 DEF Accepted
<1>7. ASSUME NEW b \in blocks, b \notin changed, NEW d \in StoredIn(b)
      PROVE  Accepted(d)' \/ \E e \in refresh : e.tx = d.tx
  <2>1. Sound(b) /\ b \in DOMAIN chain
    BY <1>0, <1>5, <1>7, CompareSound DEF AuditInv
  <2>2. PICK e \in logs : e.tx = d.tx /\ e.block = b
    BY <1>7, <2>1, LogsCanonical DEF Sound
  <2>3. e \in InBlock(logs, b) /\ d \in InBlock(Live, b)
    BY <1>7, <2>2 DEF InBlock, StoredIn
  <2>4. CASE b \in stale
    BY <2>2, <2>4
  <2>5. CASE b \notin stale
    <3>1. ~ MetadataChanged(InBlock(logs, b), InBlock(Live, b))
      BY <1>7, <2>5
    <3>2. e.status = d.status
      BY <2>2, <2>3, <3>1 DEF MetadataChanged
    <3> QED
      BY <1>6, <1>7, <2>2, <3>2 DEF Accepted, StoredIn
  <2> QED
    BY <2>4, <2>5
<1>8. auditor'.pc = "advance" => refresh = {}
  BY <1>3
<1>9. \A e \in repair \cup refresh : Accepted(e)'
  BY <1>6
<1>10. \A b \in changed : auditor'.pc = "remove"
  BY <1>3
<1>11. \A b : StoredIn(b)' = StoredIn(b)
  BY <1>1 DEF StoredIn, Live
<1> HIDE DEF blocks, logs, changed, stale, repair, refresh
<1>12. StatusesRepaired'
  BY <1>3, <1>4, <1>7, <1>8, <1>9, <1>10, <1>11 DEF StatusesRepaired
<1>13. AcceptedUnlessMisread'
  <2>1. misread \subseteq misread'
    BY MisreadGrows
  <2> QED
    BY <1>1, <1>11, <2>1 DEF AcceptedUnlessMisread, Audited
<1> QED
  BY <1>12, <1>13

\* What the auditor writes is accepted on L1, and refreshes what it has to.
LEMMA AuditorWritesStatus ==
    ASSUME Source = "Starknet", AuditInv, StatusesRepaired, AcceptedUnlessMisread,
           UNCHANGED auditStart, [Next]_vars,
           AuditorRemove \/ AuditorPurge \/ AuditorUpsert \/ AuditorReset \/ AuditorRefresh
    PROVE  StatusesRepaired' /\ AcceptedUnlessMisread'
<1>0. TypeOK /\ StoreTypeOK /\ StoreInv
  BY DEF AuditInv, TypeOK
<1>8. \A d : Accepted(d) => Accepted(d)'
  BY MisreadGrows
<1>1. UNCHANGED <<lastAudited, auditStart>> /\ Comparing /\ auditor.pc # "compare"
  BY DEF AuditorRemove, AuditorPurge, AuditorUpsert, AuditorReset, AuditorRefresh, Comparing
<1>2. ASSUME NEW pc, auditor'.pc = pc, pc \notin {"idle", "start", "compare", "remove"},
             auditor'.from = auditor.from, auditor'.target = auditor.target,
             auditor'.repair \subseteq auditor.repair,
             auditor'.refresh \subseteq auditor.refresh,
             pc = "advance" => auditor'.refresh = {},
             \A b : StatusKept(b),
             \A b \in Batch : \A d \in StoredIn(b)' :
               \/ auditor.pc = "remove" /\ b \in auditor.changed
               \/ \E e \in auditor.refresh \ auditor'.refresh : e.tx = d.tx
               => Accepted(d)
      PROVE  StatusesRepaired' /\ AcceptedUnlessMisread'
  <2>1. Batch' = Batch /\ Audited' = Audited
    BY <1>1, <1>2 DEF Batch, BatchEnd, Audited
  <2>2. ASSUME NEW b \in Batch, NEW d \in StoredIn(b)'
        PROVE  Accepted(d) \/ \E e \in auditor'.refresh : e.tx = d.tx
    <3>1. Accepted(d) \/ \E c \in StoredIn(b) : c.tx = d.tx /\ c.status = d.status
      BY <1>2, <2>2 DEF StatusKept
    <3>2. \/ auditor.pc = "remove" /\ b \in auditor.changed
          \/ Accepted(d)
          \/ \E e \in auditor.refresh : e.tx = d.tx
      BY <1>1, <2>2, <3>1 DEF StatusesRepaired, Accepted, StoredIn
    <3> QED
      BY <1>2, <2>2, <3>2
  <2>3. \A e \in auditor'.repair \cup auditor'.refresh : Accepted(e)'
    BY <1>2, <1>8 DEF StatusesRepaired
  <2>4. StatusesRepaired'
    BY <1>2, <1>8, <2>1, <2>2, <2>3 DEF StatusesRepaired
  <2>5. ASSUME NEW b \in Audited, NEW d \in StoredIn(b)' PROVE Accepted(d)
    BY <1>2, <2>5, AcceptedAudited DEF StatusKept, Accepted, StoredIn
  <2>6. \A b \in Audited' : \A d \in StoredIn(b)' : Accepted(d)'
    BY <1>8, <2>1, <2>5
  <2> QED
    BY <2>4, <2>6 DEF AcceptedUnlessMisread, Accepted, StoredIn
<1>3. CASE AuditorRemove
  <2>1. /\ auditor.pc = "remove" /\ auditor' = [auditor EXCEPT !.pc = "purge"]
        /\ UpdateManyAsRemoved(auditor.changed) /\ UNCHANGED chainVars
    BY <1>3 DEF AuditorRemove
  <2>2. /\ auditor'.pc = "purge" /\ auditor'.from = auditor.from
        /\ auditor'.target = auditor.target
        /\ auditor'.repair = auditor.repair /\ auditor'.refresh = auditor.refresh
    BY <1>0, <2>1 DEF TypeOK, AuditorTypeOK
  <2>3. \A b \in auditor.changed : StoredIn(b)' = {}
    BY <1>0, <2>1, RemoveKeeps
  <2>4. \A b : StatusKept(b)
    BY <1>0, <2>1, MarkStatus
  <2> QED
    BY <1>2, <2>1, <2>2, <2>3, <2>4
<1>4. CASE AuditorPurge
  <2>1. /\ auditor.pc = "purge" /\ docs' = docs
        /\ auditor' = [auditor EXCEPT !.pc = IF auditor.repair = {} THEN "reset" ELSE "upsert"]
    BY <1>4 DEF AuditorPurge
  <2>2. /\ auditor'.pc = IF auditor.repair = {} THEN "reset" ELSE "upsert"
        /\ auditor'.from = auditor.from /\ auditor'.target = auditor.target
        /\ auditor'.repair = auditor.repair /\ auditor'.refresh = auditor.refresh
    BY <1>0, <2>1 DEF TypeOK, AuditorTypeOK
  <2>3. \A b : StatusKept(b)
    BY <1>0, <2>1, MarkStatus
  <2> QED
    BY <1>2, <2>1, <2>2, <2>3
<1>5. CASE AuditorUpsert
  <2>1. PICK e \in auditor.repair :
          /\ auditor.pc = "upsert" /\ UpdateOrCreate(e)
          /\ auditor' = [auditor EXCEPT
               !.repair = auditor.repair \ {e},
               !.pc = IF auditor.repair \ {e} = {} THEN "reset" ELSE "upsert"]
    BY <1>5 DEF AuditorUpsert
  <2>2. /\ auditor'.pc = IF auditor.repair \ {e} = {} THEN "reset" ELSE "upsert"
        /\ auditor'.from = auditor.from /\ auditor'.target = auditor.target
        /\ auditor'.repair = auditor.repair \ {e} /\ auditor'.refresh = auditor.refresh
    BY <1>0, <2>1 DEF TypeOK, AuditorTypeOK
  <2>3. e \in ChainEvent /\ Accepted(e)
    BY <1>0 DEF StatusesRepaired, TypeOK, AuditorTypeOK
  <2>4. \A b : StatusKept(b)
    BY <1>0, <2>1, <2>3, UpsertStatus
  <2> QED
    BY <1>2, <2>1, <2>2, <2>4
<1>6. CASE AuditorReset
  <2>1. /\ auditor.pc = "reset" /\ \E b : ResetLastProcessedFromBlock(b)
        /\ auditor' = [auditor EXCEPT !.pc = IF auditor.refresh = {} THEN "advance" ELSE "refresh"]
    BY <1>6 DEF AuditorReset
  <2>2. /\ auditor'.pc = IF auditor.refresh = {} THEN "advance" ELSE "refresh"
        /\ auditor'.from = auditor.from /\ auditor'.target = auditor.target
        /\ auditor'.repair = auditor.repair /\ auditor'.refresh = auditor.refresh
    BY <1>0, <2>1 DEF TypeOK, AuditorTypeOK
  <2>3. \A b : StatusKept(b)
    BY <1>0, <2>1, MarkStatus
  <2> QED
    BY <1>2, <2>1, <2>2, <2>3
<1>7. CASE AuditorRefresh
  <2>1. PICK e \in auditor.refresh :
          /\ auditor.pc = "refresh" /\ UpdateOrCreate(e)
          /\ auditor' = [auditor EXCEPT
               !.refresh = auditor.refresh \ {e},
               !.pc = IF auditor.refresh \ {e} = {} THEN "advance" ELSE "refresh"]
    BY <1>7 DEF AuditorRefresh
  <2>2. /\ auditor'.pc = IF auditor.refresh \ {e} = {} THEN "advance" ELSE "refresh"
        /\ auditor'.from = auditor.from /\ auditor'.target = auditor.target
        /\ auditor'.refresh = auditor.refresh \ {e} /\ auditor'.repair = auditor.repair
    BY <1>0, <2>1 DEF TypeOK, AuditorTypeOK
  <2>3. e \in ChainEvent /\ Accepted(e)
    BY <1>0 DEF StatusesRepaired, TypeOK, AuditorTypeOK
  <2>4. \A b : StatusKept(b)
    BY <1>0, <2>1, <2>3, UpsertStatus
  <2>5. ASSUME NEW b \in Batch, NEW d \in StoredIn(b)',
               \E x \in auditor.refresh \ auditor'.refresh : x.tx = d.tx
        PROVE  Accepted(d)
    <3>1. d \in docs' /\ ~d.removed /\ d.tx = e.tx
      BY <2>2, <2>5 DEF StoredIn, Live
    <3> QED
      BY <1>0, <2>1, <2>3, <3>1, UpsertAccepts
  <2> QED
    BY <1>2, <2>1, <2>2, <2>4, <2>5
<1> QED
  BY <1>3, <1>4, <1>5, <1>6, <1>7

\* An audit that starts over holds no log; one that advances has refreshed all.
LEMMA AuditorRestsStatus ==
    ASSUME Source = "Starknet", AuditInv, StatusesRepaired, AcceptedUnlessMisread, [Next]_vars,
           docs' = docs,
           auditor'.repair = {}, auditor'.refresh = {},
           auditor'.pc \in {"idle", "start", "compare"},
           \A b \in Audited' : b \in Audited \/
             (Comparing /\ auditor.pc = "advance" /\ b \in Batch)
    PROVE  StatusesRepaired' /\ AcceptedUnlessMisread'
<1>1. \A b : StoredIn(b)' = StoredIn(b)
  BY DEF StoredIn, Live
<1>2. StatusesRepaired'
  BY DEF StatusesRepaired, Comparing
<1>3. ASSUME NEW b \in Audited', NEW d \in StoredIn(b) PROVE Accepted(d)
  BY <1>3, AcceptedAudited DEF StatusesRepaired
<1>4. \A b \in Audited' : \A d \in StoredIn(b)' : Accepted(d)'
  BY <1>1, <1>3, MisreadGrows
<1> QED
  BY <1>2, <1>4 DEF AcceptedUnlessMisread, Accepted, StoredIn

LEMMA AuditStatus ==
    ASSUME Source = "Starknet", AuditInv, StatusesRead, StatusesRepaired, AcceptedUnlessMisread,
           Audit, [Next]_vars
    PROVE  StatusesRead' /\ StatusesRepaired' /\ AcceptedUnlessMisread'
<1>0. TypeOK
  BY DEF AuditInv
<1>1. UNCHANGED <<chainVars, retriever>>
  BY DEF Audit, AuditorStep, AuditorReadFrontier, AuditorStart, AuditorCompare,
     AuditorRemove, AuditorPurge, AuditorUpsert, AuditorReset, AuditorRefresh, AuditorAdvance,
     storeVars
<1>2. StatusesRead'
  BY <1>1, MisreadGrows DEF StatusesRead, chainVars
<1>3. auditStart' = IF lastAudited = Unset THEN lastAudited' ELSE auditStart
  BY DEF Audit
<1>4. ASSUME Comparing PROVE UNCHANGED auditStart
  BY <1>3, <1>4 DEF AuditInv, AuditorRange
<1>5. CASE AuditorReadFrontier
  <2>1. /\ auditor' = [AuditorIdle EXCEPT !.pc = "start", !.target = finalized]
        /\ UNCHANGED <<docs, lastAudited>>
    BY <1>5 DEF AuditorReadFrontier, storeVars
  <2>2. auditor'.pc = "start" /\ auditor'.repair = {} /\ auditor'.refresh = {}
    BY <2>1 DEF AuditorIdle
  <2>3. \A b \in Audited' : b \in Audited
    <3>1. CASE lastAudited = Unset
      BY <1>0, <1>3, <2>1, <3>1, NothingAudited DEF TypeOK, StoreTypeOK
    <3>2. CASE lastAudited # Unset
      BY <1>3, <2>1, <3>2 DEF Audited
    <3> QED
      BY <3>1, <3>2
  <2> QED
    BY <1>2, <2>1, <2>2, <2>3, AuditorRestsStatus
<1>6. CASE AuditorStart
  <2>1. /\ auditor.pc = "start" /\ docs' = docs
        /\ auditor.repair = {} /\ auditor.refresh = {}
    BY <1>6 DEF AuditorStart, AuditInv, AuditorRange
  <2>2. \/ auditor' = AuditorIdle
        \/ \E from : auditor' = [auditor EXCEPT !.pc = "compare", !.from = from]
    BY <1>6 DEF AuditorStart
  <2>3. /\ auditor'.pc \in {"idle", "compare"}
        /\ auditor'.repair = {} /\ auditor'.refresh = {}
    <3>1. CASE auditor' = AuditorIdle
      BY <3>1 DEF AuditorIdle
    <3>2. ASSUME NEW from, auditor' = [auditor EXCEPT !.pc = "compare", !.from = from]
          PROVE  /\ auditor'.pc = "compare"
                 /\ auditor'.repair = auditor.repair /\ auditor'.refresh = auditor.refresh
      BY <1>0, <3>2 DEF TypeOK, AuditorTypeOK
    <3> QED
      BY <2>1, <2>2, <3>1, <3>2
  <2>4. \A b \in Audited' : b \in Audited
    <3>1. CASE lastAudited = Unset
      <4>1. lastAudited' \in Checkpoint
        BY <1>0, <1>6, AuditorType DEF AuditorStep, TypeOK, StoreTypeOK
      <4> QED
        BY <1>3, <3>1, <4>1, NothingAudited
    <3>2. CASE lastAudited # Unset
      <4>1. lastAudited' = lastAudited
        BY <1>6, <3>2 DEF AuditorStart
      <4> QED
        BY <1>3, <3>2, <4>1 DEF Audited
    <3> QED
      BY <3>1, <3>2
  <2> QED
    BY <1>2, <2>1, <2>3, <2>4, AuditorRestsStatus
<1>7. CASE AuditorCompare
  <2>1. Comparing
    BY <1>7 DEF AuditorCompare, Comparing
  <2> QED
    BY <1>2, <1>4, <1>7, <2>1, AuditorCompareStatus
<1>8. CASE AuditorRemove \/ AuditorPurge \/ AuditorUpsert \/ AuditorReset \/ AuditorRefresh
  <2>1. Comparing
    BY <1>8 DEF AuditorRemove, AuditorPurge, AuditorUpsert, AuditorReset, AuditorRefresh,
       Comparing
  <2> QED
    BY <1>2, <1>4, <1>8, <2>1, AuditorWritesStatus
<1>9. CASE AuditorAdvance
  <2>1. /\ Comparing /\ auditor.pc = "advance" /\ docs' = docs /\ lastAudited' = BatchEnd
        /\ auditor' = IF BatchEnd = auditor.target THEN AuditorIdle
                      ELSE [AuditorIdle EXCEPT !.pc = "compare", !.from = BatchEnd + 1,
                                               !.target = auditor.target]
    BY <1>9 DEF AuditorAdvance, Comparing
  <2>2. /\ auditor'.pc \in {"idle", "compare"}
        /\ auditor'.repair = {} /\ auditor'.refresh = {}
    <3>1. AuditorIdle \in [pc : {"idle"}, from : Nat, target : Nat, changed : {{}}, txs : {{}},
                           repair : {{}}, refresh : {{}}]
      BY DEF AuditorIdle
    <3> QED
      BY <2>1, <3>1
  <2>3. \A b \in Audited' : b \in Audited \/ b \in Batch
    BY <1>4, <2>1, AdvanceAudited DEF AuditInv
  <2> QED
    BY <1>2, <2>1, <2>2, <2>3, AuditorRestsStatus
<1> QED
  BY <1>5, <1>6, <1>7, <1>8, <1>9 DEF Audit, AuditorStep

LEMMA StatusInvNext ==
    ASSUME Source = "Starknet", SlowRetriever = FALSE, AuditInv,
           StatusesRead, StatusesRepaired, AcceptedUnlessMisread, [Next]_vars
    PROVE  StatusesRead' /\ StatusesRepaired' /\ AcceptedUnlessMisread'
<1>0. TypeOK /\ \A d : Accepted(d) => Accepted(d)'
  BY MisreadGrows DEF AuditInv
<1>1. CASE ChainGrows
  <2>1. UNCHANGED <<docs, retriever, auditor, lastAudited, auditStart, finalized>>
    BY <1>1 DEF ChainGrows, Mine, Reorg, history
  <2> QED
    BY <1>0, <2>1, QuietStatus DEF StatusesRead
<1>2. CASE BlockFinalized
  <2>1. /\ UNCHANGED <<docs, retriever, auditor, lastAudited, auditStart>>
        /\ finalized' = finalized + 1
        /\ \A e \in retriever.events : e.status = "L2" => e.block # finalized + 1
    BY <1>2 DEF BlockFinalized, Finalize, history, storeVars
  <2>2. finalized \in Nat
    BY <1>0 DEF TypeOK, ChainTypeOK
  <2>3. \A e \in retriever.events : e.block \in Nat /\ e.status \in {"L1", "L2"}
    BY <1>0, ChainAssumption DEF TypeOK, RetrieverTypeOK, ChainEvent, Heights
  <2>4. \A e \in retriever.events : e.block > finalized + 1 \/ Accepted(e)
    BY <2>1, <2>2, <2>3 DEF StatusesRead, Accepted
  <2>5. StatusesRead'
    BY <1>0, <2>1, <2>4 DEF StatusesRead
  <2> QED
    BY <2>1, <2>5, QuietStatus
<1>3. CASE Retrieve
  BY <1>3, RetrieveStatus
<1>4. CASE Audit
  BY <1>4, AuditStatus
<1>5. CASE Process
  <2>1. UNCHANGED <<chainVars, retriever, auditor, lastAudited, auditStart>>
    BY <1>5 DEF Process, ProcessorStep, ProcessorFetch, ProcessorHandle, ProcessorFinalize,
       ProcessorCheck, ProcessorEmit, storeVars
  <2>2. docs' = docs \/ \E s : docs' = Stamped(s)
    BY <1>5 DEF Process, ProcessorStep, ProcessorFetch, ProcessorHandle, ProcessorFinalize,
       ProcessorCheck, ProcessorEmit, storeVars
  <2> QED
    BY <1>0, <2>1, <2>2, QuietStatus DEF StatusesRead, chainVars
<1>6. CASE Fail
  <2>1. UNCHANGED <<chainVars, docs, lastAudited, auditStart>>
    BY <1>6 DEF Fail, RetrieverFail, AuditorFail, ProcessorFail, storeVars, history
  <2>2. CASE AuditorFail /\ UNCHANGED retriever
    <3>1. auditor' = AuditorIdle
      BY <2>2 DEF AuditorFail
    <3>2. auditor'.pc = "idle" /\ auditor'.repair = {} /\ auditor'.refresh = {}
      BY <3>1 DEF AuditorIdle
    <3>3. Audited' = Audited
      BY <2>1 DEF Audited
    <3> QED
      BY <1>0, <2>1, <2>2, <3>2, <3>3, AuditorRestsStatus DEF StatusesRead, chainVars
  <2>3. CASE UNCHANGED auditor /\ retriever' \in {retriever, RetrieverIdle}
    <3>1. retriever'.events \subseteq retriever.events
      BY <2>3 DEF RetrieverIdle
    <3>2. StatusesRead'
      BY <1>0, <2>1, <3>1 DEF StatusesRead, chainVars
    <3> QED
      BY <2>1, <2>3, <3>2, QuietStatus
  <2> QED
    BY <1>6, <2>2, <2>3 DEF Fail, RetrieverFail
<1>7. CASE CacheExpires \/ UNCHANGED vars
  <2>1. UNCHANGED <<chainVars, docs, retriever, auditor, lastAudited, auditStart>>
    BY <1>7 DEF CacheExpires, vars, storeVars, history
  <2> QED
    BY <1>0, <2>1, QuietStatus DEF StatusesRead, chainVars
<1> QED
  BY <1>1, <1>2, <1>3, <1>4, <1>5, <1>6, <1>7 DEF Next

LEMMA StatusInvInit == Init => StatusesRead /\ StatusesRepaired /\ AcceptedUnlessMisread
BY StoreAssumption
DEF Init, StoreInit, RetrieverInit, RetrieverIdle, AuditorInit, AuditorIdle, StatusesRead,
    StatusesRepaired, AcceptedUnlessMisread, Comparing, Audited, StoredIn, Live

\* Once it has passed a block the Starknet auditor (refreshMetadataBlocks) has
\* brought it to ACCEPTED_ON_L1, and no write of a log that was read earlier
\* takes that back, however long the RPC cache keeps its blocks: only one that it
\* answers for after the block became final (_getBlockWithTxHashes) can be stored
\* with its earlier status.  Finality does not overtake what the retriever holds.
THEOREM AcceptedUnlessMisreadCorrect ==
    SlowRetriever = FALSE => (Spec => []AcceptedUnlessMisread)
<1> SUFFICES ASSUME SlowRetriever = FALSE PROVE Spec => []AcceptedUnlessMisread
  OBVIOUS
<1> DEFINE Inv ==
      /\ AuditInv
      /\ Source = "Starknet" => StatusesRead /\ StatusesRepaired /\ AcceptedUnlessMisread
<1>1. Init => Inv
  BY AuditInvInit, StatusInvInit
<1>2. Inv /\ [Next]_vars => Inv'
  BY AuditInvNext, StatusInvNext
<1>3. Inv => AcceptedUnlessMisread
  BY DEF AcceptedUnlessMisread
<1> QED
  BY <1>1, <1>2, <1>3, PTL DEF Spec

-----------------------------------------------------------------------------
(* The checkpoint of the retriever.                                        *)

\* What an audit has removed, and where it began, only change with an audit.
LEMMA RemovedKept ==
    ASSUME RemovedInv, UNCHANGED <<lastAudited, auditStart>>,
           \A d \in docs' : d.removed => \E c \in docs : c.removed /\ c.block = d.block
    PROVE  RemovedInv'
BY DEF RemovedInv

LEMMA UpsertRemoves ==
    ASSUME StoreTypeOK, StoreInv, NEW e \in ChainEvent, UpdateOrCreate(e)
    PROVE  \A d \in docs' : d.removed => \E c \in docs : c.removed /\ c.block = d.block
<1>1. PICK new \in docs', old \in SUBSET docs :
             docs' = (docs \ old) \cup {new} /\ new.removed = FALSE
  BY UpsertForm
<1> QED
  BY <1>1

LEMMA StampRemoves ==
    ASSUME StoreTypeOK,
           \/ docs' = docs
           \/ \E s : docs' = Stamped(s)
           \/ \E b : ResetLastProcessedFromBlock(b)
    PROVE  \A d \in docs' : d.removed => \E c \in docs : c.removed /\ c.block = d.block
<1>1. CASE \E s : docs' = Stamped(s)
  BY <1>1 DEF Stamped, StoreTypeOK, Doc
<1>2. CASE \E b : ResetLastProcessedFromBlock(b)
  BY <1>2 DEF ResetLastProcessedFromBlock, StoreTypeOK, Doc
<1> QED
  BY <1>1, <1>2

LEMMA RemovedInvNext ==
    ASSUME AuditInv, AuditInv', RemovedInv, [Next]_vars
    PROVE  RemovedInv'
<1>0. TypeOK /\ StoreTypeOK /\ StoreInv /\ TypeOK'
  BY DEF AuditInv, TypeOK
<1>1. CASE ChainGrows \/ BlockFinalized \/ CacheExpires \/ Fail \/ UNCHANGED vars
  <2>1. UNCHANGED <<docs, lastAudited, auditStart>>
    BY <1>1 DEF ChainGrows, BlockFinalized, CacheExpires, Fail, RetrieverFail, AuditorFail,
       ProcessorFail, storeVars, vars, history
  <2> QED
    BY <2>1, RemovedKept
<1>2. CASE Process
  <2>1. UNCHANGED <<lastAudited, auditStart>> /\ (docs' = docs \/ \E s : docs' = Stamped(s))
    BY <1>2 DEF Process, ProcessorStep, ProcessorFetch, ProcessorHandle, ProcessorFinalize,
       ProcessorCheck, ProcessorEmit, storeVars
  <2> QED
    BY <1>0, <2>1, StampRemoves, RemovedKept
<1>3. CASE Retrieve
  <2>1. UNCHANGED <<lastAudited, auditStart>>
    BY <1>3 DEF Retrieve, RetrieverStep, RetrieverBootstrap, RetrieverReadHead,
       RetrieverPull, RetrieverSave, RetrieverAdvance
  <2>2. CASE docs' = docs
    BY <2>1, <2>2, RemovedKept
  <2>3. CASE RetrieverSave
    <3>1. PICK e \in retriever.events : UpdateOrCreate(e)
      BY <2>3 DEF RetrieverSave
    <3>2. e \in ChainEvent
      BY <1>0 DEF TypeOK, RetrieverTypeOK
    <3> QED
      BY <1>0, <2>1, <3>1, <3>2, UpsertRemoves, RemovedKept
  <2> QED
    BY <1>3, <2>2, <2>3 DEF Retrieve, RetrieverStep, RetrieverBootstrap, RetrieverReadHead,
       RetrieverPull, RetrieverAdvance
<1>4. CASE Audit
  <2>1. auditStart' = IF lastAudited = Unset THEN lastAudited' ELSE auditStart
    BY <1>4 DEF Audit
  <2>2. /\ lastAudited \in Checkpoint /\ lastAudited' \in Checkpoint /\ auditStart \in Checkpoint
        /\ finalized \in Nat /\ Origin \in Nat \ {0}
    BY <1>0, StoreAssumption DEF TypeOK, StoreTypeOK, ChainTypeOK
  <2>3. Comparing => /\ lastAudited # Unset /\ auditStart' = auditStart
                     /\ \A b \in Batch : auditStart < b
    <3> SUFFICES ASSUME Comparing
                 PROVE  /\ lastAudited # Unset /\ auditStart' = auditStart
                        /\ \A b \in Batch : auditStart < b
      OBVIOUS
    <3>1. lastAudited # Unset /\ auditor.from = Larger(Origin, lastAudited + 1)
      BY DEF AuditInv, AuditorRange
    <3>2. auditor.from > lastAudited /\ auditor.from \in Nat /\ BatchEnd \in Nat
      BY <1>0, <2>2, <3>1, BatchIsFinal DEF Larger, Checkpoint, Unset, AuditInv
    <3> QED
      BY <2>1, <2>2, <3>1, <3>2 DEF Batch, RemovedInv, Checkpoint, Unset
  <2>4. CASE AuditorReadFrontier \/ AuditorStart
    <3>1. docs' = docs /\ (lastAudited = Unset \/ lastAudited' = lastAudited)
      BY <2>4 DEF AuditorReadFrontier, AuditorStart, storeVars
    <3>2. CASE lastAudited = Unset
      <4>1. auditStart' = lastAudited'
        BY <2>1, <3>2
      <4>2. auditStart' <= lastAudited'
        BY <2>2, <4>1 DEF Checkpoint, Unset
      <4> QED
        BY <3>1, <3>2, <4>1, <4>2 DEF RemovedInv
    <3>3. CASE lastAudited # Unset
      BY <2>1, <3>1, <3>3, RemovedKept
    <3> QED
      BY <3>2, <3>3
  <2>5. CASE AuditorCompare \/ AuditorPurge \/ AuditorReset
    <3>1. /\ lastAudited' = lastAudited /\ Comparing
          /\ docs' = docs \/ \E b : ResetLastProcessedFromBlock(b)
      BY <2>5 DEF AuditorCompare, AuditorPurge, AuditorReset, Comparing, storeVars
    <3> QED
      BY <1>0, <2>3, <3>1, StampRemoves, RemovedKept
  <2>6. CASE AuditorUpsert \/ AuditorRefresh
    <3>1. PICK e \in auditor.repair \cup auditor.refresh : UpdateOrCreate(e)
      BY <2>6 DEF AuditorUpsert, AuditorRefresh
    <3>2. e \in ChainEvent /\ lastAudited' = lastAudited /\ Comparing
      BY <1>0, <2>6 DEF AuditorUpsert, AuditorRefresh, Comparing, TypeOK, AuditorTypeOK
    <3> QED
      BY <1>0, <2>3, <3>1, <3>2, UpsertRemoves, RemovedKept
  <2>7. CASE AuditorRemove
    <3>1. /\ UpdateManyAsRemoved(auditor.changed) /\ lastAudited' = lastAudited /\ Comparing
          /\ auditor.changed \subseteq Batch
      BY <2>7 DEF AuditorRemove, Comparing, AuditInv, AuditorRange
    <3>2. ASSUME NEW d \in docs', d.removed
          PROVE  d.block \in auditor.changed \/ \E c \in docs : c.removed /\ c.block = d.block
      <4>1. PICK c \in docs : d = IF c.block \in auditor.changed /\ ~c.removed
                                    THEN [c EXCEPT !.removed = TRUE, !.done = FALSE] ELSE c
        BY <3>1 DEF UpdateManyAsRemoved
      <4>2. c \in Doc
        BY <1>0 DEF StoreTypeOK
      <4>3. d.block = c.block /\ (c.removed \/ d.block \in auditor.changed)
        BY <3>2, <4>1, <4>2 DEF Doc
      <4> QED
        BY <4>3
    <3> QED
      BY <2>3, <3>1, <3>2 DEF RemovedInv
  <2>8. CASE AuditorAdvance
    <3>1. docs' = docs /\ lastAudited' = BatchEnd /\ Comparing
      BY <2>8 DEF AuditorAdvance, Comparing
    <3>2. BatchEnd \in Batch /\ BatchEnd \in Nat
      BY <1>0, <3>1, BatchIsFinal DEF Batch, AuditInv, TypeOK, AuditorTypeOK
    <3>3. auditStart < BatchEnd
      BY <2>3, <3>1, <3>2
    <3> QED
      BY <2>2, <2>3, <3>1, <3>2, <3>3 DEF RemovedInv, Checkpoint, Unset
  <2> QED
    BY <1>4, <2>4, <2>5, <2>6, <2>7, <2>8 DEF Audit, AuditorStep
<1> QED
  BY <1>1, <1>2, <1>3, <1>4 DEF Next

\* Until the chain forks a canonical log is never taken out of its block.
RecordedKept == \A b \in 1..HeadBlock : \A t \in chain[b].txs : Recorded(t, b) => Recorded(t, b)'

LEMMA UpsertRecords ==
    ASSUME StoreTypeOK, StoreInv, ChainTypeOK, ChainInv, NEW e \in ChainEvent,
           UpdateOrCreate(e), e.block \in 1..HeadBlock, e.tx \in chain[e.block].txs, e.fork = 0
    PROVE  RecordedKept /\ Recorded(e.tx, e.block)'
<1>1. PICK new \in docs', old \in SUBSET docs :
             /\ docs' = (docs \ old) \cup {new}
             /\ SameLog(new, e)
             /\ \A d \in old : d.tx = e.tx
  BY UpsertForm
<1>2. Recorded(e.tx, e.block)'
  BY <1>1 DEF Recorded, SameLog
<1>3. ASSUME NEW b \in 1..HeadBlock, NEW t \in chain[b].txs, Recorded(t, b)
      PROVE  Recorded(t, b)'
  <2>1. PICK d \in docs : d.tx = t /\ d.block = b /\ d.fork = 0
    BY <1>3 DEF Recorded
  <2>2. CASE d \in old
    <3>1. b \in DOMAIN chain /\ e.block \in DOMAIN chain /\ e.tx = t
      BY <1>1, <2>1, <2>2 DEF HeadBlock, ChainTypeOK
    <3>2. e.block = b
      BY <3>1 DEF ChainInv
    <3> QED
      BY <1>2, <3>1, <3>2
  <2>3. CASE d \notin old
    BY <1>1, <2>1, <2>3 DEF Recorded
  <2> QED
    BY <2>2, <2>3
<1> QED
  BY <1>2, <1>3 DEF RecordedKept

LEMMA MarkRecords ==
    ASSUME StoreTypeOK,
           \/ docs' = docs
           \/ \E s : docs' = Stamped(s)
           \/ \E b : ResetLastProcessedFromBlock(b)
           \/ \E blocks : UpdateManyAsRemoved(blocks)
    PROVE  RecordedKept
<1>1. ASSUME NEW d \in docs
      PROVE  \E c \in docs' : c.tx = d.tx /\ c.block = d.block /\ c.fork = d.fork
  <2>0. d \in Doc
    BY DEF StoreTypeOK
  <2>1. CASE docs' = docs
    BY <2>1
  <2>2. ASSUME NEW s, docs' = Stamped(s)
        PROVE  \E c \in docs' : c.tx = d.tx /\ c.block = d.block /\ c.fork = d.fork
    <3> DEFINE c == IF d.tx = s.tx /\ d.n = s.n THEN [d EXCEPT !.done = TRUE] ELSE d
    <3>1. c \in docs'
      BY <2>2 DEF Stamped
    <3>2. c.tx = d.tx /\ c.block = d.block /\ c.fork = d.fork
      BY <2>0 DEF Doc
    <3> QED
      BY <3>1, <3>2
  <2>3. ASSUME NEW b, ResetLastProcessedFromBlock(b)
        PROVE  \E c \in docs' : c.tx = d.tx /\ c.block = d.block /\ c.fork = d.fork
    <3> DEFINE c == IF d.block >= b /\ ~d.removed THEN [d EXCEPT !.done = FALSE] ELSE d
    <3>1. c \in docs'
      BY <2>3 DEF ResetLastProcessedFromBlock
    <3>2. c.tx = d.tx /\ c.block = d.block /\ c.fork = d.fork
      BY <2>0 DEF Doc
    <3> QED
      BY <3>1, <3>2
  <2>4. ASSUME NEW blocks, UpdateManyAsRemoved(blocks)
        PROVE  \E c \in docs' : c.tx = d.tx /\ c.block = d.block /\ c.fork = d.fork
    <3> DEFINE c == IF d.block \in blocks /\ ~d.removed
                      THEN [d EXCEPT !.removed = TRUE, !.done = FALSE] ELSE d
    <3>1. c \in docs'
      BY <2>4 DEF UpdateManyAsRemoved
    <3>2. c.tx = d.tx /\ c.block = d.block /\ c.fork = d.fork
      BY <2>0 DEF Doc
    <3> QED
      BY <3>1, <3>2
  <2> QED
    BY <2>1, <2>2, <2>3, <2>4
<1> QED
  BY <1>1 DEF RecordedKept, Recorded

\* The retriever's own promise, and what the steps of others leave of it.
RetrievedRecorded ==
    \A b \in Retrieved : b <= HeadBlock /\ \A t \in chain[b].txs : Recorded(t, b)

LEMMA OthersKeepRetrieved ==
    ASSUME TypeOK, RetrieverRange, RetrievedRecorded,
           UNCHANGED <<lastRetrieved, retrieveStart>>,
           retriever' \in {retriever, RetrieverIdle},
           HeadBlock' \in Nat, HeadBlock <= HeadBlock',
           \A b \in 1..HeadBlock : chain'[b] = chain[b],
           RecordedKept
    PROVE  RetrieverRange' /\ RetrievedRecorded'
<1>1. /\ HeadBlock \in Nat /\ Origin \in Nat \ {0} /\ lastRetrieved \in Int
      /\ retrieveStart \in Int /\ retriever.from \in Nat /\ retriever.to \in Nat
  BY StoreAssumption DEF TypeOK, ChainTypeOK, StoreTypeOK, RetrieverTypeOK, HeadBlock,
     Checkpoint, Unset
<1>2. RetrieverRange'
  <2>1. CASE retriever' = RetrieverIdle
    BY <2>1 DEF RetrieverRange, RetrieverIdle
  <2>2. CASE retriever' = retriever /\ retriever.pc # "idle"
    <3>1. /\ retriever.from = Larger(Origin, lastRetrieved + 1)
          /\ retriever.to <= HeadBlock
      BY <2>2 DEF RetrieverRange
    <3>2. \A b \in retriever.from..retriever.to : b \in 1..HeadBlock
      BY <1>1, <3>1 DEF Larger
    <3>3. retriever.to <= HeadBlock'
      BY <1>1, <3>1
    <3> QED
      BY <2>2, <3>2, <3>3 DEF RetrieverRange, RecordedKept
  <2> QED
    BY <2>1, <2>2 DEF RetrieverRange
<1>3. Retrieved' = Retrieved
  BY DEF Retrieved
<1>4. ASSUME NEW b \in Retrieved
      PROVE  b <= HeadBlock' /\ \A t \in chain'[b].txs : Recorded(t, b)'
  <2>1. b \in 1..HeadBlock
    BY <1>1 DEF RetrievedRecorded, Retrieved, Larger
  <2> QED
    BY <1>1, <2>1 DEF RetrievedRecorded, RecordedKept
<1> QED
  BY <1>2, <1>3, <1>4 DEF RetrievedRecorded

LEMMA RetrieveRetrieved ==
    ASSUME AuditInv, AuditInv', forks = 0, RetrieverRange, RetrievedRecorded, Retrieve
    PROVE  RetrieverRange' /\ RetrievedRecorded'
<1>0. TypeOK /\ TypeOK' /\ StoreTypeOK /\ StoreInv /\ ChainTypeOK /\ ChainInv
  BY DEF AuditInv, TypeOK
<1>1. /\ HeadBlock \in Nat /\ Origin \in Nat \ {0} /\ lastRetrieved \in Checkpoint
      /\ retrieveStart \in Checkpoint /\ retriever.from \in Nat /\ retriever.to \in Nat
      /\ DOMAIN chain = 1..HeadBlock
  BY <1>0, StoreAssumption DEF TypeOK, ChainTypeOK, StoreTypeOK, RetrieverTypeOK, HeadBlock
<1>2. UNCHANGED chain /\ HeadBlock' = HeadBlock
  BY DEF Retrieve, RetrieverStep, RetrieverBootstrap, RetrieverReadHead, RetrieverPull,
     RetrieverSave, RetrieverAdvance, chainVars, HeadBlock
<1>3. retrieveStart' = IF lastRetrieved = Unset THEN lastRetrieved' ELSE retrieveStart
  BY DEF Retrieve
<1>4. ASSUME retriever.pc # "idle"
      PROVE  /\ lastRetrieved # Unset /\ retrieveStart' = retrieveStart
             /\ retriever.from = Larger(Origin, lastRetrieved + 1)
             /\ retriever.to <= HeadBlock
             /\ \A b \in retriever.from..retriever.to : b \in 1..HeadBlock
  BY <1>1, <1>3, <1>4 DEF RetrieverRange, Larger, Checkpoint, Unset
<1>5. CASE RetrieverBootstrap
  <2>1. lastRetrieved = Unset /\ retriever' = retriever /\ retriever.pc = "idle"
    BY <1>5 DEF RetrieverBootstrap
  <2>2. lastRetrieved' \in Int /\ retrieveStart' = lastRetrieved'
    BY <1>0, <1>3, <2>1 DEF TypeOK, StoreTypeOK, Checkpoint, Unset
  <2>3. Retrieved' = {}
    <3> DEFINE last == lastRetrieved'
    <3>1. Retrieved' = Larger(Origin, last + 1)..last
      BY <2>2 DEF Retrieved, Larger
    <3> HIDE DEF last
    <3>2. last \in Int => Larger(Origin, last + 1) \in Int /\ Larger(Origin, last + 1) > last
      BY <1>1 DEF Larger
    <3> QED
      BY <2>2, <3>1, <3>2 DEF last
  <2> QED
    BY <2>1, <2>3 DEF RetrieverRange, RetrievedRecorded
<1>6. CASE RetrieverReadHead
  <2> DEFINE from == Larger(Origin, lastRetrieved + 1)
             to == Smaller(HeadBlock, from + BlockBatch - 1)
  <2>1. /\ lastRetrieved # Unset /\ lastRetrieved' = lastRetrieved /\ docs' = docs
        /\ retrieveStart' = retrieveStart /\ retriever.pc = "idle"
        /\ \/ retriever' = retriever
           \/ retriever' = [RetrieverIdle EXCEPT !.pc = "pull", !.from = from, !.to = to]
    BY <1>3, <1>6 DEF RetrieverReadHead
  <2>2. from \in Nat /\ to \in Int /\ to <= HeadBlock
    BY <1>1, StoreAssumption DEF Larger, Smaller, Checkpoint, Unset
  <2>3. from = Larger(Origin, lastRetrieved' + 1)
    BY <2>1
  <2> HIDE DEF from, to
  <2>4. RetrieverRange'
    <3>1. CASE retriever' = retriever
      BY <2>1, <3>1 DEF RetrieverRange
    <3>2. CASE retriever' = [RetrieverIdle EXCEPT !.pc = "pull", !.from = from, !.to = to]
      <4>1. retriever'.pc = "pull" /\ retriever'.from = from /\ retriever'.to = to
        BY <3>2 DEF RetrieverIdle
      <4> QED
        BY <1>2, <2>1, <2>2, <2>3, <4>1 DEF RetrieverRange
    <3> QED
      BY <2>1, <3>1, <3>2
  <2>5. RetrievedRecorded'
    BY <1>2, <2>1 DEF RetrievedRecorded, Retrieved, Recorded
  <2> QED
    BY <2>4, <2>5
<1>7. CASE RetrieverPull
  <2> DEFINE events == Logs(retriever.from, retriever.to, rpcCache)
  <2>1. /\ retriever.pc = "pull" /\ UNCHANGED <<docs, lastRetrieved>>
        /\ retriever' = [retriever EXCEPT !.pc = IF events = {} THEN "advance" ELSE "save",
                                          !.events = events]
    BY <1>7 DEF RetrieverPull
  <2>2. /\ retriever'.pc = IF events = {} THEN "advance" ELSE "save"
        /\ retriever'.events = events
        /\ retriever'.from = retriever.from /\ retriever'.to = retriever.to
    <3> HIDE DEF events
    <3> QED
      BY <1>0, <2>1 DEF TypeOK, RetrieverTypeOK
  <2>3. \A b \in retriever.from..retriever.to : \A t \in chain[b].txs :
          \E e \in events : e.tx = t /\ e.block = b
    <3>1. \A b \in retriever.from..retriever.to :
            b \in (retriever.from..retriever.to) \cap DOMAIN chain
      BY <1>1, <1>4, <2>1
    <3>2. \A b \in (retriever.from..retriever.to) \cap DOMAIN chain : \A t \in chain[b].txs :
            \E e \in events : e.tx = t /\ e.block = b
      BY LogsCanonical
    <3> HIDE DEF events
    <3> QED
      BY <3>1, <3>2
  <2> HIDE DEF events
  <2>4. RetrieverRange'
    BY <1>2, <1>4, <2>1, <2>2, <2>3 DEF RetrieverRange
  <2>5. RetrievedRecorded'
    BY <1>2, <1>4, <2>1 DEF RetrievedRecorded, Retrieved, Recorded
  <2> QED
    BY <2>4, <2>5
<1>8. CASE RetrieverSave
  <2>1. PICK e \in retriever.events :
          /\ retriever.pc = "save" /\ UpdateOrCreate(e) /\ lastRetrieved' = lastRetrieved
          /\ retriever' = [retriever EXCEPT
                            !.events = retriever.events \ {e},
                            !.pc = IF retriever.events \ {e} = {} THEN "advance" ELSE "save"]
    BY <1>8 DEF RetrieverSave
  <2>2. /\ retriever'.pc = IF retriever.events \ {e} = {} THEN "advance" ELSE "save"
        /\ retriever'.events = retriever.events \ {e}
        /\ retriever'.from = retriever.from /\ retriever'.to = retriever.to
    BY <1>0, <2>1 DEF TypeOK, RetrieverTypeOK
  <2>3. e \in ChainEvent /\ e.fork \in Nat /\ e.block \in Nat \ {0}
    BY <1>0, ChainAssumption DEF TypeOK, RetrieverTypeOK, ChainEvent, Forks, Heights
  <2>4. e.fork = 0 /\ e.block \in 1..HeadBlock
    BY <1>1, <2>3 DEF AuditInv, RetrieverInv, ReadFromChain
  <2>5. e.tx \in chain[e.block].txs
    <3>1. chain[e.block].fork = 0
      BY <1>0, <1>1, <2>4, Unforked
    <3> QED
      BY <1>1, <2>4, <3>1 DEF AuditInv, RetrieverInv, ReadFromChain, IsCanonical
  <2>6. RecordedKept /\ Recorded(e.tx, e.block)'
    BY <1>0, <2>1, <2>3, <2>4, <2>5, UpsertRecords
  <2>7. ASSUME NEW b \in retriever.from..retriever.to, NEW t \in chain[b].txs
        PROVE  Recorded(t, b)' \/ \E x \in retriever'.events : x.tx = t /\ x.block = b
    <3>1. Recorded(t, b) \/ \E x \in retriever.events : x.tx = t /\ x.block = b
      BY <2>1 DEF RetrieverRange
    <3> QED
      BY <1>4, <2>1, <2>2, <2>6, <3>1 DEF RecordedKept
  <2>8. RetrieverRange'
    BY <1>2, <1>4, <2>1, <2>2, <2>7 DEF RetrieverRange
  <2>9. ASSUME NEW b \in Retrieved PROVE b <= HeadBlock /\ \A t \in chain[b].txs : Recorded(t, b)'
    <3>1. b \in 1..HeadBlock
      BY <1>1 DEF RetrievedRecorded, Retrieved, Larger, Checkpoint, Unset
    <3> QED
      BY <2>6, <3>1 DEF RetrievedRecorded, RecordedKept
  <2>10. Retrieved' = Retrieved
    BY <1>4, <2>1 DEF Retrieved
  <2> QED
    BY <1>2, <2>8, <2>9, <2>10 DEF RetrievedRecorded
<1>9. CASE RetrieverAdvance
  <2>1. /\ retriever.pc = "advance" /\ lastRetrieved' = retriever.to
        /\ retriever' = RetrieverIdle /\ docs' = docs
    BY <1>9 DEF RetrieverAdvance
  <2>2. RetrieverRange'
    BY <2>1 DEF RetrieverRange, RetrieverIdle
  <2>3. ASSUME NEW b \in Retrieved' PROVE b \in Retrieved \/ b \in retriever.from..retriever.to
    <3>1. Retrieved' = Larger(Origin, retrieveStart + 1)..retriever.to
      BY <1>4, <2>1 DEF Retrieved
    <3> DEFINE low == Larger(Origin, retrieveStart + 1)
    <3>2. low \in Nat /\ Origin <= low /\ lastRetrieved \in Int
      BY <1>1 DEF Larger, Checkpoint, Unset
    <3> HIDE DEF low
    <3>3. b \in low..retriever.to
      BY <3>1 DEF low
    <3>4. CASE b <= lastRetrieved
      BY <1>1, <3>2, <3>3, <3>4 DEF Retrieved, low
    <3>5. CASE b > lastRetrieved
      BY <1>1, <1>4, <2>1, <3>2, <3>3, <3>5 DEF Larger
    <3> QED
      BY <1>1, <3>2, <3>3, <3>4, <3>5
  <2>4. ASSUME NEW b \in retriever.from..retriever.to
        PROVE  b <= HeadBlock /\ \A t \in chain[b].txs : Recorded(t, b)
    BY <1>1, <1>4, <2>1 DEF RetrieverRange
  <2>5. \A t, b : Recorded(t, b)' <=> Recorded(t, b)
    BY <2>1 DEF Recorded
  <2>6. RetrievedRecorded'
    BY <1>2, <2>3, <2>4, <2>5 DEF RetrievedRecorded
  <2> QED
    BY <2>2, <2>6
<1> QED
  BY <1>5, <1>6, <1>7, <1>8, <1>9 DEF Retrieve, RetrieverStep

LEMMA RetrievedInvNext ==
    ASSUME AuditInv, AuditInv', RetrievedInv, [Next]_vars
    PROVE  RetrievedInv'
<1>0. TypeOK /\ StoreTypeOK /\ StoreInv /\ ChainTypeOK /\ ChainInv
  BY DEF AuditInv, TypeOK
<1>1. RemovedInv'
  BY RemovedInvNext DEF RetrievedInv
<1>2. HeadBlock \in Nat /\ HeadBlock' \in Nat /\ DOMAIN chain = 1..HeadBlock
  BY <1>0 DEF AuditInv, TypeOK, ChainTypeOK, HeadBlock
<1> SUFFICES ASSUME forks' = 0 PROVE RetrieverRange' /\ RetrievedRecorded'
  BY <1>1 DEF RetrievedInv, RetrievedRecorded
<1>3. CASE ChainGrows
  <2>1. PICK keep \in Nat :
             /\ \/ forks' = forks /\ keep = Len(chain)
                \/ forks' = forks + 1
             /\ Len(chain') = keep + 1
             /\ \A b \in 1..keep : chain'[b] = chain[b]
    BY <1>0, <1>3, ChainGrowsForm DEF ChainGrows
  <2>2. forks = 0 /\ keep = HeadBlock
    BY <1>0, <2>1, ChainAssumption DEF ChainTypeOK, Forks, HeadBlock
  <2>3. /\ UNCHANGED <<docs, retriever, lastRetrieved, retrieveStart>>
        /\ HeadBlock' = HeadBlock + 1
    BY <1>3, <2>1, <2>2 DEF ChainGrows, storeVars, history, HeadBlock
  <2>4. RecordedKept
    BY <2>3 DEF RecordedKept, Recorded
  <2>5. RetrieverRange /\ RetrievedRecorded
    BY <2>2 DEF RetrievedInv, RetrievedRecorded
  <2> QED
    BY <1>0, <1>2, <2>1, <2>2, <2>3, <2>4, <2>5, OthersKeepRetrieved
<1>4. CASE Retrieve
  <2>1. forks = 0
    BY <1>4 DEF Retrieve, RetrieverStep, RetrieverBootstrap, RetrieverReadHead, RetrieverPull,
     RetrieverSave, RetrieverAdvance, chainVars
  <2> QED
    BY <1>4, <2>1, RetrieveRetrieved DEF RetrievedInv, RetrievedRecorded
<1>q. ASSUME UNCHANGED <<chain, forks, lastRetrieved, retrieveStart>>,
             retriever' \in {retriever, RetrieverIdle}, RecordedKept
      PROVE  RetrieverRange' /\ RetrievedRecorded'
  <2>1. RetrieverRange /\ RetrievedRecorded
    BY <1>q DEF RetrievedInv, RetrievedRecorded
  <2>2. HeadBlock' = HeadBlock
    BY <1>q DEF HeadBlock
  <2> QED
    BY <1>0, <1>2, <1>q, <2>1, <2>2, OthersKeepRetrieved
<1>5. CASE BlockFinalized \/ CacheExpires \/ Fail \/ UNCHANGED vars
  <2>1. /\ UNCHANGED <<chain, forks, docs, lastRetrieved, retrieveStart>>
        /\ retriever' \in {retriever, RetrieverIdle}
    BY <1>5 DEF BlockFinalized, Finalize, CacheExpires, Fail, RetrieverFail, AuditorFail,
       ProcessorFail, chainVars, storeVars, vars, history
  <2>2. RecordedKept
    BY <1>0, <2>1, MarkRecords
  <2> QED
    BY <1>q, <2>1, <2>2
<1>6. CASE Process
  <2>1. /\ UNCHANGED <<chain, forks, retriever, lastRetrieved, retrieveStart>>
        /\ docs' = docs \/ \E s : docs' = Stamped(s)
    BY <1>6 DEF Process, ProcessorStep, ProcessorFetch, ProcessorHandle, ProcessorFinalize,
       ProcessorCheck, ProcessorEmit, chainVars, storeVars
  <2>2. RecordedKept
    BY <1>0, <2>1, MarkRecords
  <2> QED
    BY <1>q, <2>1, <2>2
<1>7. CASE Audit
  <2>1. UNCHANGED <<chain, forks, retriever, lastRetrieved, retrieveStart>>
    BY <1>7 DEF Audit, AuditorStep, AuditorReadFrontier, AuditorStart, AuditorCompare,
       AuditorRemove, AuditorPurge, AuditorUpsert, AuditorReset, AuditorRefresh, AuditorAdvance,
       chainVars, storeVars
  <2>2. CASE AuditorReadFrontier \/ AuditorStart \/ AuditorCompare \/ AuditorRemove
             \/ AuditorPurge \/ AuditorReset \/ AuditorAdvance
    <3>1. \/ docs' = docs
          \/ \E b : ResetLastProcessedFromBlock(b)
          \/ \E blocks : UpdateManyAsRemoved(blocks)
      BY <2>2 DEF AuditorReadFrontier, AuditorStart, AuditorCompare, AuditorRemove,
         AuditorPurge, AuditorReset, AuditorAdvance, storeVars
    <3>2. RecordedKept
      BY <1>0, <3>1, MarkRecords
    <3> QED
      BY <1>q, <2>1, <3>2
  <2>3. CASE AuditorUpsert \/ AuditorRefresh
    <3>1. PICK e \in auditor.repair \cup auditor.refresh : UpdateOrCreate(e)
      BY <2>3 DEF AuditorUpsert, AuditorRefresh
    <3>2. e \in ChainEvent /\ Comparing
      BY <1>0, <2>3 DEF AuditorUpsert, AuditorRefresh, Comparing, TypeOK, AuditorTypeOK
    <3>3. e.block \in 1..finalized /\ e.block \in DOMAIN chain /\ AgreesWithFinal(e)
      BY <3>2, AuditIsFinal DEF AuditInv, AuditorRange
    <3>4. e.tx \in chain[e.block].txs /\ e.fork = chain[e.block].fork
      BY <3>3 DEF AgreesWithFinal
    <3>5. chain[e.block].fork = 0
      BY <1>0, <2>1, <3>3, Unforked
    <3>6. RecordedKept
      BY <1>0, <1>2, <3>1, <3>2, <3>3, <3>4, <3>5, UpsertRecords
    <3> QED
      BY <1>q, <2>1, <3>6
  <2> QED
    BY <1>7, <2>2, <2>3 DEF Audit, AuditorStep
<1> QED
  BY <1>3, <1>4, <1>5, <1>6, <1>7 DEF Next

LEMMA RetrievedInvInit == Init => RetrievedInv
<1> SUFFICES ASSUME Init PROVE RetrievedInv
  OBVIOUS
<1>1. RemovedInv
  BY DEF Init, StoreInit, RemovedInv, Unset
<1>2. RetrieverRange
  BY DEF Init, RetrieverInit, RetrieverIdle, RetrieverRange
<1>3. Retrieved = {}
  BY StoreAssumption DEF Init, StoreInit, Retrieved, Larger, Unset
<1> QED
  BY <1>1, <1>2, <1>3 DEF RetrievedInv

\* What was retrieved is stored, or it was audited since and is stored again.
LEMMA RetrievedInvImplies == AuditInv /\ RetrievedInv => RetrievedComplete
<1> SUFFICES ASSUME AuditInv, RetrievedInv, forks = 0, NEW b \in Retrieved, NEW t \in chain[b].txs
             PROVE  \E d \in docs :
                      /\ Identity(d) = [tx |-> t, block |-> b, fork |-> chain[b].fork]
                      /\ d.removed => lastAudited < b
  BY DEF RetrievedComplete, Canonical
<1>1. /\ HeadBlock \in Nat /\ Origin \in Nat \ {0} /\ lastAudited \in Int /\ auditStart \in Int
      /\ retrieveStart \in Int /\ lastRetrieved \in Int /\ DOMAIN chain = 1..HeadBlock
  BY StoreAssumption DEF AuditInv, TypeOK, ChainTypeOK, StoreTypeOK, HeadBlock, Checkpoint, Unset
<1>2. b \in DOMAIN chain /\ b >= Origin /\ b \in Int
  BY <1>1 DEF RetrievedInv, Retrieved, Larger
<1>3. chain[b].fork = 0
  BY <1>2, Unforked DEF AuditInv, TypeOK
<1>4. PICK d \in docs : d.tx = t /\ d.block = b /\ d.fork = 0
  BY DEF RetrievedInv, Recorded
<1>5. CASE ~d.removed \/ lastAudited < b
  BY <1>3, <1>4, <1>5 DEF Identity
<1>6. CASE d.removed /\ ~ (lastAudited < b)
  <2>1. b \in Audited
    BY <1>1, <1>2, <1>4, <1>6 DEF RetrievedInv, RemovedInv, Audited, Larger
  <2>2. Sound(b) /\ t \in StoredTxs(b)
    BY <2>1 DEF AuditInv, AuditedInv
  <2>3. PICK c \in StoredIn(b) : c.tx = t
    BY <2>2 DEF StoredTxs
  <2>4. c \in docs /\ ~c.removed /\ c.block = b /\ c.fork = chain[b].fork
    BY <2>2, <2>3 DEF StoredIn, Live, Sound
  <2> QED
    BY <2>3, <2>4 DEF Identity
<1> QED
  BY <1>5, <1>6

\* The checkpoint of the retriever never runs ahead of the events: until the
\* chain forks every log of a block it has passed is stored, whatever fails or
\* is audited meanwhile (runner, setLastRetrievedBlock).
THEOREM RetrievedCompleteCorrect == SlowRetriever = FALSE => (Spec => []RetrievedComplete)
<1> SUFFICES ASSUME SlowRetriever = FALSE PROVE Spec => []RetrievedComplete
  OBVIOUS
<1>1. AuditInv /\ RetrievedInv /\ [Next]_vars => AuditInv' /\ RetrievedInv'
  BY AuditInvNext, RetrievedInvNext
<1> QED
  BY AuditInvInit, RetrievedInvInit, RetrievedInvImplies, <1>1, PTL DEF Spec

-----------------------------------------------------------------------------
(* The order of the chain: events are stored, fetched and so handled in it. *)

\* All that the order is about, but for the blocks on top.
OrderVars == <<docs, activities, handled, lastRetrieved, retrieveStart>>

UntouchedOrder ==
    /\ \A b, c \in DOMAIN chain : b # c => chain[b].txs \cap chain[c].txs = {}
    /\ StoredInOrder
    /\ RetrievingInOrder
    /\ HandlingInOrder

\* What the types give the numbers that are compared.
LEMMA OrderTypes ==
    ASSUME TypeOK
    PROVE  /\ HeadBlock \in Nat /\ DOMAIN chain = 1..HeadBlock /\ 1..HeadBlock \subseteq Heights
           /\ Heights \subseteq Nat /\ Origin \in Nat \ {0}
           /\ lastRetrieved \in Checkpoint /\ retrieveStart \in Checkpoint
           /\ Tx \subseteq Nat /\ handled \subseteq Tx
           /\ retriever.from \in Nat /\ retriever.to \in Nat
           /\ retriever.events \subseteq ChainEvent
           /\ processor.batch \subseteq Snapshot
           /\ \A d \in docs : d \in Doc /\ d.tx \in Tx /\ d.block \in Heights
BY ChainAssumption, StoreAssumption DEF TypeOK, ChainTypeOK, StoreTypeOK, RetrieverTypeOK,
   ProcessorTypeOK, HeadBlock, Heights, Doc

\* An audit leaves events alone until its checkpoint is there.
LEMMA UntouchedBefore ==
    ASSUME TypeOK, TypeOK', OrderInv, [Next]_vars
    PROVE  /\ (Comparing => lastAudited # Unset)'
           /\ Untouched' => /\ Untouched
                            /\ Audit => UNCHANGED <<docs, activities, lastRetrieved>>
<1>0. /\ lastAudited \in Checkpoint /\ Origin \in Nat \ {0} /\ BlockBatch \in Nat \ {0}
      /\ auditor.from \in Nat /\ auditor.target \in Nat /\ forks \in Nat
  BY StoreAssumption, ChainAssumption DEF TypeOK, StoreTypeOK, AuditorTypeOK, ChainTypeOK, Forks
<1>1. BatchEnd # Unset
  BY <1>0 DEF BatchEnd, Smaller, Unset
<1>2. forks' = forks \/ forks' = forks + 1
  BY DEF Next, ChainGrows, Mine, Reorg, BlockFinalized, Finalize, CacheExpires, Retrieve,
     RetrieverStep, RetrieverBootstrap, RetrieverReadHead, RetrieverPull, RetrieverSave,
     RetrieverAdvance, Audit, AuditorStep, AuditorReadFrontier, AuditorStart, AuditorCompare,
     AuditorRemove, AuditorPurge, AuditorUpsert, AuditorReset, AuditorRefresh, AuditorAdvance,
     Process, ProcessorStep, ProcessorFetch, ProcessorHandle, ProcessorFinalize, ProcessorCheck,
     ProcessorEmit, Fail, RetrieverFail, AuditorFail, ProcessorFail, vars, chainVars
<1>3. CASE Audit
  <2>1. CASE AuditorReadFrontier
    BY <2>1 DEF AuditorReadFrontier, AuditorIdle, Comparing, storeVars, chainVars, Untouched
  <2>2. CASE AuditorStart
    <3>1. \/ lastAudited # Unset /\ lastAudited' # Unset
          \/ Source = "Starknet"
          \/ lastAudited' = EthereumBootstrap
      BY <2>2, <1>0 DEF AuditorStart, Checkpoint, Unset
    <3>2. EthereumBootstrap # Unset
      BY <1>0 DEF EthereumBootstrap, Larger, Unset
    <3>3. auditor'.pc = "compare" => lastAudited' # Unset
      BY <1>0, <2>2 DEF AuditorStart, AuditorIdle, Checkpoint, Unset, StarknetBootstrap,
         EthereumBootstrap, Larger
    <3>4. auditor'.pc \in {"idle", "compare"}
      <4>1. \/ auditor' = AuditorIdle
            \/ \E start : auditor' = [auditor EXCEPT !.pc = "compare", !.from = start]
        BY <2>2 DEF AuditorStart
      <4>2. auditor \in [pc : AuditorPc, from : Nat, target : Nat, changed : SUBSET Nat,
                         txs : SUBSET Tx, repair : SUBSET ChainEvent,
                         refresh : SUBSET ChainEvent]
        BY DEF TypeOK, AuditorTypeOK
      <4>3. \A start : [auditor EXCEPT !.pc = "compare", !.from = start].pc = "compare"
        BY <4>2
      <4>4. AuditorIdle.pc = "idle"
        BY DEF AuditorIdle
      <4> QED
        BY <4>1, <4>3, <4>4
    <3> QED
      BY <3>1, <3>2, <3>3, <3>4 DEF Comparing, Untouched
  <2>3. CASE AuditorAdvance
    BY <1>1, <2>3 DEF AuditorAdvance, Untouched
  <2>4. CASE AuditorCompare \/ AuditorRemove \/ AuditorPurge \/ AuditorUpsert \/ AuditorReset
             \/ AuditorRefresh
    <3>1. Comparing /\ lastAudited' = lastAudited
      BY <2>4 DEF AuditorCompare, AuditorRemove, AuditorPurge, AuditorUpsert, AuditorReset,
         AuditorRefresh, Comparing, storeVars
    <3> QED
      BY <3>1 DEF OrderInv, Untouched
  <2> QED
    BY <1>3, <2>1, <2>2, <2>3, <2>4 DEF Audit, AuditorStep
<1>4. CASE ~Audit
  <2>1. lastAudited' = lastAudited /\ (auditor' = auditor \/ auditor' = AuditorIdle)
    BY <1>4 DEF Next, ChainGrows, Mine, Reorg, BlockFinalized, Finalize, CacheExpires, Retrieve,
       RetrieverStep, RetrieverBootstrap, RetrieverReadHead, RetrieverPull, RetrieverSave,
       RetrieverAdvance, Process, ProcessorStep, ProcessorFetch, ProcessorHandle,
       ProcessorFinalize, ProcessorCheck, ProcessorEmit, Fail, RetrieverFail, AuditorFail,
       ProcessorFail, vars, storeVars
  <2> QED
    BY <1>0, <1>2, <1>4, <2>1 DEF OrderInv, Untouched, Comparing, AuditorIdle
<1> QED
  BY <1>3, <1>4

LEMMA DueSame ==
    ASSUME UNCHANGED <<chain, retrieveStart>>, NEW t, NEW b
    PROVE  Due(t, b)' = Due(t, b)
BY DEF Due

\* A new block is after all that is stored or handled.
LEMMA MineOrder ==
    ASSUME TypeOK, TypeOK', UntouchedOrder, Mine,
           UNCHANGED <<OrderVars, retriever, processor>>
    PROVE  UntouchedOrder'
<1> DEFINE new == HeadBlock + 1
<1>0. /\ HeadBlock \in Nat /\ DOMAIN chain = 1..HeadBlock /\ 1..HeadBlock \subseteq Heights
      /\ Heights \subseteq Nat /\ Origin \in Nat \ {0}
      /\ lastRetrieved \in Checkpoint /\ retrieveStart \in Checkpoint
      /\ \A d \in docs : d.tx \in Tx /\ d.block \in Heights
      /\ processor.batch \subseteq Snapshot /\ handled \subseteq Tx
      /\ retriever.from \in Nat /\ retriever.to \in Nat
  BY OrderTypes
<1>1. PICK txs \in SUBSET (Tx \ Included(chain)) :
        chain' = Append(chain, [fork |-> forks, txs |-> txs])
  BY DEF Mine
<1>2. /\ HeadBlock' = new /\ DOMAIN chain' = 1..new
      /\ \A b \in 1..HeadBlock : chain'[b] = chain[b]
      /\ chain'[new].txs = txs
  <2>1. chain \in Seq(Block)
    BY DEF TypeOK, ChainTypeOK
  <2> QED
    BY <1>0, <1>1, <2>1 DEF HeadBlock
<1>3. \A b \in 1..HeadBlock : txs \cap chain[b].txs = {}
  BY <1>0, <1>1 DEF Included
<1>4. ASSUME NEW t, NEW b
      PROVE  /\ Due(t, b) => Due(t, b)' /\ b \in 1..HeadBlock
             /\ Due(t, b)' => Due(t, b) \/ (b = new /\ t \in txs)
             /\ Due(t, b)' => b \in 1..new /\ b >= Larger(Origin, retrieveStart + 1)
  BY <1>0, <1>2 DEF Due, OrderVars
<1> HIDE DEF new
<1>5. new \in Nat /\ \A b \in 1..HeadBlock : b \in Nat /\ b < new
  BY <1>0 DEF new
<1>6. \A b, c \in DOMAIN chain' : b # c => chain'[b].txs \cap chain'[c].txs = {}
  <2>1. \A b \in DOMAIN chain' : b \in 1..HeadBlock \/ b = new
    BY <1>0, <1>2 DEF new
  <2> QED
    BY <1>0, <1>2, <1>3, <2>1 DEF UntouchedOrder
<1>7. UNCHANGED <<docs, activities, handled, lastRetrieved, retrieveStart, retriever, processor>>
  BY DEF OrderVars
<1>8. StoredInOrder'
  <2>1. \A d \in docs : ~d.removed /\ Due(d.tx, d.block)' /\ (d.done => d.tx \in handled)
    BY <1>4 DEF UntouchedOrder, StoredInOrder
  <2>2. ASSUME NEW b \in Heights, NEW t \in Tx, Due(t, b)'
        PROVE  /\ b <= lastRetrieved => HasDoc(t, b)
               /\ \A d \in docs : Earlier(t, b, d.tx, d.block) => HasDoc(t, b)
    <3>1. CASE Due(t, b)
      BY <3>1 DEF UntouchedOrder, StoredInOrder
    <3>2. CASE b = new
      <4>1. ~(b <= lastRetrieved)
        BY <1>0, <1>4, <1>5, <2>2, <3>2 DEF new, UntouchedOrder, RetrievingInOrder, Larger,
           Checkpoint, Unset
      <4>2. \A d \in docs : d.block < b
        BY <1>4, <1>5, <3>2 DEF UntouchedOrder, StoredInOrder
      <4>3. ASSUME NEW d \in docs PROVE ~Earlier(t, b, d.tx, d.block)
        <5>1. d.block \in Nat /\ b \in Nat /\ d.block < b
          BY <1>0, <4>2
        <5> QED
          BY <5>1 DEF Earlier
      <4> QED
        BY <4>1, <4>3
    <3> QED
      BY <1>4, <2>2, <3>1, <3>2
  <2> QED
    BY <1>7, <2>1, <2>2 DEF StoredInOrder, HasDoc, Earlier
<1>9. RetrievingInOrder'
  <2>1. \A b \in retriever.from..retriever.to : retriever.to <= HeadBlock => b # new
    BY <1>0 DEF new
  <2>2. retriever.to <= HeadBlock => retriever.to <= new
    BY <1>0 DEF new
  <2>3. lastRetrieved <= HeadBlock => lastRetrieved <= new
    BY <1>0 DEF new, Checkpoint, Unset
  <2> QED
    BY <1>2, <1>4, <1>7, <2>1, <2>2, <2>3 DEF UntouchedOrder, RetrievingInOrder, HasDoc
<1>10. HandlingInOrder'
  <2>1. \A u \in handled : \E c \in Heights : Due(u, c)'
    BY <1>4 DEF UntouchedOrder, HandlingInOrder
  <2>2. ASSUME NEW u \in handled, NEW b \in Heights, NEW c \in Heights, NEW t \in Tx,
               Due(u, c)', Due(t, b)', Earlier(t, b, u, c)
        PROVE  t \in handled
    <3>1. PICK k \in Heights : Due(u, k)
      BY DEF UntouchedOrder, HandlingInOrder
    <3>2. u \notin txs
      BY <1>3, <1>4, <3>1 DEF Due
    <3>3. Due(u, c)
      BY <1>4, <2>2, <3>2
    <3>4. b # new
      BY <1>0, <1>4, <1>5, <2>2, <3>3 DEF Earlier
    <3>5. Due(t, b)
      BY <1>4, <2>2, <3>4
    <3> QED
      BY <2>2, <3>3, <3>5 DEF UntouchedOrder, HandlingInOrder
  <2>3. ASSUME NEW s \in processor.batch
        PROVE  /\ Due(s.tx, s.block)'
               /\ \A b \in Heights, t \in Tx :
                    Due(t, b)' /\ Earlier(t, b, s.tx, s.block) =>
                      t \in handled \/ \E r \in processor.batch : r.tx = t /\ r.block = b
    <3>1. Due(s.tx, s.block)
      BY DEF UntouchedOrder, HandlingInOrder
    <3>2. ASSUME NEW b \in Heights, NEW t \in Tx, Due(t, b)', Earlier(t, b, s.tx, s.block)
          PROVE  Due(t, b)
      <4>1. b # new
        BY <1>0, <1>4, <1>5, <3>1, <3>2 DEF Earlier
      <4> QED
        BY <1>4, <3>2, <4>1
    <3> QED
      BY <1>4, <3>1, <3>2 DEF UntouchedOrder, HandlingInOrder
  <2> QED
    BY <1>7, <2>1, <2>2, <2>3 DEF UntouchedOrder, HandlingInOrder, Earlier, Current, Before
<1> QED
  BY <1>6, <1>8, <1>9, <1>10 DEF UntouchedOrder

\* The bulk write stores a log, and none is lost.
LEMMA UpsertStores ==
    ASSUME StoreTypeOK, Source = "Ethereum", NEW e \in ChainEvent, UpdateOrCreate(e)
    PROVE  /\ \A d \in docs' : d \in docs \/ (d.tx = e.tx /\ d.block = e.block
                                             /\ d.removed = FALSE /\ d.done = FALSE)
           /\ HasDoc(e.tx, e.block)'
           /\ \A t, b : HasDoc(t, b) => HasDoc(t, b)'
<1>1. CASE docs' = docs \cup {NewDoc(e)}
  <2>1. /\ NewDoc(e).tx = e.tx /\ NewDoc(e).block = e.block
        /\ NewDoc(e).removed = FALSE /\ NewDoc(e).done = FALSE
    BY DEF NewDoc
  <2> QED
    BY <1>1, <2>1 DEF HasDoc
<1>2. CASE \E d \in docs : Matches(d, e) /\ docs' = (docs \ {d}) \cup {Refreshed(d, e)}
  <2>1. PICK d \in docs : Matches(d, e) /\ docs' = (docs \ {d}) \cup {Refreshed(d, e)}
    BY <1>2
  <2>2. d.tx = e.tx /\ d.block = e.block /\ d \in Doc
    BY <2>1 DEF Matches, EthereumMatches, SameLog, StoreTypeOK
  <2>3. /\ Refreshed(d, e).tx = e.tx /\ Refreshed(d, e).block = e.block
        /\ Refreshed(d, e).removed = FALSE /\ Refreshed(d, e).done = FALSE
    BY <2>2 DEF Refreshed, Doc
  <2>4. \A x \in docs' : x \in docs \/ x = Refreshed(d, e)
    BY <2>1
  <2>5. Refreshed(d, e) \in docs' /\ \A x \in docs : x \in docs' \/ x = d
    BY <2>1
  <2> QED
    BY <2>2, <2>3, <2>4, <2>5 DEF HasDoc
<1> QED
  BY <1>1, <1>2 DEF UpdateOrCreate

\* The logs of a range are those due in it.
LEMMA LogsDue ==
    ASSUME ChainTypeOK, retrieveStart \in Int, NEW from \in Nat, NEW to \in Nat, NEW cached,
           from >= Larger(Origin, retrieveStart + 1)
    PROVE  /\ \A e \in Logs(from, to, cached) : Due(e.tx, e.block) /\ e.block \in from..to
           /\ \A b \in from..to : \A t \in Tx : Due(t, b) =>
                \E e \in Logs(from, to, cached) : e.tx = t /\ e.block = b
<1> DEFINE Log(t, b) == [tx |-> t, block |-> b, fork |-> chain[b].fork,
                         status |-> Status(b, cached)]
<1>0. /\ DOMAIN chain \subseteq Nat /\ Origin \in Nat
  BY StoreAssumption DEF ChainTypeOK
<1>1. ASSUME NEW e \in Logs(from, to, cached)
      PROVE  Due(e.tx, e.block) /\ e.block \in from..to
  <2>1. PICK b \in (from..to) \cap DOMAIN chain : \E t \in chain[b].txs : e = Log(t, b)
    BY <1>1 DEF Logs
  <2>2. e.block = b /\ e.tx \in chain[b].txs
    BY <2>1
  <2>3. b >= from /\ b \in Nat
    BY <1>0, <2>1
  <2>4. b >= Larger(Origin, retrieveStart + 1)
    BY <1>0, <2>3 DEF Larger
  <2> QED
    BY <2>1, <2>2, <2>4 DEF Due
<1>2. ASSUME NEW b \in from..to, NEW t \in Tx, Due(t, b)
      PROVE  \E e \in Logs(from, to, cached) : e.tx = t /\ e.block = b
  <2>1. b \in (from..to) \cap DOMAIN chain /\ t \in chain[b].txs
    BY <1>2 DEF Due
  <2>2. Log(t, b) \in Logs(from, to, cached)
    BY <2>1 DEF Logs
  <2> QED
    BY <2>2
<1> QED
  BY <1>1, <1>2

\* The retriever stores the next logs in order, and its checkpoint follows.
LEMMA RetrieveOrder ==
    ASSUME TypeOK, TypeOK', Untouched, UntouchedOrder, Retrieve
    PROVE  UntouchedOrder'
<1>0. /\ HeadBlock \in Nat /\ DOMAIN chain = 1..HeadBlock /\ 1..HeadBlock \subseteq Heights
      /\ Heights \subseteq Nat /\ Origin \in Nat \ {0}
      /\ lastRetrieved \in Checkpoint /\ retrieveStart \in Checkpoint
      /\ \A d \in docs : d.tx \in Tx /\ d.block \in Heights
      /\ retriever.from \in Nat /\ retriever.to \in Nat /\ retriever.events \subseteq ChainEvent
  BY OrderTypes
<1>1. /\ UNCHANGED <<chain, activities, handled, processor>> /\ HeadBlock' = HeadBlock
      /\ retrieveStart' = IF lastRetrieved = Unset THEN lastRetrieved' ELSE retrieveStart
  BY DEF Retrieve, RetrieverStep, RetrieverBootstrap, RetrieverReadHead, RetrieverPull,
     RetrieverSave, RetrieverAdvance, chainVars, HeadBlock
<1>2. \A b, c \in DOMAIN chain' : b # c => chain'[b].txs \cap chain'[c].txs = {}
  BY <1>1 DEF UntouchedOrder
<1>3. CASE RetrieverBootstrap
  <2>1. /\ lastRetrieved = Unset /\ UNCHANGED <<docs, retriever>>
        /\ retrieveStart' = lastRetrieved'
    BY <1>1, <1>3 DEF RetrieverBootstrap
  <2>2. /\ docs = {} /\ handled = {} /\ processor.batch = {} /\ retriever.pc = "idle"
    BY <2>1 DEF UntouchedOrder, RetrievingInOrder
  <2>3. lastRetrieved' \in Int /\ lastRetrieved' # Unset
    <3>1. lastRetrieved' \in {Larger(Origin - 1, HeadBlock - RetrieverLookback), Origin - 1}
      <4>1. LatestEventBlock = Unset
        BY <2>2 DEF LatestEventBlock, EventBlocks, Live
      <4> QED
        BY <1>3, <4>1 DEF RetrieverBootstrap, Untouched
    <3> QED
      BY <1>0, <3>1, RetrieverAssumption DEF Larger, Unset
  <2>4. ASSUME NEW b \in Heights, NEW t, Due(t, b)'
        PROVE  ~(b <= lastRetrieved')
    <3> DEFINE last == lastRetrieved'
    <3>1. b \in Nat /\ last \in Int /\ b >= Larger(Origin, last + 1)
      BY <1>0, <2>1, <2>3, <2>4 DEF Due
    <3> HIDE DEF last
    <3>2. ~(b <= last)
      BY <1>0, <3>1 DEF Larger
    <3> QED
      BY <3>2 DEF last
  <2>5. StoredInOrder'
    BY <2>1, <2>2, <2>4 DEF StoredInOrder
  <2>6. RetrievingInOrder'
    BY <2>1, <2>2, <2>3 DEF RetrievingInOrder
  <2>7. HandlingInOrder'
    BY <1>1, <2>2 DEF HandlingInOrder, UntouchedOrder, Current
  <2> QED
    BY <1>2, <2>5, <2>6, <2>7 DEF UntouchedOrder
<1>4. CASE ~RetrieverBootstrap
  <2>1. lastRetrieved # Unset /\ retrieveStart' = retrieveStart
    <3>1. lastRetrieved # Unset
      BY <1>4 DEF Retrieve, RetrieverStep, RetrieverReadHead, RetrieverPull, RetrieverSave,
         RetrieverAdvance, UntouchedOrder, RetrievingInOrder
    <3> QED
      BY <1>1, <3>1
  <2>2. \A t, b : Due(t, b)' = Due(t, b)
    BY <1>1, <2>1, DueSame
  <2>3. HandlingInOrder'
    BY <1>1, <2>2 DEF HandlingInOrder, UntouchedOrder, Earlier, Current, Before
  <2>4. lastRetrieved + 1 \in Nat /\ retrieveStart + 1 \in Nat /\ lastRetrieved \in Nat
        /\ retrieveStart <= lastRetrieved
    BY <1>0, <2>1 DEF Checkpoint, Unset, UntouchedOrder, RetrievingInOrder
  <2>5. CASE RetrieverReadHead
    <3> DEFINE from == Larger(Origin, lastRetrieved + 1)
               to == Smaller(HeadBlock, from + BlockBatch - 1)
    <3>1. /\ UNCHANGED <<docs, lastRetrieved>> /\ retriever.pc = "idle"
          /\ retriever' = IF from <= HeadBlock
                          THEN [RetrieverIdle EXCEPT !.pc = "pull", !.from = from, !.to = to]
                          ELSE retriever
      BY <2>5 DEF RetrieverReadHead
    <3>2. from <= HeadBlock => from <= to /\ to <= HeadBlock
      BY <1>0, <2>4, StoreAssumption DEF Larger, Smaller
    <3>3. from <= HeadBlock => /\ retriever'.pc = "pull" /\ retriever'.from = from
                               /\ retriever'.to = to
      BY <3>1 DEF RetrieverIdle
    <3> HIDE DEF from, to
    <3>4. StoredInOrder'
      BY <1>1, <2>2, <3>1 DEF UntouchedOrder, StoredInOrder, HasDoc, Earlier
    <3>5. RetrievingInOrder'
      <4>1. CASE from <= HeadBlock
        BY <1>1, <2>1, <3>1, <3>2, <3>3, <4>1 DEF UntouchedOrder, RetrievingInOrder, from
      <4>2. CASE ~(from <= HeadBlock)
        BY <1>1, <2>1, <3>1, <4>2 DEF UntouchedOrder, RetrievingInOrder
      <4> QED
        BY <4>1, <4>2
    <3> QED
      BY <1>2, <2>3, <3>4, <3>5 DEF UntouchedOrder
  <2>6. CASE RetrieverPull
    <3> DEFINE logs == Logs(retriever.from, retriever.to, rpcCache)
    <3>1. /\ UNCHANGED <<docs, lastRetrieved>> /\ retriever.pc = "pull"
          /\ retriever' = [retriever EXCEPT !.pc = IF logs = {} THEN "advance" ELSE "save",
                                            !.events = logs]
      BY <2>6 DEF RetrieverPull
    <3>2. /\ retriever'.pc = IF logs = {} THEN "advance" ELSE "save"
          /\ retriever'.events = logs
          /\ retriever'.from = retriever.from /\ retriever'.to = retriever.to
      BY <3>1 DEF TypeOK, RetrieverTypeOK
    <3>3. /\ retriever.from = Larger(Origin, lastRetrieved + 1)
          /\ retriever.from <= retriever.to /\ retriever.to <= HeadBlock
      BY <3>1 DEF UntouchedOrder, RetrievingInOrder
    <3>4. retriever.from >= Larger(Origin, retrieveStart + 1)
      BY <1>0, <2>4, <3>3 DEF Larger
    <3>5. /\ \A e \in logs : Due(e.tx, e.block) /\ e.block \in retriever.from..retriever.to
          /\ \A b \in retriever.from..retriever.to : \A t \in Tx : Due(t, b) =>
                \E e \in logs : e.tx = t /\ e.block = b
      <4>1. ChainTypeOK /\ retrieveStart \in Int
        BY <1>0 DEF TypeOK, Checkpoint, Unset
      <4> QED
        BY <1>0, <3>4, <4>1, LogsDue
    <3> HIDE DEF logs
    <3>6. StoredInOrder'
      BY <1>1, <2>2, <3>1 DEF UntouchedOrder, StoredInOrder, HasDoc, Earlier
    <3>7. RetrievingInOrder'
      <4>1. /\ lastRetrieved' # Unset /\ retrieveStart' <= lastRetrieved'
            /\ lastRetrieved' = retrieveStart' \/ lastRetrieved' <= HeadBlock'
        BY <1>1, <2>1, <2>4, <3>1 DEF UntouchedOrder, RetrievingInOrder
      <4>2. retriever'.pc = "advance" => retriever'.events = {}
        BY <3>2
      <4> QED
        BY <1>1, <2>2, <3>1, <3>2, <3>3, <3>5, <4>1, <4>2 DEF RetrievingInOrder
    <3> QED
      BY <1>2, <2>3, <3>6, <3>7 DEF UntouchedOrder
  <2>7. CASE RetrieverSave
    <3>1. PICK e \in retriever.events :
            /\ MayWrite(e, retriever.events) /\ UpdateOrCreate(e)
            /\ retriever' = [retriever EXCEPT
                               !.events = retriever.events \ {e},
                               !.pc = IF retriever.events \ {e} = {} THEN "advance" ELSE "save"]
      BY <2>7 DEF RetrieverSave
    <3>2. UNCHANGED lastRetrieved /\ retriever.pc = "save"
      BY <2>7 DEF RetrieverSave
    <3>3. e \in ChainEvent /\ e.tx \in Tx /\ e.block \in Heights
      BY <1>0, <3>1 DEF ChainEvent
    <3>4. /\ \A d \in docs' : d \in docs \/ (d.tx = e.tx /\ d.block = e.block
                                             /\ d.removed = FALSE /\ d.done = FALSE)
          /\ HasDoc(e.tx, e.block)'
          /\ \A t, b : HasDoc(t, b) => HasDoc(t, b)'
      BY <3>1, <3>3, UpsertStores DEF TypeOK, Untouched
    <3>5. /\ retriever.from = Larger(Origin, lastRetrieved + 1)
          /\ Due(e.tx, e.block) /\ e.block \in retriever.from..retriever.to
          /\ \A b \in retriever.from..retriever.to : \A t \in Tx :
              Due(t, b) =>
                HasDoc(t, b) \/ \E x \in retriever.events : x.tx = t /\ x.block = b
      BY <3>1, <3>2 DEF UntouchedOrder, RetrievingInOrder
    <3>6. ASSUME NEW b \in Heights, NEW t \in Tx, Due(t, b), Earlier(t, b, e.tx, e.block)
          PROVE  HasDoc(t, b)
      <4>1. CASE b < retriever.from
        <5>1. b <= lastRetrieved
          <6>1. b \in Nat /\ b >= Larger(Origin, retrieveStart + 1)
            BY <1>0, <3>6 DEF Due
          <6> QED
            BY <1>0, <2>4, <3>5, <4>1, <6>1 DEF Larger
        <5> QED
          BY <3>6, <5>1 DEF UntouchedOrder, StoredInOrder
      <4>2. CASE ~(b < retriever.from)
        <5>1. b \in retriever.from..retriever.to
          <6>1. b \in Nat /\ e.block \in Nat
            BY <1>0, <3>3
          <6> QED
            BY <1>0, <3>5, <3>6, <4>2, <6>1 DEF Earlier
        <5>2. \A x \in retriever.events : ~Before(x, e)
          BY <3>1 DEF MayWrite, Untouched
        <5>3. ASSUME NEW x \in retriever.events, x.tx = t, x.block = b
              PROVE  FALSE
          BY <3>6, <5>2, <5>3 DEF Before, Earlier
        <5> QED
          BY <3>5, <3>6, <5>1, <5>3
      <4> QED
        BY <4>1, <4>2
    <3>7. StoredInOrder'
      <4>1. ASSUME NEW d \in docs'
            PROVE  ~d.removed /\ Due(d.tx, d.block)' /\ (d.done => d.tx \in handled')
        BY <1>1, <2>2, <3>4, <3>5 DEF UntouchedOrder, StoredInOrder
      <4>2. ASSUME NEW b \in Heights, NEW t \in Tx, Due(t, b)'
            PROVE  /\ b <= lastRetrieved' => HasDoc(t, b)'
                   /\ \A d \in docs' : Earlier(t, b, d.tx, d.block)' => HasDoc(t, b)'
        <5>1. Due(t, b)
          BY <2>2, <4>2
        <5>2. b <= lastRetrieved => HasDoc(t, b)
          BY <5>1 DEF UntouchedOrder, StoredInOrder
        <5>3. ASSUME NEW d \in docs', Earlier(t, b, d.tx, d.block) PROVE HasDoc(t, b)
          <6>1. CASE d \in docs
            BY <5>1, <5>3, <6>1 DEF UntouchedOrder, StoredInOrder
          <6>2. CASE d.tx = e.tx /\ d.block = e.block
            BY <3>6, <5>1, <5>3, <6>2
          <6> QED
            BY <3>4, <6>1, <6>2
        <5> QED
          BY <3>2, <3>4, <5>2, <5>3 DEF Earlier
      <4> QED
        BY <4>1, <4>2 DEF StoredInOrder
    <3>8. RetrievingInOrder'
      <4>1. /\ retriever'.pc = IF retriever.events \ {e} = {} THEN "advance" ELSE "save"
            /\ retriever'.events = retriever.events \ {e}
            /\ retriever'.from = retriever.from /\ retriever'.to = retriever.to
        BY <3>1 DEF TypeOK, RetrieverTypeOK
      <4>2. /\ lastRetrieved' # Unset /\ retrieveStart' <= lastRetrieved'
            /\ lastRetrieved' = retrieveStart' \/ lastRetrieved' <= HeadBlock'
            /\ retriever'.from = Larger(Origin, lastRetrieved' + 1)
            /\ retriever'.from <= retriever'.to /\ retriever'.to <= HeadBlock'
        BY <1>1, <2>1, <2>4, <3>2, <4>1 DEF UntouchedOrder, RetrievingInOrder
      <4>3. \A x \in retriever'.events :
               Due(x.tx, x.block)' /\ x.block \in retriever'.from..retriever'.to
        BY <2>2, <3>2, <4>1 DEF UntouchedOrder, RetrievingInOrder
      <4>4. ASSUME NEW b \in retriever'.from..retriever'.to, NEW t \in Tx, Due(t, b)'
            PROVE  HasDoc(t, b)' \/ \E x \in retriever'.events : x.tx = t /\ x.block = b
        BY <2>2, <3>4, <3>5, <4>1, <4>4
      <4>5. retriever'.pc = "advance" => retriever'.events = {}
        BY <4>1
      <4> QED
        BY <4>2, <4>3, <4>4, <4>5 DEF RetrievingInOrder
    <3> QED
      BY <1>2, <2>3, <3>7, <3>8 DEF UntouchedOrder
  <2>8. CASE RetrieverAdvance
    <3>1. /\ retriever.pc = "advance" /\ lastRetrieved' = retriever.to
          /\ retriever' = RetrieverIdle /\ UNCHANGED docs
      BY <2>8 DEF RetrieverAdvance
    <3>2. /\ retriever.from = Larger(Origin, lastRetrieved + 1)
          /\ retriever.from <= retriever.to /\ retriever.to <= HeadBlock
          /\ \A b \in retriever.from..retriever.to : \A t \in Tx : Due(t, b) => HasDoc(t, b)
      BY <3>1 DEF UntouchedOrder, RetrievingInOrder
    <3>3. StoredInOrder'
      <4>1. ASSUME NEW b \in Heights, NEW t \in Tx, Due(t, b), b <= retriever.to
            PROVE  HasDoc(t, b)
        <5>1. b \in Nat /\ b >= Larger(Origin, retrieveStart + 1)
          BY <1>0, <4>1 DEF Due
        <5>2. b <= lastRetrieved \/ b \in retriever.from..retriever.to
          BY <1>0, <2>4, <3>2, <4>1, <5>1 DEF Larger
        <5> QED
          BY <3>2, <4>1, <5>2 DEF UntouchedOrder, StoredInOrder
      <4> QED
        BY <1>1, <2>2, <3>1, <4>1 DEF UntouchedOrder, StoredInOrder, HasDoc, Earlier
    <3>4. RetrievingInOrder'
      <4>1. retriever.to # Unset /\ retrieveStart <= retriever.to
        BY <1>0, <2>4, <3>2 DEF Larger, Unset
      <4>2. /\ retriever'.pc = "idle"
        BY <3>1 DEF RetrieverIdle
      <4> QED
        BY <1>1, <2>1, <3>1, <3>2, <4>1, <4>2 DEF RetrievingInOrder
    <3> QED
      BY <1>2, <2>3, <3>3, <3>4 DEF UntouchedOrder
  <2> QED
    BY <1>4, <2>5, <2>6, <2>7, <2>8 DEF Retrieve, RetrieverStep
<1> QED
  BY <1>3, <1>4

\* The documents of a batch that come before all others left are of one log.
LEMMA CurrentIsFirst ==
    ASSUME processor.batch \subseteq Snapshot, NEW s \in Current, NEW r \in processor.batch
    PROVE  /\ ~Before(r, s)
           /\ r \in Current => r.tx = s.tx /\ r.block = s.block
<1>1. r.tx \in Nat /\ s.tx \in Nat /\ r.block \in Nat /\ s.block \in Nat
  <2>1. r \in Snapshot /\ s \in Snapshot
    BY DEF Current
  <2>2. Tx \subseteq Nat /\ Heights \subseteq Nat
    BY ChainAssumption DEF Heights
  <2> QED
    BY <2>1, <2>2 DEF Snapshot
<1> QED
  BY <1>1 DEF Current, Before

\* The processor handles what it fetched first, and nothing is missing from that.
LEMMA ProcessOrder ==
    ASSUME TypeOK, TypeOK', Untouched, UntouchedOrder, Process
    PROVE  UntouchedOrder'
<1>0. /\ HeadBlock \in Nat /\ DOMAIN chain = 1..HeadBlock /\ 1..HeadBlock \subseteq Heights
      /\ Heights \subseteq Nat /\ Tx \subseteq Nat
      /\ \A d \in docs : d \in Doc /\ d.tx \in Tx /\ d.block \in Heights
      /\ processor.batch \subseteq Snapshot
      /\ \A s \in processor.batch : s.tx \in Tx /\ s.block \in Heights
  BY OrderTypes DEF Snapshot
<1>1. /\ UNCHANGED <<chain, lastRetrieved, retrieveStart, retriever>> /\ HeadBlock' = HeadBlock
      /\ handled' = handled \cup activities'
  BY DEF Process, ProcessorStep, ProcessorFetch, ProcessorHandle, ProcessorFinalize,
     ProcessorCheck, ProcessorEmit, chainVars, storeVars, HeadBlock
<1>2. \A b, c \in DOMAIN chain' : b # c => chain'[b].txs \cap chain'[c].txs = {}
  BY <1>1 DEF UntouchedOrder
<1>3. \A t, b : Due(t, b)' = Due(t, b)
  BY <1>1, DueSame
<1>4. \A b, c \in DOMAIN chain : \A t : t \in chain[b].txs /\ t \in chain[c].txs => b = c
  BY DEF UntouchedOrder
<1>5. CASE ProcessorFetch
  <2>1. PICK B \in FirstBatches(NonProcessed, BatchSize) :
          processor' = [pc |-> Continue(B), batch |-> {SnapshotOf(d) : d \in B}]
    BY <1>5 DEF ProcessorFetch
  <2>2. UNCHANGED <<docs, activities>>
    BY <1>5 DEF ProcessorFetch, storeVars
  <2>3. handled' = handled
    BY <1>1, <2>2 DEF UntouchedOrder, HandlingInOrder
  <2>4. B \subseteq NonProcessed /\ \A d \in B, e \in NonProcessed \ B : ~Before(e, d)
    BY <2>1 DEF FirstBatches
  <2>5. processor'.batch = {SnapshotOf(d) : d \in B} /\ processor'.pc # "finalize"
    BY <2>1 DEF Continue
  <2>6. ASSUME NEW s \in processor'.batch
        PROVE  /\ Due(s.tx, s.block)
               /\ \A b \in Heights, t \in Tx :
                    Due(t, b) /\ Earlier(t, b, s.tx, s.block) =>
                      t \in handled \/ \E r \in processor'.batch : r.tx = t /\ r.block = b
    <3>1. PICK d \in B : s = SnapshotOf(d)
      BY <2>5
    <3>2. d \in docs /\ s.tx = d.tx /\ s.block = d.block
      BY <2>4, <3>1 DEF NonProcessed, SnapshotOf
    <3>3. Due(s.tx, s.block)
      BY <3>2 DEF UntouchedOrder, StoredInOrder
    <3>4. ASSUME NEW b \in Heights, NEW t \in Tx, Due(t, b), Earlier(t, b, s.tx, s.block)
          PROVE  t \in handled \/ \E r \in processor'.batch : r.tx = t /\ r.block = b
      <4>1. HasDoc(t, b)
        BY <3>2, <3>4 DEF UntouchedOrder, StoredInOrder
      <4>2. PICK e \in docs : e.tx = t /\ e.block = b
        BY <4>1 DEF HasDoc
      <4>3. CASE e.done
        BY <4>2, <4>3 DEF UntouchedOrder, StoredInOrder
      <4>4. CASE ~e.done
        <5>1. e \in NonProcessed
          BY <4>4 DEF NonProcessed, UntouchedOrder, StoredInOrder
        <5>2. Before(e, d)
          BY <3>2, <3>4, <4>2 DEF Before, Earlier
        <5>3. e \in B
          BY <2>4, <5>1, <5>2
        <5>4. SnapshotOf(e) \in processor'.batch
          BY <2>5, <5>3
        <5> QED
          BY <4>2, <5>4 DEF SnapshotOf
      <4> QED
        BY <4>3, <4>4
    <3> QED
      BY <3>3, <3>4
  <2>7. StoredInOrder'
    BY <1>1, <1>3, <2>2, <2>3 DEF UntouchedOrder, StoredInOrder, HasDoc, Earlier
  <2>8. RetrievingInOrder'
    <3>1. docs = {} => processor'.batch = {}
      BY <2>4, <2>5 DEF NonProcessed
    <3> QED
      BY <1>1, <1>3, <2>2, <2>3, <3>1 DEF UntouchedOrder, RetrievingInOrder, HasDoc
  <2>9. HandlingInOrder'
    BY <1>3, <2>2, <2>3, <2>5, <2>6 DEF UntouchedOrder, HandlingInOrder, Earlier
  <2> QED
    BY <1>2, <2>7, <2>8, <2>9 DEF UntouchedOrder
<1>6. CASE ProcessorHandle
  <2>1. PICK s \in Current :
          /\ activities' = activities \cup {s.tx}
          /\ processor' = [processor EXCEPT !.pc = "finalize"]
    BY <1>6 DEF ProcessorHandle
  <2>2. /\ UNCHANGED docs /\ s \in processor.batch /\ processor.batch # {}
        /\ processor'.batch = processor.batch
    BY <1>6, <2>1 DEF ProcessorHandle, Current, TypeOK, ProcessorTypeOK
  <2>3. handled' = handled \cup {s.tx} /\ activities' \subseteq handled'
    BY <1>1, <2>1 DEF UntouchedOrder, HandlingInOrder
  <2>4. /\ Due(s.tx, s.block) /\ s.tx \in Tx /\ s.block \in Heights
    BY <1>0, <2>2 DEF UntouchedOrder, HandlingInOrder
  <2>5. ASSUME NEW b \in Heights, NEW t \in Tx, Due(t, b), Earlier(t, b, s.tx, s.block)
        PROVE  t \in handled
    <3>1. ASSUME NEW r \in processor.batch, r.tx = t, r.block = b
          PROVE  FALSE
      <4>1. Before(r, s)
        BY <2>5, <3>1 DEF Earlier, Before
      <4> QED
        BY <1>0, <4>1, CurrentIsFirst
    <3> QED
      BY <2>2, <2>5, <3>1 DEF UntouchedOrder, HandlingInOrder
  <2>6. ASSUME NEW u \in handled', NEW b \in Heights, NEW c \in Heights, NEW t \in Tx,
               Due(u, c), Due(t, b), Earlier(t, b, u, c)
        PROVE  t \in handled'
    <3>1. CASE u \in handled
      BY <2>3, <2>6, <3>1 DEF UntouchedOrder, HandlingInOrder
    <3>2. CASE u = s.tx
      <4>1. c = s.block
        BY <1>4, <2>4, <2>6, <3>2 DEF Due
      <4> QED
        BY <2>3, <2>5, <2>6, <3>2, <4>1
    <3> QED
      BY <2>3, <3>1, <3>2
  <2>7. StoredInOrder'
    BY <1>1, <1>3, <2>2, <2>3 DEF UntouchedOrder, StoredInOrder, HasDoc, Earlier
  <2>8. RetrievingInOrder'
    BY <1>1, <1>3, <2>2 DEF UntouchedOrder, RetrievingInOrder, HasDoc
  <2>9. HandlingInOrder'
    <3>1. \A u \in handled' : \E c \in Heights : Due(u, c)'
      BY <1>3, <2>3, <2>4 DEF UntouchedOrder, HandlingInOrder
    <3>2. \A r \in processor'.batch :
            /\ Due(r.tx, r.block)'
            /\ \A b \in Heights, t \in Tx :
                 Due(t, b)' /\ Earlier(t, b, r.tx, r.block) =>
                   t \in handled' \/ \E x \in processor'.batch : x.tx = t /\ x.block = b
      BY <1>3, <2>2, <2>3 DEF UntouchedOrder, HandlingInOrder
    <3>3. \A r \in Current' : r.tx \in handled'
      <4>1. Current' = Current
        BY <2>2 DEF Current
      <4>2. \A r \in Current : r.tx = s.tx
        BY <1>0, CurrentIsFirst DEF Current
      <4> QED
        BY <2>3, <4>1, <4>2
    <3> QED
      BY <1>3, <2>3, <2>6, <3>1, <3>2, <3>3 DEF HandlingInOrder, Earlier
  <2> QED
    BY <1>2, <2>7, <2>8, <2>9 DEF UntouchedOrder
<1>7. CASE ProcessorFinalize
  <2>1. PICK s \in Current :
          /\ docs' = Stamped(s)
          /\ processor' = [pc |-> Continue(processor.batch \ {s}), batch |-> processor.batch \ {s}]
    BY <1>7 DEF ProcessorFinalize
  <2>2. /\ processor.pc = "finalize" /\ UNCHANGED activities /\ s \in processor.batch
        /\ processor'.batch = processor.batch \ {s} /\ processor'.pc # "finalize"
    BY <1>7, <2>1 DEF ProcessorFinalize, Current, Continue
  <2>3. handled' = handled /\ s.tx \in handled
    BY <1>1, <2>2 DEF UntouchedOrder, HandlingInOrder
  <2>4. ASSUME NEW d \in docs'
        PROVE  \E c \in docs : /\ d.tx = c.tx /\ d.block = c.block /\ d.removed = c.removed
                               /\ d.done => c.done \/ c.tx = s.tx
    <3>1. PICK c \in docs : d = IF c.tx = s.tx /\ c.n = s.n THEN [c EXCEPT !.done = TRUE] ELSE c
      BY <2>1 DEF Stamped
    <3>2. c \in Doc
      BY <1>0
    <3>3. /\ d.tx = c.tx /\ d.block = c.block /\ d.removed = c.removed
          /\ d.done => c.done \/ c.tx = s.tx
      BY <3>1, <3>2 DEF Doc
    <3> QED
      BY <3>3
  <2>5. ASSUME NEW c \in docs PROVE \E d \in docs' : d.tx = c.tx /\ d.block = c.block
    <3> DEFINE d == IF c.tx = s.tx /\ c.n = s.n THEN [c EXCEPT !.done = TRUE] ELSE c
    <3>1. c \in Doc /\ d \in docs'
      BY <1>0, <2>1 DEF Stamped
    <3>2. d.tx = c.tx /\ d.block = c.block
      BY <3>1 DEF Doc
    <3> QED
      BY <3>1, <3>2
  <2>6. \A t, b : HasDoc(t, b) => HasDoc(t, b)'
    BY <2>5 DEF HasDoc
  <2>7. StoredInOrder'
    <3>1. ASSUME NEW d \in docs'
          PROVE  ~d.removed /\ Due(d.tx, d.block)' /\ (d.done => d.tx \in handled')
      BY <1>3, <2>3, <2>4 DEF UntouchedOrder, StoredInOrder
    <3>2. ASSUME NEW b \in Heights, NEW t \in Tx, Due(t, b)'
          PROVE  /\ b <= lastRetrieved' => HasDoc(t, b)'
                 /\ \A d \in docs' : Earlier(t, b, d.tx, d.block)' => HasDoc(t, b)'
      <4>1. Due(t, b)
        BY <1>3, <3>2
      <4>2. b <= lastRetrieved => HasDoc(t, b)
        BY <4>1 DEF UntouchedOrder, StoredInOrder
      <4>3. ASSUME NEW d \in docs', Earlier(t, b, d.tx, d.block) PROVE HasDoc(t, b)
        <5>1. PICK c \in docs : d.tx = c.tx /\ d.block = c.block
          BY <2>4
        <5> QED
          BY <4>1, <4>3, <5>1 DEF UntouchedOrder, StoredInOrder
      <4> QED
        BY <1>1, <2>6, <4>2, <4>3 DEF Earlier
    <3> QED
      BY <3>1, <3>2 DEF StoredInOrder
  <2>8. RetrievingInOrder'
    <3>1. lastRetrieved # Unset
      BY <2>2 DEF UntouchedOrder, RetrievingInOrder
    <3> QED
      BY <1>1, <1>3, <2>6, <3>1 DEF UntouchedOrder, RetrievingInOrder
  <2>9. HandlingInOrder'
    <3>1. ASSUME NEW r \in processor'.batch
          PROVE  /\ Due(r.tx, r.block)
                 /\ \A b \in Heights, t \in Tx :
                      Due(t, b) /\ Earlier(t, b, r.tx, r.block) =>
                        t \in handled \/ \E x \in processor'.batch : x.tx = t /\ x.block = b
      BY <2>2, <2>3 DEF UntouchedOrder, HandlingInOrder
    <3> QED
      BY <1>3, <2>2, <2>3, <3>1 DEF UntouchedOrder, HandlingInOrder, Earlier
  <2> QED
    BY <1>2, <2>7, <2>8, <2>9 DEF UntouchedOrder
<1>8. CASE ProcessorCheck \/ ProcessorEmit
  <2>1. /\ UNCHANGED <<docs, activities>> /\ processor'.pc # "finalize"
        /\ processor'.batch \in {processor.batch, {}}
    BY <1>8 DEF ProcessorCheck, ProcessorEmit, ProcessorIdle, storeVars, TypeOK, ProcessorTypeOK
  <2>2. handled' = handled
    BY <1>1, <2>1 DEF UntouchedOrder, HandlingInOrder
  <2>3. StoredInOrder'
    BY <1>1, <1>3, <2>1, <2>2 DEF UntouchedOrder, StoredInOrder, HasDoc, Earlier
  <2>4. RetrievingInOrder'
    BY <1>1, <1>3, <2>1, <2>2 DEF UntouchedOrder, RetrievingInOrder, HasDoc
  <2>5. HandlingInOrder'
    BY <1>3, <2>1, <2>2 DEF UntouchedOrder, HandlingInOrder, Earlier
  <2> QED
    BY <1>2, <2>3, <2>4, <2>5 DEF UntouchedOrder
<1> QED
  BY <1>5, <1>6, <1>7, <1>8 DEF Process, ProcessorStep

\* Steps that leave the events, what was handled and the blocks alone; a worker
\* that fails forgets what it held.
LEMMA RestOrder ==
    ASSUME UntouchedOrder, UNCHANGED <<chain, OrderVars>>,
           retriever' \in {retriever, RetrieverIdle},
           processor' \in {processor, ProcessorIdle}
    PROVE  UntouchedOrder'
<1>1. /\ UNCHANGED <<docs, activities, handled, lastRetrieved, retrieveStart>>
      /\ HeadBlock' = HeadBlock
  BY DEF OrderVars, HeadBlock
<1>2. \A t, b : Due(t, b)' = Due(t, b)
  BY <1>1, DueSame
<1>3. \A b, c \in DOMAIN chain' : b # c => chain'[b].txs \cap chain'[c].txs = {}
  BY DEF UntouchedOrder
<1>4. StoredInOrder'
  BY <1>1, <1>2 DEF UntouchedOrder, StoredInOrder, HasDoc, Earlier
<1>5. RetrievingInOrder'
  <2>1. processor.batch = {} => processor'.batch = {}
    BY DEF ProcessorIdle
  <2>2. CASE retriever' = RetrieverIdle
    <3>1. retriever'.pc = "idle"
      BY <2>2 DEF RetrieverIdle
    <3> QED
      BY <1>1, <2>1, <3>1 DEF UntouchedOrder, RetrievingInOrder
  <2>3. CASE retriever' = retriever
    BY <1>1, <1>2, <2>1, <2>3 DEF UntouchedOrder, RetrievingInOrder, HasDoc
  <2> QED
    BY <2>2, <2>3
<1>6. HandlingInOrder'
  <2>1. CASE processor' = ProcessorIdle
    BY <1>1, <1>2, <2>1 DEF UntouchedOrder, HandlingInOrder, Earlier, ProcessorIdle
  <2>2. CASE processor' = processor
    <3>1. Current' = Current
      BY <2>2 DEF Current
    <3> QED
      BY <1>1, <1>2, <2>2, <3>1 DEF UntouchedOrder, HandlingInOrder, Earlier
  <2> QED
    BY <2>1, <2>2
<1> QED
  BY <1>3, <1>4, <1>5, <1>6 DEF UntouchedOrder

LEMMA OrderInvInit == Init => OrderInv
<1> SUFFICES ASSUME Init PROVE OrderInv
  OBVIOUS
<1>1. /\ chain = << >> /\ docs = {} /\ activities = {} /\ handled = {}
      /\ lastRetrieved = Unset /\ retrieveStart = Unset
      /\ retriever.pc = "idle" /\ processor.batch = {} /\ processor.pc = "idle"
      /\ auditor.pc = "idle"
  BY DEF Init, ChainInit, StoreInit, RetrieverInit, RetrieverIdle, AuditorInit, AuditorIdle,
     ProcessorInit, ProcessorIdle
<1>2. StoredInOrder
  BY <1>1 DEF StoredInOrder, Due
<1>3. RetrievingInOrder
  BY <1>1 DEF RetrievingInOrder, Unset
<1>4. HandlingInOrder
  BY <1>1 DEF HandlingInOrder
<1> QED
  BY <1>1, <1>2, <1>3, <1>4 DEF OrderInv, Comparing

LEMMA OrderInvNext ==
    ASSUME TypeOK, TypeOK', OrderInv, [Next]_vars
    PROVE  OrderInv'
<1>0. (Comparing => lastAudited # Unset)'
  BY UntouchedBefore
<1> SUFFICES ASSUME Untouched' PROVE UntouchedOrder'
  BY <1>0 DEF OrderInv, UntouchedOrder
<1>1. Untouched /\ (Audit => UNCHANGED <<docs, activities, lastRetrieved>>)
  BY UntouchedBefore
<1>2. UntouchedOrder
  BY <1>1 DEF OrderInv, UntouchedOrder
<1>3. CASE ChainGrows
  <2>1. ~Reorg
    BY <1>1 DEF Reorg, Untouched
  <2> QED
    BY <1>2, <1>3, <2>1, MineOrder DEF ChainGrows, OrderVars, storeVars, history
<1>4. CASE Retrieve
  BY <1>1, <1>2, <1>4, RetrieveOrder
<1>5. CASE Process
  BY <1>1, <1>2, <1>5, ProcessOrder
<1>6. CASE BlockFinalized \/ CacheExpires \/ Audit \/ Fail \/ UNCHANGED vars
  <2>1. UNCHANGED <<chain, OrderVars>>
    <3>1. CASE Audit
      BY <1>1, <3>1 DEF Audit, AuditorStep, AuditorReadFrontier, AuditorStart, AuditorCompare,
         AuditorRemove, AuditorPurge, AuditorUpsert, AuditorReset, AuditorRefresh,
         AuditorAdvance, OrderVars, chainVars
    <3>2. CASE Fail
      BY <3>2 DEF Fail, RetrieverFail, AuditorFail, ProcessorFail, OrderVars, chainVars, storeVars,
         history
    <3>3. CASE BlockFinalized \/ CacheExpires \/ UNCHANGED vars
      BY <3>3 DEF BlockFinalized, Finalize, CacheExpires, OrderVars, chainVars, storeVars,
         history, vars
    <3> QED
      BY <1>6, <3>1, <3>2, <3>3
  <2>2. /\ retriever' \in {retriever, RetrieverIdle}
        /\ processor' \in {processor, ProcessorIdle}
    BY <1>6 DEF Audit, Fail, RetrieverFail, AuditorFail, ProcessorFail, BlockFinalized,
       CacheExpires, vars
  <2> QED
    BY <1>2, <2>1, <2>2, RestOrder
<1> QED
  BY <1>3, <1>4, <1>5, <1>6 DEF Next

\* What FirstHandledInOrder asks of a step.
LEMMA HandlesInOrder ==
    ASSUME TypeOK, Source = "Ethereum", OrderInv, [Next]_vars
    PROVE  forks = 0 /\ lastAudited = Unset =>
             \A t \in handled' \ handled, u \in handled :
               \A b, c \in DOMAIN chain :
                 t \in chain[b].txs /\ u \in chain[c].txs => c < b \/ (c = b /\ u < t)
<1> SUFFICES ASSUME forks = 0, lastAudited = Unset, NEW t \in handled' \ handled, NEW u \in handled,
                    NEW b \in DOMAIN chain, NEW c \in DOMAIN chain,
                    t \in chain[b].txs, u \in chain[c].txs
             PROVE  c < b \/ (c = b /\ u < t)
  OBVIOUS
<1>1. UntouchedOrder
  BY DEF OrderInv, Untouched, UntouchedOrder
<1>2. /\ DOMAIN chain \subseteq Nat /\ DOMAIN chain \subseteq Heights /\ Tx \subseteq Nat
      /\ handled \subseteq Tx /\ processor.batch \subseteq Snapshot
  BY OrderTypes
<1>3. \A x, i, j : i \in DOMAIN chain /\ j \in DOMAIN chain /\ x \in chain[i].txs
                   /\ x \in chain[j].txs => i = j
  BY <1>1 DEF UntouchedOrder
<1>4. Process
  BY DEF Next, ChainGrows, BlockFinalized, CacheExpires, Retrieve, Audit, Fail, vars, history
<1>5. PICK s \in processor.batch : t = s.tx
  <2>1. handled' = handled \cup activities' /\ activities \subseteq handled
    BY <1>1, <1>4 DEF Process, UntouchedOrder, HandlingInOrder
  <2>2. activities' # activities
    BY <2>1
  <2>3. ProcessorHandle
    BY <1>4, <2>2 DEF Process, ProcessorStep, ProcessorFetch, ProcessorFinalize, ProcessorCheck,
       ProcessorEmit, storeVars
  <2> QED
    BY <2>1, <2>3 DEF ProcessorHandle, Current
<1>6. Due(t, s.block) /\ b = s.block
  BY <1>1, <1>3, <1>5 DEF UntouchedOrder, HandlingInOrder, Due
<1>7. Due(u, c)
  <2>1. PICK k \in Heights : Due(u, k)
    BY <1>1 DEF UntouchedOrder, HandlingInOrder
  <2>2. k = c
    BY <1>3, <2>1 DEF Due
  <2> QED
    BY <2>1, <2>2
<1>8. t \in Tx /\ t \notin handled
  BY <1>2, <1>5 DEF Snapshot
<1>9. ~Earlier(t, b, u, c)
  BY <1>1, <1>2, <1>6, <1>7, <1>8 DEF UntouchedOrder, HandlingInOrder
<1>10. t \in Nat /\ u \in Nat /\ b \in Nat /\ c \in Nat /\ t # u
  BY <1>2, <1>8
<1> QED
  BY <1>9, <1>10 DEF Earlier

\* Until the chain forks or an audit sets in, the events of Ethereum are handled
\* for the first time in the order of the chain, whatever is retrieved, fails or
\* is restarted meanwhile (getNonProcessed, updateOrCreateMany): for any batch
\* sizes and however slow the retriever is.
THEOREM FirstHandledInOrderCorrect == Source = "Ethereum" => (Spec => FirstHandledInOrder)
<1> SUFFICES ASSUME Source = "Ethereum" PROVE Spec => FirstHandledInOrder
  OBVIOUS
<1> DEFINE InOrder ==
      forks = 0 /\ lastAudited = Unset =>
        \A t \in handled' \ handled, u \in handled :
          \A b, c \in DOMAIN chain :
            t \in chain[b].txs /\ u \in chain[c].txs => c < b \/ (c = b /\ u < t)
<1>1. Init => TypeOK /\ OrderInv
  BY TypeInit, OrderInvInit
<1>2. TypeOK /\ OrderInv /\ [Next]_vars => (TypeOK /\ OrderInv)'
  BY TypeNext, OrderInvNext
<1>3. TypeOK /\ OrderInv /\ [Next]_vars => [InOrder]_vars
  BY HandlesInOrder
<1> QED
  BY <1>1, <1>2, <1>3, PTL DEF Spec, FirstHandledInOrder

\* All of it: the inductive invariant of the pipeline.
THEOREM PipelineInvCorrect == SlowRetriever = FALSE => (Spec => []PipelineInv)
<1> SUFFICES ASSUME SlowRetriever = FALSE PROVE Spec => []PipelineInv
  OBVIOUS
<1>1. Init => PipelineInv
  BY AuditInvInit, StatusInvInit, RetrievedInvInit, OrderInvInit DEF PipelineInv, StatusInv
<1>2. ASSUME PipelineInv, [Next]_vars PROVE PipelineInv'
  <2>1. AuditInv /\ StatusInv /\ RetrievedInv /\ OrderInv
    BY <1>2 DEF PipelineInv
  <2>2. AuditInv' /\ RetrievedInv'
    BY <1>2, <2>1, AuditInvNext, RetrievedInvNext
  <2>3. StatusInv'
    BY <1>2, <2>1, <2>2, StatusInvNext DEF StatusInv
  <2>4. TypeOK /\ TypeOK'
    BY <2>1, <2>2 DEF AuditInv
  <2>5. OrderInv'
    BY <1>2, <2>1, <2>4, OrderInvNext
  <2> QED
    BY <2>2, <2>3, <2>5 DEF PipelineInv
<1> QED
  BY <1>1, <1>2, PTL DEF Spec

=============================================================================
