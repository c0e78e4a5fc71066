---------------------------- MODULE ChainQueries ----------------------------
(***************************************************************************)
(* The read side of the LMDB chain-storage backend (the BlockchainBackend *)
(* fetch_* methods of lmdb_db.rs) and the inbound request handler arms    *)
(* that serve them to peers (inbound_handlers.rs, handle_request).        *)
(*                                                                         *)
(* Each read is an operator of the committed store `db` of ChainStorage:  *)
(* a read transaction sees one committed state, so a read is a function   *)
(* of it.  An absent value (Option::None, or a ValueNotFound error) is a  *)
(* record with found = FALSE.  The store evolves by the writes            *)
(* of ChainStorage, so every property below holds across inserts,          *)
(* top-down rewinds, best-block updates and prunes.                        *)
(***************************************************************************)
EXTENDS ChainStorage

Absent == [found |-> FALSE]

(* lmdb_fetch_matching_after(utxos_db, hash): the output rows keyed by the *)
(* header hash prefix.                                                     *)
OutputRowsOf(d, b) == {key \in DOMAIN d.utxos : key[1] = b}

(* A row as PrunedOutput: NotPruned carries the output, Pruned only its    *)
(* hash, which is the output itself in this model.                         *)
AsPrunedOutput(d, key) == [out |-> d.utxos[key].out, pruned |-> d.utxos[key].pruned]

(* fetch_kernels_in_block: the kernel rows under the header hash prefix.   *)
FetchKernelsInBlock(d, b) == {r.k : r \in {x \in d.kernels : x.blk = b}}

FetchOutputsInBlockUnprunedOnly(d, b) ==
    {AsPrunedOutput(d, key) : key \in {k \in OutputRowsOf(d, b) : ~d.utxos[k].pruned}}

(* fetch_outputs_in_block: every output row of the block, as stored.       *)
FetchOutputsInBlock(d, b) == {AsPrunedOutput(d, key) : key \in OutputRowsOf(d, b)}

(* fetch_inputs_in_block: the input rows under the header hash prefix.     *)
FetchInputsInBlock(d, b) == {r.out : r \in {x \in d.inputs : x.blk = b}}

FetchUtxosInBlockIgnoringDeleted(d, b, deleted) ==
    IF b \notin DOMAIN d.blockHashes \/ d.blockHashes[b] \notin DOMAIN d.blockAccum
    THEN Absent
    ELSE [found   |-> TRUE,
          utxos   |-> FetchOutputsInBlock(d, b),
          deleted |-> d.blockAccum[d.blockHashes[b]].deleted]

(* fetch_utxos_in_block(hash, deleted): a row whose MMR position is in the *)
(* given bitmap is reported Pruned, otherwise as stored; the height of the *)
(* hash and its block accumulated data must exist, whose deleted set is    *)
(* returned with the outputs.                                              *)
FetchUtxosInBlock(d, b, deleted) ==
    IF b \notin DOMAIN d.blockHashes \/ d.blockHashes[b] \notin DOMAIN d.blockAccum
    THEN Absent
    ELSE [found   |-> TRUE,
          utxos   |-> {[out    |-> d.utxos[key].out,
                        pruned |-> key[2] \in deleted \/ d.utxos[key].pruned] :
                       key \in OutputRowsOf(d, b)},
          deleted |-> d.blockAccum[d.blockHashes[b]].deleted]

(* fetch_output_in_txn: txos_hash_to_index gives the row key, the row     *)
(* gives the output (or its hash once pruned), position and header.        *)
FetchOutputInTxn(d, o) ==
    IF o \notin DOMAIN d.txosHashToIndex THEN Absent ELSE
    LET key == <<d.txosHashToIndex[o].blk, d.txosHashToIndex[o].pos>> IN
    IF key \notin DOMAIN d.utxos THEN Absent
    ELSE [found |-> TRUE, out |-> d.utxos[key].out, pruned |-> d.utxos[key].pruned,
          pos |-> key[2], blk |-> key[1], height |-> Height[key[1]]]

(* fetch_unspent_output_hash_by_commitment: the utxo_commitment_index.     *)
FetchUnspentOutputHashByCommitment(d, o) ==
    IF o \in d.utxoCommitment THEN o ELSE "None"

FetchMmrSizeFromCommitmentIndex(d, tree) ==
    IF tree = "Kernel" THEN Cardinality(d.kernels) ELSE Cardinality(d.utxoCommitment)

(* fetch_mmr_size: the number of kernel rows, or of output rows for the   *)
(* output and witness MMRs.                                                *)
FetchMmrSize(d, tree) ==
    IF tree = "Kernel" THEN Cardinality(d.kernels) ELSE Cardinality(DOMAIN d.utxos)

(* utxo_count and kernel_count: the lengths of the commitment index and   *)
(* of kernels_db.                                                          *)
UtxoCount(d) == Cardinality(d.utxoCommitment)

(* fetch_deleted_bitmap: the persisted bitmap, empty when absent.          *)
FetchDeletedBitmap(d) == d.bitmap

(* fetch_metadata: chain height and best block must both be set (they are *)
(* only ever written together, by SetBestBlock).                           *)
FetchChainMetadata(d) ==
    IF d.bestBlock = NoHash THEN Absent
    ELSE [found |-> TRUE, height |-> d.chainHeight, best |-> d.bestBlock]

(* fetch_last_header: the header with the greatest height, an error when  *)
(* there is none.                                                          *)
FetchLastHeader(d) ==
    IF LastHeader(d) = NoHash THEN Absent ELSE [found |-> TRUE, b |-> LastHeader(d)]

(* fetch_tip_header: the metadata's chain height, then the header stored  *)
(* there.                                                                  *)
FetchTipHeader(d) ==
    IF ~FetchChainMetadata(d).found \/ d.chainHeight \notin DOMAIN d.headers THEN Absent
    ELSE [found |-> TRUE, b |-> d.headers[d.chainHeight]]

(* The header reads.  headers_db and header_accumulated_data_db are one   *)
(* field of the store, so their ValueNotFound on missing accumulated data  *)
(* and the try_construct mismatch are not modelled apart from the header. *)

(* fetch_chain_header_by_height, and fetch with DbKey::BlockHeader: the   *)
(* headers_db entry at the height.                                         *)
FetchChainHeaderByHeight(d, h) ==
    IF h \in DOMAIN d.headers THEN [found |-> TRUE, b |-> d.headers[h]] ELSE Absent

(* fetch with DbKey::BlockHash: fetch_height_from_hash on block_hashes_db, *)
(* then the header stored at that height, which is returned as it is: its *)
(* hash is not compared with the one asked for.                           *)
FetchByBlockHash(d, x) ==
    IF x \in DOMAIN d.blockHashes THEN FetchChainHeaderByHeight(d, d.blockHashes[x])
    ELSE Absent

(* contains: lmdb_exists on headers_db or on block_hashes_db.             *)
ContainsBlockHeader(d, h) == h \in DOMAIN d.headers
ContainsBlockHash(d, x) == x \in DOMAIN d.blockHashes

(* fetch_chain_header_in_all_chains: through block_hashes_db and          *)
(* fetch_chain_header_by_height when the hash has a height, else the      *)
(* orphan tables (OrphanPool, kept apart from this store: not found here).*)
FetchChainHeaderInAllChains(d, x) ==
    IF x \in DOMAIN d.blockHashes THEN FetchChainHeaderByHeight(d, d.blockHashes[x])
    ELSE Absent

(* bad_block_exists: lmdb_exists on bad_blocks.                            *)
BadBlockExists(d, b) == b \in DOMAIN d.badBlocks

-----------------------------------------------------------------------------
(* The handler arms.  BlockchainDatabase::fetch_utxos (not in this        *)
(* repository) answers each hash with fetch_output and marks it spent when *)
(* its MMR position is in the deleted bitmap; FetchMatchingUtxos keeps the *)
(* unpruned, unspent ones.                                                 *)
FetchUtxos(d, hs) ==
    {[out |-> FetchOutputInTxn(d, o).out, pruned |-> FetchOutputInTxn(d, o).pruned,
      spent |-> FetchOutputInTxn(d, o).pos \in FetchDeletedBitmap(d)] :
        o \in {x \in hs : FetchOutputInTxn(d, x).found}}

FetchMatchingUtxosUnprunedOnly(d, hs) ==
    {r.out : r \in {x \in FetchUtxos(d, hs) : ~x.pruned}}

FetchMatchingUtxos(d, hs) ==
    {r.out : r \in {x \in FetchUtxos(d, hs) : ~x.pruned /\ ~x.spent}}

(* FetchUnspentUtxosInBlock: fetch_outputs_in_block, keeping the outputs   *)
(* that into_unpruned_output returns, i.e. the rows not pruned.            *)
FetchUnspentUtxosInBlock(d, b) ==
    {r.out : r \in {x \in FetchOutputsInBlock(d, b) : ~x.pruned}}

(* fetch_template_registrations(start_height, end_height): for each      *)
(* height of the range a prefix cursor over template_registrations, whose *)
(* prefix is start_height's bytes on every iteration; what each cursor   *)
(* finds is appended.                                                      *)
FetchTemplateRegistrations(d, s, e) ==
    LET atPrefix == SetToSeq({r \in d.templateRegs : r[1] = s}) IN
    FoldLeft(LAMBDA acc, height : acc \o atPrefix, <<>>,
             [i \in 1..(e - s + 1) |-> s + i - 1])

-----------------------------------------------------------------------------
(* The blocks whose body is stored.                                        *)
StoredBodies(d) == {d.headers[h] : h \in DOMAIN d.blockAccum \cap DOMAIN d.headers}

(* The highest stored body's accumulated data, if any.                     *)
TopAccum(d) ==
    IF DOMAIN d.blockAccum = {} THEN [kleaves |-> 0, oleaves |-> 0, deleted |-> {}]
    ELSE d.blockAccum[Max(DOMAIN d.blockAccum)]

(* Horizon sync serves a pruned peer each block's outputs through          *)
(* fetch_utxos_in_block with the node's own deleted bitmap: the outputs it *)
(* reports NotPruned must be exactly the block's outputs that the          *)
(* commitment index holds as unspent, after any sequence of body inserts,  *)
(* rewinds and prunes.                                                     *)
SyncServesUnspentSet ==
    \A b \in StoredBodies(db) :
        LET r == FetchUtxosInBlock(db, b, FetchDeletedBitmap(db)) IN
        /\ r.found
        /\ {x.out : x \in {y \in r.utxos : ~y.pruned}}
             = {o \in ToSet(OutputsOf[b]) : FetchUnspentOutputHashByCommitment(db, o) = o}

(* Spec section 8, round-trip body insertion: for every stored body the   *)
(* kernel, output and input reads return exactly the block's kernels,     *)
(* outputs and spent outputs, and an output of the block is missing from  *)
(* the commitment index exactly when an input row consumed it or it is    *)
(* burned (the burn case is the one the spec leaves out).                  *)
BodyReadsRoundTrip ==
    \A b \in StoredBodies(db) :
        /\ FetchKernelsInBlock(db, b) = ToSet(KernelsOf[b])
        /\ {x.out : x \in FetchOutputsInBlock(db, b)} = ToSet(OutputsOf[b])
        /\ FetchInputsInBlock(db, b) = ToSet(InputsOf[b])
        /\ \A o \in ToSet(OutputsOf[b]) :
             (FetchUnspentOutputHashByCommitment(db, o) = "None")
               <=> (o \in Burned \/ \E r \in db.inputs : r.out = o)

(* fetch_mmr_size counts rows, and sync compares it with the MMR size in  *)
(* headers: the row counts must equal the leaf counts of the highest      *)
(* stored body, and utxo_count the outputs of the chain neither spent nor *)
(* burned.  A rewind that left a row behind, or a prune that removed one, *)
(* would make them drift.                                                  *)
MmrSizeIsTipLeafCount ==
    /\ FetchMmrSize(db, "Kernel") = TopAccum(db).kleaves
    /\ FetchMmrSize(db, "Utxo") = TopAccum(db).oleaves
    /\ UtxoCount(db) = TopAccum(db).oleaves - Cardinality(db.bitmap)

(* FetchMatchingUtxos answers a peer (a wallet checking its outputs) with  *)
(* exactly the requested outputs that are unspent: every one it returns is *)
(* in the commitment index, and every requested one in the index is       *)
(* returned.                                                               *)
MatchingUtxosAreUnspent ==
    \A o \in Outputs :
        (o \in FetchMatchingUtxos(db, {o})) <=> (FetchUnspentOutputHashByCommitment(db, o) = o)

(* A header reached by hash is the header asked for.  fetch by            *)
(* DbKey::BlockHash and fetch_chain_header_in_all_chains go through        *)
(* block_hashes_db to a height and return whatever header is stored there  *)
(* without comparing hashes, so across rewinds and reorgs (delete_header,  *)
(* then another block's insert_header at the same height) the hash index   *)
(* must lose every deleted header; contains agrees with fetch, and every   *)
(* header read by height is found again by its hash.                       *)
HeaderLookupsAgree ==
    /\ \A x \in Blocks :
          /\ FetchByBlockHash(db, x).found => FetchByBlockHash(db, x).b = x
          /\ ContainsBlockHash(db, x) <=> FetchByBlockHash(db, x).found
          /\ FetchChainHeaderInAllChains(db, x) = FetchByBlockHash(db, x)
    /\ \A h \in Heights :
          ContainsBlockHeader(db, h) =>
              FetchByBlockHash(db, FetchChainHeaderByHeight(db, h).b) = FetchChainHeaderByHeight(db, h)

(* NodeCommsRequest::FetchTemplateRegistrations asks for the template     *)
(* registrations of the blocks at heights start_height..=end_height: the   *)
(* answer holds each registration of a stored body in that range once,    *)
(* and nothing else, after any sequence of body inserts and rewinds.      *)
TemplateRegistrationsAnswerRange ==
    \A s, e \in Heights : s <= e =>
        LET ans == FetchTemplateRegistrations(db, s, e)
            ref == UNION {TemplateRegistrationsOf(b) :
                            b \in {x \in StoredBodies(db) : Height[x] \in s..e}}
        IN  ToSet(ans) = ref /\ Len(ans) = Cardinality(ref)

(* The comment at insert_bad_block_and_cleanup says that only bad blocks  *)
(* far from the tip are cleaned up: a block just recorded as bad is then  *)
(* still known as bad (bad_block_exists) after the write that recorded it. *)
BadBlockRemembered ==
    [][lastBad' # NoHash /\ lastResult' = "Ok" => BadBlockExists(db', lastBad')]_vars
=============================================================================
