---------------------------- MODULE ChainStorage ----------------------------
(***************************************************************************)
(* The LMDB chain-storage backend of the base node                        *)
(* (base_layer/core/src/chain_storage/lmdb_db/lmdb_db.rs).                *)
(*                                                                         *)
(* The whole store is one record `db`, one field per LMDB table that the  *)
(* modelled operations touch.  Every WriteOperation is a pure operator    *)
(* from a store to [ok, db]; `write` folds a DbTransaction through them   *)
(* and commits only if every operation succeeded, retrying the whole      *)
(* batch after a DbResizeRequired.                                        *)
(*                                                                         *)
(* Data abstraction: a block is a model value whose header (height,       *)
(* parent, cumulative MMR sizes) and body (kernels, outputs, burned       *)
(* outputs, spent outputs) are fixed by constants; an output's hash and   *)
(* commitment are the output itself; a kernel's excess and excess        *)
(* signature are the kernel itself.  MMRs are kept as their leaf counts   *)
(* and the per-block set of deleted leaf positions.                       *)
(***************************************************************************)
EXTENDS Integers, Sequences, FiniteSets, Functions, FiniteSetsExt, SequencesExt, TLC

CONSTANTS
    Blocks,      \* block hashes that callers may hand to the store
    Outputs,     \* transaction outputs (hash = commitment = the value)
    Kernels,     \* transaction kernels (excess = excess sig = the value)
    NoHash,      \* "no block": the parent of genesis, an unset best block
    Parent,      \* Parent[b] : header.prev_hash
    KernelsOf,   \* KernelsOf[b] : the kernels of b's body, in order
    OutputsOf,   \* OutputsOf[b] : the outputs of b's body, in order
    InputsOf,    \* InputsOf[b]  : the outputs b's inputs spend, in order
    Burned,      \* outputs whose features mark them burned
    Invalid,     \* blocks that fail block validation
    Templates    \* outputs whose sidechain feature is a template registration

ASSUME NoHash \notin Blocks

(* header.height, header.kernel_mmr_size and header.output_mmr_size follow *)
(* from the chain of parents.                                              *)
Height[b \in Blocks] == IF Parent[b] = NoHash THEN 0 ELSE Height[Parent[b]] + 1
KSize[b \in Blocks] ==
    Len(KernelsOf[b]) + (IF Parent[b] = NoHash THEN 0 ELSE KSize[Parent[b]])
OSize[b \in Blocks] ==
    Len(OutputsOf[b]) + (IF Parent[b] = NoHash THEN 0 ELSE OSize[Parent[b]])

Heights == {Height[b] : b \in Blocks}
Positions == 0..(Max({OSize[b] : b \in Blocks}) - 1)

VARIABLES
    db,          \* the committed content of the LMDB environment
    lastResult,  \* what the last call of write returned
    cleared,     \* what the last clear_all_pending_headers returned, or -1
    lastBad      \* the block the last write recorded as bad, or NoHash

vars == <<db, lastResult, cleared, lastBad>>

-----------------------------------------------------------------------------
(* Partial functions stand for LMDB tables.  lmdb_insert fails on an      *)
(* existing key, lmdb_delete on a missing one, lmdb_replace never fails.  *)
Put(f, k, v) == (k :> v) @@ f
Drop(f, K) == Restrict(f, DOMAIN f \ K)

EmptyStore ==
    [headers            |-> <<>>,  \* headers_db + header_accumulated_data_db
     blockHashes        |-> <<>>,  \* block_hashes_db: hash -> height
     kernelMmrSizeIndex |-> <<>>,  \* kernel_mmr_size -> height
     outputMmrSizeIndex |-> <<>>,  \* output_mmr_size -> (height, hash)
     blockAccum         |-> <<>>,  \* block_accumulated_data_db: height -> data
     utxos              |-> <<>>,  \* utxos_db: (hash, pos) -> row
     txosHashToIndex    |-> <<>>,  \* txos_hash_to_index_db: output -> (pos, key)
     utxoCommitment     |-> {},    \* utxo_commitment_index
     inputs             |-> {},    \* inputs_db rows
     deletedTxoIndex    |-> <<>>,  \* deleted_txo_mmr_position_to_height_index
     kernels            |-> {},    \* kernels_db rows
     kernelExcess       |-> {},    \* kernel_excess_index + kernel_excess_sig_index
     bitmap             |-> {},    \* MetadataKey::DeletedBitmap
     chainHeight        |-> 0,     \* MetadataKey::ChainHeight
     bestBlock          |-> NoHash,\* MetadataKey::BestBlock (unset)
     badBlocks          |-> <<>>,  \* bad_blocks: hash -> height
     templateRegs       |-> {}]    \* template_registrations keys

Result(ok, d) == [ok |-> ok, db |-> d]
Fail(d) == Result(FALSE, d)

(* lmdb_last(headers_db): the header with the greatest height.            *)
LastHeader(d) ==
    IF DOMAIN d.headers = {} THEN NoHash ELSE d.headers[Max(DOMAIN d.headers)]

(* lmdb_first_after(index, key): the value of the least key >= key.       *)
FirstAfter(idx, key) ==
    LET ks == {k \in DOMAIN idx : k >= key}
    IN  IF ks = {} THEN NoHash ELSE idx[Min(ks)]

OutputMmrLookupAtPos(d, pos) == FirstAfter(d.outputMmrSizeIndex, pos)

(* fetch_header_containing_utxo_mmr and prune_outputs_at_positions: the   *)
(* header owning output leaf pos is the first size entry >= pos + 1.       *)
OutputMmrLookup(d, pos) == FirstAfter(d.outputMmrSizeIndex, pos + 1)

(* fetch_header_containing_kernel_mmr, the same search in the kernel index *)
KernelMmrLookup(d, pos) == FirstAfter(d.kernelMmrSizeIndex, pos + 1)

-----------------------------------------------------------------------------
(* insert_header: refuse an occupied height, an out-of-order height and a *)
(* header that does not extend the last one; then write the header and    *)
(* its four indexes, each an lmdb_insert.                                  *)
InsertHeaderGuard(d, b) ==
    LET h == Height[b]
        last == LastHeader(d)
    IN  /\ h \notin DOMAIN d.headers
        /\ last # NoHash => /\ Height[last] = IF h = 0 THEN 0 ELSE h - 1
                            /\ last = Parent[b]
        /\ last = NoHash => h = 0

InsertHeaderSwappedSizeEntry(d, b) ==
    Result(/\ InsertHeaderGuard(d, b)
           /\ b \notin DOMAIN d.blockHashes
           /\ KSize[b] \notin DOMAIN d.kernelMmrSizeIndex
           /\ OSize[b] \notin DOMAIN d.outputMmrSizeIndex,
           [d EXCEPT !.headers = Put(@, Height[b], b),
                     !.blockHashes = Put(@, b, Height[b]),
                     !.kernelMmrSizeIndex = Put(@, KSize[b], Height[b]),
                     !.outputMmrSizeIndex = Put(@, OSize[b], <<b, Height[b]>>)])

InsertHeader(d, b) ==
    Result(/\ InsertHeaderGuard(d, b)
           /\ b \notin DOMAIN d.blockHashes
           /\ KSize[b] \notin DOMAIN d.kernelMmrSizeIndex
           /\ OSize[b] \notin DOMAIN d.outputMmrSizeIndex,
           [d EXCEPT !.headers = Put(@, Height[b], b),
                     !.blockHashes = Put(@, b, Height[b]),
                     !.kernelMmrSizeIndex = Put(@, KSize[b], Height[b]),
                     !.outputMmrSizeIndex = Put(@, OSize[b], <<Height[b], b>>)])

DeleteHeaderGuardAnyHeight(d, h) ==
    /\ h \notin DOMAIN d.blockAccum
    /\ h \in DOMAIN d.headers
    /\ ~\E r \in d.kernels : r.blk = d.headers[h]
    /\ ~\E key \in DOMAIN d.utxos : key[1] = d.headers[h]

(* delete_header: only the last header, only once its block accumulated  *)
(* data is gone and no kernel or output row has its hash as prefix.       *)
DeleteHeaderGuard(d, h) ==
    /\ h \notin DOMAIN d.blockAccum
    /\ LastHeader(d) # NoHash
    /\ Height[LastHeader(d)] = h
    /\ ~\E r \in d.kernels : r.blk = d.headers[h]
    /\ ~\E key \in DOMAIN d.utxos : key[1] = d.headers[h]

DeleteHeaderKeepHash(d, h) ==
    IF ~DeleteHeaderGuard(d, h) THEN Fail(d) ELSE
    LET b == d.headers[h] IN
    Result(/\ b \in DOMAIN d.blockHashes
           /\ KSize[b] \in DOMAIN d.kernelMmrSizeIndex
           /\ OSize[b] \in DOMAIN d.outputMmrSizeIndex,
           [d EXCEPT !.headers = Drop(@, {h}),
                     !.kernelMmrSizeIndex = Drop(@, {KSize[b]}),
                     !.outputMmrSizeIndex = Drop(@, {OSize[b]})])

DeleteHeader(d, h) ==
    IF ~DeleteHeaderGuard(d, h) THEN Fail(d) ELSE
    LET b == d.headers[h] IN
    Result(/\ b \in DOMAIN d.blockHashes
           /\ KSize[b] \in DOMAIN d.kernelMmrSizeIndex
           /\ OSize[b] \in DOMAIN d.outputMmrSizeIndex,
           [d EXCEPT !.headers = Drop(@, {h}),
                     !.blockHashes = Drop(@, {b}),
                     !.kernelMmrSizeIndex = Drop(@, {KSize[b]}),
                     !.outputMmrSizeIndex = Drop(@, {OSize[b]})])

-----------------------------------------------------------------------------
(* The BlockAccumulatedData a body at height h is built on: the default   *)
(* at genesis, otherwise the previous height's, which must exist.         *)
BodyStart(d, h) ==
    IF h = 0 THEN [kleaves |-> 0, oleaves |-> 0, deleted |-> {}]
             ELSE d.blockAccum[h - 1]

(* The MMR position of the i-th output of a body: `leaf_count + i + 1`,   *)
(* then `- 1` when the row is inserted (i counted from 1 here).            *)
OutputPos(prev, i) == prev.oleaves + i - 1

(* insert_input's lmdb_insert into the deleted_txo index succeeds only    *)
(* for positions not yet in it.                                            *)
DeletedTxoReplace(d, ps) == TRUE
DeletedTxoFree(d, ps) == ps \cap DOMAIN d.deletedTxoIndex = {}

(* The template_registrations keys (block_height, output_hash) of the     *)
(* outputs of b whose sidechain feature is a template registration.        *)
TemplateRegistrationsOf(b) ==
    {<<Height[b], o>> : o \in ToSet(OutputsOf[b]) \cap Templates}

(* insert_template_registration: lmdb_insert, failing on an existing key. *)
InsertTemplateRegistration(d, regs) == regs \cap d.templateRegs = {}

(* insert_kernel: lmdb_insert into kernel_excess_index and               *)
(* kernel_excess_sig_index (a kernel value stands for its excess and its   *)
(* signature), each failing on an existing key, then the kernels_db row.   *)
InsertKernel(d, b, k, pos) ==
    Result(k \notin d.kernelExcess,
           [d EXCEPT !.kernels = @ \cup {[blk |-> b, pos |-> pos, k |-> k]},
                     !.kernelExcess = @ \cup {k}])

(* insert_output: lmdb_insert into utxo_commitment_index,                 *)
(* txos_hash_to_index_db and utxos_db (keyed by header hash and MMR        *)
(* position), each failing on an existing key.                             *)
InsertOutput(d, b, o, pos) ==
    Result(/\ o \notin d.utxoCommitment
           /\ o \notin DOMAIN d.txosHashToIndex
           /\ <<b, pos>> \notin DOMAIN d.utxos,
           [d EXCEPT !.utxoCommitment = @ \cup {o},
                     !.txosHashToIndex = Put(@, o, [pos |-> pos, blk |-> b]),
                     !.utxos = Put(@, <<b, pos>>, [out |-> o, pruned |-> FALSE])])

(* A loop of `?`-propagating inserts: the i-th call sees the store the     *)
(* earlier ones left, and the first error ends the loop.                   *)
InsertEach(d, Ins(_, _), n) ==
    FoldLeft(LAMBDA r, i : IF r.ok THEN Ins(r.db, i) ELSE r,
             Result(TRUE, d), [i \in 1..n |-> i])

(* insert_block_body.  The header stored at the height must be this one.  *)
(* Kernels are pushed and inserted one by one (InsertKernel); outputs are  *)
(* pushed into a fresh MutablePrunedOutputMmr whose deletion bitmap is     *)
(* empty, burned outputs deleted from it at once.  Each input is resolved  *)
(* through txos_hash_to_index, else through this block's MMR (0-conf),     *)
(* deleted from the MMR (false if already deleted there), and             *)
(* insert_input removes its commitment (not-found ignored) and inserts its *)
(* deleted_txo position and its row.  Then the outputs are inserted one by *)
(* one (InsertOutput), each with a template registration also inserting    *)
(* its template_registrations entry; the 0-conf and burned commitments are *)
(* deleted, the block's deletions merged into the persisted bitmap, and   *)
(* the accumulated data inserted.                                          *)
InsertBlockBody(d, b) ==
    LET h == Height[b] IN
    IF \/ h \notin DOMAIN d.headers
       \/ d.headers[h] # b
       \/ h > 0 /\ h - 1 \notin DOMAIN d.blockAccum
    THEN Fail(d) ELSE
    LET prev == BodyStart(d, h)
        ks   == KernelsOf[b]
        outs == OutputsOf[b]
        ins  == InputsOf[b]
        OPos(i) == OutputPos(prev, i)
        outPos(o) == OPos(SelectInSeq(outs, LAMBDA x : x = o))
        burned == {outPos(o) : o \in ToSet(outs) \cap Burned}
        \* fetch_mmr_leaf_index, else output_mmr.find_leaf_index, else -1
        spendPos(o) ==
            IF o \in DOMAIN d.txosHashToIndex THEN d.txosHashToIndex[o].pos
            ELSE IF o \in ToSet(outs) THEN outPos(o) ELSE -1
        spent == [i \in 1..Len(ins) |-> spendPos(ins[i])]
        zeroConf == {o \in ToSet(ins) : o \notin DOMAIN d.txosHashToIndex /\ o \in ToSet(outs)}
        deleted == burned \cup ToSet(spent)
        rk == InsertEach(d, LAMBDA x, i : InsertKernel(x, b, ks[i], prev.kleaves + i - 1),
                         Len(ks))
        withInputs ==
            [rk.db EXCEPT
               !.inputs = @ \cup {[blk |-> b, pos |-> spent[i], out |-> ins[i]] : i \in 1..Len(ins)},
               !.deletedTxoIndex = [p \in ToSet(spent) |-> [height |-> h, blk |-> b]] @@ @,
               !.utxoCommitment = @ \ ToSet(ins)]
        ro == InsertEach(withInputs, LAMBDA x, i : InsertOutput(x, b, outs[i], OPos(i)),
                         Len(outs))
    IN  Result(
          /\ rk.ok
          /\ -1 \notin ToSet(spent)                  \* UnspendableInput
          /\ IsInjective(spent)                      \* output_mmr.delete
          /\ ToSet(spent) \cap burned = {}
          /\ DeletedTxoFree(d, ToSet(spent))
          /\ ro.ok
          /\ InsertTemplateRegistration(d, TemplateRegistrationsOf(b))
          /\ h \notin DOMAIN d.blockAccum,
          [ro.db EXCEPT
            !.utxoCommitment = @ \ (zeroConf \cup (ToSet(outs) \cap Burned)),
            !.bitmap = @ \cup deleted,
            !.templateRegs = @ \cup TemplateRegistrationsOf(b),
            !.blockAccum = Put(@, h, [kleaves |-> prev.kleaves + Len(ks),
                                      oleaves |-> prev.oleaves + Len(outs),
                                      deleted |-> deleted])])

(* The SetBestBlock arm of apply_db_transaction: above height 0 the       *)
(* stored best block must exist and equal expected_prev_best_block; the   *)
(* new hash must be in block_hashes_db; then ChainHeight and BestBlock are *)
(* replaced (accumulated work and timestamp are not modelled).            *)
SetBestBlock(d, b, expected) ==
    Result(/\ Height[b] > 0 => /\ d.bestBlock # NoHash
                               /\ expected = d.bestBlock
           /\ b \in DOMAIN d.blockHashes,
           [d EXCEPT !.chainHeight = Height[b], !.bestBlock = b])

(* prune_output at one position: the owning header is the first entry of  *)
(* output_mmr_size_index at or after pos + 1; the row keyed by that hash   *)
(* and pos must exist and still hold its output.                           *)
PruneOutput(d, pos) ==
    LET owner == OutputMmrLookup(d, pos) IN
    IF owner = NoHash THEN Fail(d) ELSE
    LET key == <<owner[2], pos>> IN
    Result(key \in DOMAIN d.utxos /\ ~d.utxos[key].pruned,
           IF key \in DOMAIN d.utxos
           THEN [d EXCEPT !.utxos[key].pruned = TRUE] ELSE d)

(* prune_outputs_at_positions: the positions in order, stopping at the    *)
(* first error.                                                            *)
Chain(r, Op(_, _), x) == IF r.ok THEN Op(r.db, x) ELSE r

PruneOutputsAtMmrPositions(d, ps) ==
    FoldLeft(LAMBDA r, p : Chain(r, PruneOutput, p), Result(TRUE, d), ps)

(* delete_block_inputs_outputs.  Every output and input row keyed by the  *)
(* block hash goes, with the outputs' txo index entries; an unpruned       *)
(* output that this block neither spent nor burned loses its commitment    *)
(* (which must still be there).  Each input's deleted_txo entry is        *)
(* deleted and, unless it spent an output of this block, the spent output *)
(* (found through fetch_output_in_txn, and unpruned, else                 *)
(* MissingTransactionInputData) is re-inserted into the commitment index. *)
(* The block's template_registrations entries are left in place.        *)
DeleteBlockInputsOutputs(d, b) ==
    LET rows    == {key \in DOMAIN d.utxos : key[1] = b}
        rowOuts == {d.utxos[key].out : key \in rows}
        ins     == {r \in d.inputs : r.blk = b}
        spentHere == {r.out : r \in ins}
        uncreated == {d.utxos[key].out : key \in {k \in rows : ~d.utxos[k].pruned}}
                        \ (spentHere \cup Burned)
        restored  == spentHere \ rowOuts
        txos  == Drop(d.txosHashToIndex, rowOuts)
        utxos == Drop(d.utxos, rows)
        unpruned(o) ==
            /\ o \in DOMAIN txos
            /\ <<txos[o].blk, txos[o].pos>> \in DOMAIN utxos
            /\ ~utxos[<<txos[o].blk, txos[o].pos>>].pruned
    IN  Result(
          /\ rowOuts \subseteq DOMAIN d.txosHashToIndex
          /\ uncreated \subseteq d.utxoCommitment
          /\ {r.pos : r \in ins} \subseteq DOMAIN d.deletedTxoIndex
          /\ \A o \in restored : unpruned(o)
          /\ restored \cap (d.utxoCommitment \ uncreated) = {},
          [d EXCEPT
            !.utxos = utxos,
            !.txosHashToIndex = txos,
            !.inputs = @ \ ins,
            !.utxoCommitment = (@ \ uncreated) \cup restored,
            !.deletedTxoIndex = Drop(@, {r.pos : r \in ins})])

(* delete_block_kernels: the kernel rows keyed by the block hash and their *)
(* two excess index entries, which must exist.                             *)
DeleteBlockKernelsSkipped(d, b) == Result(TRUE, d)
DeleteBlockKernels(d, b) ==
    LET krows == {r \in d.kernels : r.blk = b} IN
    Result({r.k : r \in krows} \subseteq d.kernelExcess,
           [d EXCEPT !.kernels = @ \ krows,
                     !.kernelExcess = @ \ {r.k : r \in krows}])

(* DeletedBitmapModel::remove then save: the block's deleted positions    *)
(* leave the persisted bitmap.                                             *)
BitmapRemoveNothing(d, h) == d
BitmapRemove(d, h) == [d EXCEPT !.bitmap = @ \ d.blockAccum[h].deleted]

(* delete_block_body: the height from block_hashes_db and the block's     *)
(* accumulated data must exist; the bitmap loses the block's deletions,   *)
(* the accumulated data is deleted, then delete_block_inputs_outputs and  *)
(* delete_block_kernels.  Nothing here checks that the block is the top   *)
(* body.                                                                   *)
DeleteBlockBody(d, b) ==
    IF \/ b \notin DOMAIN d.blockHashes
       \/ d.blockHashes[b] \notin DOMAIN d.blockAccum
    THEN Fail(d) ELSE
    LET h  == d.blockHashes[b]
        d1 == [BitmapRemove(d, h) EXCEPT !.blockAccum = Drop(@, {h})]
    IN  Chain(DeleteBlockInputsOutputs(d1, b), DeleteBlockKernels, b)

(* insert_bad_block_and_cleanup.  The hash is recorded (lmdb_replace);   *)
(* then fetch_metadata, which fails while the best block is unset, and    *)
(* every bad block lower than the chain height minus                      *)
(* CLEAN_BAD_BLOCKS_BEFORE_REL_HEIGHT (0 outside test builds, saturating)  *)
(* is deleted, unless that height is 0.                                    *)
CLEAN_BAD_BLOCKS_BEFORE_REL_HEIGHT == 0

InsertBadBlockAndCleanup(d, b, h) ==
    LET bad == Put(d.badBlocks, b, h)
        deletedBefore == IF d.chainHeight > CLEAN_BAD_BLOCKS_BEFORE_REL_HEIGHT
                         THEN d.chainHeight - CLEAN_BAD_BLOCKS_BEFORE_REL_HEIGHT ELSE 0
    IN  IF d.bestBlock = NoHash THEN Fail(d)
        ELSE IF deletedBefore = 0 THEN Result(TRUE, [d EXCEPT !.badBlocks = bad])
        ELSE Result(TRUE, [d EXCEPT !.badBlocks =
                             Restrict(bad, {x \in DOMAIN bad : bad[x] >= deletedBefore})])

-----------------------------------------------------------------------------
(* A WriteOperation as a record; only the kinds above are modelled.       *)
Apply(d, o) ==
    CASE o.op = "InsertChainHeader"          -> InsertHeader(d, o.b)
      [] o.op = "InsertBlockBody"            -> InsertBlockBody(d, o.b)
      [] o.op = "DeleteBlock"                -> DeleteBlockBody(d, o.b)
      [] o.op = "DeleteHeader"               -> DeleteHeader(d, o.h)
      [] o.op = "SetBestBlock"               -> SetBestBlock(d, o.b, o.expected)
      [] o.op = "InsertBadBlock"             -> InsertBadBlockAndCleanup(d, o.b, o.h)
      [] o.op = "PruneOutputsAtMmrPositions" -> PruneOutputsAtMmrPositions(d, o.ps)

(* apply_db_transaction: every operation on one LMDB write transaction,   *)
(* the first error (`?`) dropping it uncommitted.                          *)
ApplyTxn(d, txn) ==
    FoldLeft(LAMBDA r, o : Chain(r, Apply, o), Result(TRUE, d), txn)

ClearCommitDropped(r, d) == d

(* txn.commit() after the loop; an error on the way drops the transaction. *)
ClearCommit(r, d) == IF r.ok THEN r.db ELSE d

(* clear_all_pending_headers, on its own write transaction: nothing to do *)
(* without headers or when the last header is at the chain height         *)
(* (fetch_metadata failing while the best block is unset); otherwise       *)
(* delete_header from the last height down to chain height + 1 (an empty *)
(* range when the last header is below the tip), committed               *)
(* only if every delete succeeds.  n is the number deleted.                *)
ClearAllPendingHeaders(d) ==
    LET last == LastHeader(d) IN
    IF last = NoHash THEN [ok |-> TRUE, db |-> d, n |-> 0]
    ELSE IF d.bestBlock = NoHash THEN [ok |-> FALSE, db |-> d, n |-> 0]
    ELSE IF d.chainHeight = Height[last] THEN [ok |-> TRUE, db |-> d, n |-> 0]
    ELSE
    LET hs == [i \in 1..Max({0, Height[last] - d.chainHeight}) |-> Height[last] + 1 - i]
        r  == FoldLeft(LAMBDA acc, h : Chain(acc, DeleteHeader, h), Result(TRUE, d), hs)
    IN  [ok |-> r.ok, db |-> ClearCommit(r, d), n |-> IF r.ok THEN Len(hs) ELSE 0]

(* The committed state after an attempt of apply_db_transaction that      *)
(* raised DbResizeRequired at operation j: the write transaction is       *)
(* dropped, so nothing of it is committed.                                 *)
AbortedAttempt(d, txn, j) == d

(* One attempt on top of committed state base: commit on success, keep    *)
(* base on error.                                                          *)
Attempt(base, txn) ==
    LET r == ApplyTxn(base, txn) IN
    IF r.ok THEN db' = r.db /\ lastResult' = "Ok"
            ELSE db' = base /\ lastResult' = "Err"

(* LMDBDatabase::write.  An attempt either runs to its result, or hits    *)
(* DbResizeRequired at some operation j; then the environment is resized  *)
(* and the whole batch retried, unless the resize itself fails (its error *)
(* is returned at once) or MAX_RESIZES attempts in a row needed a resize   *)
(* (DbTransactionTooLarge).  The loop runs under `&mut self`, inside the   *)
(* exclusive lock of BlockchainDatabase, so it is one step.  Since every  *)
(* aborted attempt leaves the store as it was, how many resizes preceded   *)
(* the last attempt does not change the outcome.                          *)
(* The block a batch records as bad (insert_bad_block_and_cleanup), or    *)
(* NoHash.                                                                 *)
BadBlockOf(txn) ==
    IF \E i \in 1..Len(txn) : txn[i].op = "InsertBadBlock"
    THEN txn[CHOOSE i \in 1..Len(txn) : txn[i].op = "InsertBadBlock"].b
    ELSE NoHash

(* The attempt that returns: the first one, or one after resizes, run on  *)
(* what the aborted attempts left committed.                               *)
WriteAttempt(txn) ==
    /\ \E base \in {db} \cup {AbortedAttempt(db, txn, j) : j \in 1..Len(txn)} :
           Attempt(base, txn)
    /\ cleared' = -1
    /\ lastBad' = BadBlockOf(txn)

WriteTooLarge(txn) ==
    \E j \in 1..Len(txn) :
        /\ db' = AbortedAttempt(db, txn, j)
        /\ lastResult' = "TooLarge"
        /\ cleared' = -1
        /\ lastBad' = BadBlockOf(txn)

WriteResizeFailed(txn) ==
    \E j \in 1..Len(txn) :
        /\ db' = AbortedAttempt(db, txn, j)
        /\ lastResult' = "ResizeFailed"
        /\ cleared' = -1
        /\ lastBad' = BadBlockOf(txn)

(* clear_all_pending_headers as a call of its own, e.g. after a failed    *)
(* header sync.                                                            *)
ClearPendingHeaders ==
    LET r == ClearAllPendingHeaders(db) IN
    /\ db' = r.db
    /\ lastResult' = IF r.ok THEN "Ok" ELSE "Err"
    /\ cleared' = IF r.ok THEN r.n ELSE -1
    /\ lastBad' = NoHash

(* The batches callers submit: every single operation, and any two of the *)
(* structural ones (a reorg deletes bodies and headers and inserts new     *)
(* ones in one DbTransaction).  BlockchainDatabase prunes only positions   *)
(* that are already spent, so pruning is offered for positions in the     *)
(* deleted bitmap.  A block of Invalid fails validation when it arrives   *)
(* on top of a stored block; it is not stored, and is recorded as bad at  *)
(* its own height.                                                         *)
StructuralOps ==
    {[op |-> k, b |-> x] : k \in {"InsertChainHeader", "InsertBlockBody", "DeleteBlock"},
                           x \in Blocks}
    \cup {[op |-> "DeleteHeader", h |-> x] : x \in Heights}

(* A reorg replaces a suffix of the chain: BlockchainDatabase deletes     *)
(* bodies from the top down, so a DeleteBlock in a batch names the highest *)
(* body of the store as the batch has left it so far.                     *)
TopBody(d) ==
    IF DOMAIN d.blockAccum = {} THEN NoHash ELSE d.headers[Max(DOMAIN d.blockAccum)]

RewindsFromTip(d, txn) ==
    \A i \in 1..Len(txn) :
        txn[i].op = "DeleteBlock" => txn[i].b = TopBody(ApplyTxn(d, SubSeq(txn, 1, i - 1)).db)

Batches(d) ==
    {txn \in {<<o>> : o \in StructuralOps} \cup {<<o1, o2>> : o1, o2 \in StructuralOps} :
        RewindsFromTip(d, txn)}
    \cup {<<[op |-> "SetBestBlock", b |-> x, expected |-> e]>> : x, e \in Blocks}
    \cup {<<[op |-> "PruneOutputsAtMmrPositions", ps |-> <<p>>]>> : p \in d.bitmap}
    \cup {<<[op |-> "InsertBadBlock", b |-> x, h |-> Height[x]]>> :
            x \in {y \in Invalid \ DOMAIN d.blockHashes : Parent[y] \in DOMAIN d.blockHashes}}

Init ==
    /\ db = EmptyStore
    /\ lastResult = "None"
    /\ cleared = -1
    /\ lastBad = NoHash

Next ==
    \/ \E txn \in Batches(db) : WriteAttempt(txn)
    \/ \E txn \in Batches(db) : WriteTooLarge(txn)
    \/ \E txn \in Batches(db) : WriteResizeFailed(txn)
    \/ ClearPendingHeaders

Spec == Init /\ [][Next]_vars

-----------------------------------------------------------------------------
AccumData == [kleaves : Nat, oleaves : Nat, deleted : SUBSET Positions]

IsPartial(f, D, R) == DOMAIN f \subseteq D /\ Range(f) \subseteq R

TypeOK ==
    /\ lastResult \in {"None", "Ok", "Err", "TooLarge", "ResizeFailed"}
    /\ IsPartial(db.headers, Heights, Blocks)
    /\ IsPartial(db.blockHashes, Blocks, Heights)
    /\ IsPartial(db.blockAccum, Heights, AccumData)
    /\ db.utxoCommitment \subseteq Outputs
    /\ db.kernelExcess \subseteq Kernels
    /\ db.bitmap \subseteq Positions
    /\ IsPartial(db.kernelMmrSizeIndex, Nat, Heights)
    /\ IsPartial(db.outputMmrSizeIndex, Nat, Heights \X Blocks)
    /\ \A key \in DOMAIN db.utxos : key[1] \in Blocks /\ key[2] \in Positions
                                   /\ db.utxos[key].out \in Outputs
                                   /\ db.utxos[key].pruned \in BOOLEAN
    /\ \A r \in db.inputs : r.blk \in Blocks /\ r.pos \in Positions /\ r.out \in Outputs
    /\ db.bestBlock \in Blocks \cup {NoHash}
    /\ IsPartial(db.badBlocks, Blocks, Heights)
    /\ db.templateRegs \subseteq Heights \X Templates
    /\ cleared \in {-1} \cup 0..Cardinality(Heights)
    /\ lastBad \in Blocks \cup {NoHash}

(* The header tables form one chain: heights 0..n-1 without a gap, each  *)
(* header's prev_hash the header below it, block_hashes_db the exact      *)
(* inverse of headers_db, and the two MMR-size indexes holding exactly    *)
(* one entry per stored header.  insert_header and delete_header keep     *)
(* this across every batch of inserts and deletes in any order.           *)
HeaderChainIntact ==
    LET hs == DOMAIN db.headers IN
    /\ hs = 0..(Cardinality(hs) - 1)
    /\ \A h \in hs \ {0} : Parent[db.headers[h]] = db.headers[h - 1]
    /\ \A h \in hs : Height[db.headers[h]] = h
    /\ db.blockHashes = [x \in Range(db.headers) |-> Height[x]]
    /\ DOMAIN db.kernelMmrSizeIndex = {KSize[x] : x \in Range(db.headers)}
    /\ DOMAIN db.outputMmrSizeIndex = {OSize[x] : x \in Range(db.headers)}

(* Block bodies sit on stored headers: every block accumulated data entry *)
(* has a header at its height whose MMR sizes equal the entry's leaf      *)
(* counts, and every kernel, output and input row belongs to a block with *)
(* a stored body.  insert_block_body seeds its MMRs from the entry below, *)
(* delete_block_body removes rows by hash prefix and delete_header refuses *)
(* while any of them remain.                                               *)
BodiesMatchHeaders ==
    LET bodies == {db.headers[h] : h \in DOMAIN db.blockAccum} IN
    /\ DOMAIN db.blockAccum \subseteq DOMAIN db.headers
    /\ \A h \in DOMAIN db.blockAccum :
         /\ db.blockAccum[h].kleaves = KSize[db.headers[h]]
         /\ db.blockAccum[h].oleaves = OSize[db.headers[h]]
    /\ {key[1] : key \in DOMAIN db.utxos} \subseteq bodies
    /\ {r.blk : r \in db.kernels} \subseteq bodies
    /\ {r.blk : r \in db.inputs} \subseteq bodies

(* The unspent set is consistent across its four representations after   *)
(* any sequence of body inserts, deletes (rewinds) and prunes: the        *)
(* commitment index holds exactly the stored outputs whose position is    *)
(* not in the deleted bitmap; txos_hash_to_index points at exactly the    *)
(* stored rows; the bitmap is the union of the per-block deleted sets,    *)
(* i.e. the inputs' positions plus the burned outputs' positions; and the *)
(* deleted_txo index covers exactly the inputs' positions.                *)
UtxoSetConsistent ==
    LET stored == {db.utxos[key].out : key \in DOMAIN db.utxos}
        inputPos == {r.pos : r \in db.inputs}
    IN  /\ DOMAIN db.txosHashToIndex = stored
        /\ \A key \in DOMAIN db.utxos :
             db.txosHashToIndex[db.utxos[key].out] = [pos |-> key[2], blk |-> key[1]]
        /\ db.utxoCommitment =
             {o \in stored : db.txosHashToIndex[o].pos \notin db.bitmap}
        /\ db.bitmap = UNION {db.blockAccum[h].deleted : h \in DOMAIN db.blockAccum}
        /\ db.bitmap = inputPos \cup {db.txosHashToIndex[o].pos : o \in stored \cap Burned}
        /\ DOMAIN db.deletedTxoIndex = inputPos

(* No output is spent twice: no two input rows carry the same MMR         *)
(* position, and the deleted_txo index names the block of the one input.  *)
(* Each body's MMR starts with an empty deletion bitmap, so a spend of an *)
(* output an earlier block already spent is refused only by the           *)
(* lmdb_insert into the deleted_txo index.                                 *)
SpentAtMostOnce ==
    \A r1, r2 \in db.inputs :
        /\ r1.pos = r2.pos => r1 = r2
        /\ db.deletedTxoIndex[r1.pos].blk = r1.blk

(* Position lookups find the owning block: for every stored output and    *)
(* kernel, the first-after search on the MMR-size index (as used by       *)
(* prune_outputs_at_positions and fetch_header_containing_*_mmr) returns  *)
(* the header of the block whose row holds that position.                 *)
MmrPositionLookup ==
    /\ \A key \in DOMAIN db.utxos :
         OutputMmrLookup(db, key[2]) = <<Height[key[1]], key[1]>>
    /\ \A r \in db.kernels : KernelMmrLookup(db, r.pos) = Height[r.blk]

(* clear_all_pending_headers removes exactly the headers above the tip: a *)
(* call that returns Ok(n) leaves no header above the chain height, n     *)
(* headers fewer, and every header at or below the tip untouched, so the  *)
(* delete loop and its single commit must agree on what they removed.     *)
ClearedToTip ==
    [][cleared' >= 0 =>
         /\ \A h \in DOMAIN db'.headers : h <= db.chainHeight
         /\ Cardinality(DOMAIN db'.headers) = Cardinality(DOMAIN db.headers) - cleared'
         /\ \A h \in DOMAIN db.headers :
              h <= db.chainHeight => h \in DOMAIN db'.headers /\ db'.headers[h] = db.headers[h]]_vars

(* The store with the output rows of block b whole again (not pruned).   *)
Whole(d, b) ==
    [d EXCEPT !.utxos = [k \in DOMAIN @ |->
                           IF k[1] = b THEN [@[k] EXCEPT !.pruned = FALSE] ELSE @[k]]]

(* A rewind is undone by inserting the same body again, as a reorg back   *)
(* onto the old chain does: in every reachable store, delete_block_body   *)
(* of the top body followed by insert_block_body of that body succeeds    *)
(* and gives back the store itself, every table and index included, the  *)
(* block's own rows unpruned (pruning is lossy).  A rewind that forgot a  *)
(* row, an index entry or a restored commitment, or restored one that the *)
(* insert did not create, breaks the round trip.                          *)
RewindRoundTrips ==
    LET b == TopBody(db)
        r == DeleteBlockBody(db, b)
    IN  b # NoHash /\ r.ok => InsertBlockBody(r.db, b) = Result(TRUE, Whole(db, b))

(* Spec section 4.3: an MMR position is in the deleted bitmap exactly     *)
(* when an input record spends it.                                         *)
BitmapIffInput == db.bitmap = {r.pos : r \in db.inputs}
=============================================================================
