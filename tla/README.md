# TLA+ models of the Tari base-node chain store and its neighbours

This directory holds TLA+ specifications of parts of this repository, the TLC
configurations that check them, and `PROJECT.json`, which lists the
components, runs, mutants, the source lines each definition models, findings
and hazards. Each definition is translated from the Rust source under `src/`.
The few definitions that stand for code outside `src/` are marked
`spec_modelled` in `PROJECT.json`. Examples are the `lmdb_*` helpers and the
`BlockchainDatabase` callers.

## 1. The system

| Part | Source | State | Operations |
|---|---|---|---|
| LMDB chain storage backend (`LMDBDatabase`) | `chain_storage/lmdb_db/lmdb_db.rs` | About 27 LMDB tables. Headers by height, hash→height, the two MMR-size indexes, per-height block accumulated data, output/input/kernel rows, the txo hash→position index, the commitment index, the deleted-txo index, the excess indexes, the orphan tables, bad blocks, reorgs, and metadata (best block, chain height, the deleted bitmap, pruning data) | `write(DbTransaction)` applies ~25 `WriteOperation` kinds on one LMDB write transaction, retrying after `DbResizeRequired`. Reads use `fetch_*`, and orphan eviction uses `delete_oldest_orphans` |
| Inbound new-block handler | `base_node/comms_interface/inbound_handlers.rs` | A semaphore with one permit, the mempool, and the peer connections | `handle_new_block_message`, `reconcile_block` (compact block → full block), `request_full_block_from_peer`, `handle_block` (hydrate, `add_block`, propagate, ban) |
| Wallet transaction send protocol | `wallet/.../transaction_send_protocol.rs` | Sender protocol stage, pending transaction, and resend and cancellation state | Send direct or store-and-forward, wait for the reply with timeouts and resends, finalize, cancel |
| Recipient transaction protocol | `transactions/transaction_protocol/recipient.rs` | `RecipientState`: Finalized or Failed | `new` on the sender message, `get_signed_data` for the reply |
| Wallet output storage | `wallet/.../output_sql.rs`, `models.rs` | SQLite rows of outputs: value, type, maturity, script lock, status, source, priority | Status updates and deletes, the spending-selection query, the balance query, row conversion |
| Contacts and key-manager storage | `contacts/.../database.rs`, `key_manager/.../mod.rs`, `sqlite_utilities` | A backend behind a lock | Forwarding wrappers |
| Transaction components, covenants, sidechain features | `transactions/...`, `covenants/fields.rs`, `proto/sidechain_feature.rs` | Values | Construction, hashing and conversion |
| Standalone miner (solo path) | `tari_miner/src/run_miner.rs` | gRPC connections to the base node and the wallet, `blocks_found`, the current block template | `start_miner`'s loop over `mining_cycle` (template, `validate_tip`, coinbase, new block, mining reports, `submit_block`) and its dispatch on `MinerError` |
| Comms helpers, configuration | `comms/...`, `common/...` | Configuration | Noise crypto selection, parsing |

**How the parts interact.**
- The inbound handler turns announcements from peers into full blocks and hands them to `BlockchainDatabase::add_block`.
- `BlockchainDatabase` is not under `src/`. It validates blocks and builds a `DbTransaction` for the backend: insert the header and the body, set the best block, or on a reorg delete the bodies from the tip down and insert the new ones.
- It holds the backend behind a `RwLock`, so a `write` is exclusive (`&mut self`). The backend's LMDB environment is opened with `NOLOCK` and relies on this.
- Blocks that do not connect to the chain go to the orphan pool, the orphan tables of the same backend. `delete_oldest_orphans` bounds the pool.
- The standalone miner talks to the base node and the wallet over gRPC only. It fetches a block template on the node's tip, a coinbase from the wallet, and the assembled block from the node, mines it, and submits the solved block to the node.
- On the wallet side, the transaction service starts one `TransactionSendProtocol` task per outbound transaction. The task asks the output manager to encumber inputs, sends the transaction, and waits for the recipient's reply on a channel. The recipient's wallet runs `ReceiverTransactionProtocol::new` on the sender message and replies with its signed data only when that protocol is Finalized. The service routes the reply to that channel by TxId. The service also fires the task's cancellation oneshot and restarts the protocols of pending transactions when the wallet starts.

**Behaviours that make this code hard.**
- All-or-nothing batches with retry after an environment resize.
- The four representations of the UTXO set (rows, txo index, commitment index, deleted bitmap and deleted-txo index) must stay in step through inserts, rewinds and pruning.
- 0-conf spends inside one block, and burned outputs.
- Position arithmetic on cumulative MMR sizes.
- On the network side: concurrent announcements of one block, fallback requests to a peer that may not answer, and bans.

## 2. Modules

### `ChainStorage` (and `MC_ChainStorage`)

The store is one record `db` with a field per table the modelled operations touch. Each `WriteOperation` is a pure operator from a store to `[ok, db]` and keeps the code's checks in the code's order:

- `InsertHeader` models `insert_header`.
- `DeleteHeader` models `delete_header`.
- `InsertBlockBody` models `insert_block_body`. Its kernel and output loops call `InsertKernel` (`insert_kernel`) and `InsertOutput` (`insert_output`) one item at a time through `InsertEach`, which stops at the first error as `?` does. The inputs in between are `insert_input`. Each output whose sidechain feature registers a code template (the constant `Templates`) also adds its `template_registrations` key (block height, output hash), through `InsertTemplateRegistration`, which fails on an existing key as `lmdb_insert` does.
- `DeleteBlockBody` models `delete_block_body`, with `DeleteBlockInputsOutputs` and `DeleteBlockKernels`. Like the code, it leaves `template_registrations` alone.
- `SetBestBlock` models the `SetBestBlock` arm of `apply_db_transaction`.
- `PruneOutputsAtMmrPositions` models `prune_outputs_at_positions` over `PruneOutput`.

`ApplyTxn` folds a batch through them and stops at the first error, as `apply_db_transaction` does with `?`. Three actions model `write`:

- `WriteAttempt` is the attempt that returns Ok or an error. It runs on what the aborted attempts committed (`AbortedAttempt`: nothing).
- `WriteTooLarge` models `DbTransactionTooLarge` after `MAX_RESIZES` attempts in a row need a resize.
- `WriteResizeFailed` models `LMDBStore::resize` failing, whose error `?` returns at once.

The resize loop is one step because it runs under `&mut self`.

**Data abstraction.**
- A block is a model value. Its height, parent, cumulative kernel and output MMR sizes, kernels, outputs, inputs and burned outputs are fixed by constants.
- An output's hash and commitment are the output. A kernel's excess and excess signature are the kernel.
- An MMR is its leaf count. The per-block deletion bitmap is a set of positions.
- Not modelled: the MMR hash sets, the witness MMR, the kernel sum, the accumulated work and timestamps, validator-node rows (their store, `validator_node_store.rs`, is not under `src/`), and the registration data of a template entry (only its key is kept). No property reads them.

**Environment.** `Batches(db)` lists what `BlockchainDatabase` may submit:

- any single structural operation (insert header, insert body, delete body, delete header);
- any two of them in one batch;
- `SetBestBlock(b, expected)` for every pair of blocks;
- `PruneOutputsAtMmrPositions` for positions already in the deleted bitmap (`prune_to_height` prunes only spent outputs);
- `InsertBadBlock` for a block of `Invalid` that arrived on a stored parent.

Body deletes name the top body of the store as the batch has left it (`RewindsFromTip`), because a rewind removes a suffix of the chain.

**MC universe.** `MC_ChainStorage` uses five blocks:

| Block | Parent | Kernels | Outputs | Spends |
|---|---|---|---|---|
| G | — | k0 k1 | o1 o2 | — |
| A1 | G | k2 | o3, o4 (burned) | o1 |
| A2 | A1 | k3 | o5 o6 | o5 (0-conf), o3 |
| B1 | G | k4 | o7 | o2 (fork of A1) |
| B2 | A1 | k5 | o8 | o1 again (double spend) |

The template-registration cfg makes A1's output o3 a template registration (`MCTemplates`); the other cfgs use no template outputs (`MCNoTemplates`), because no property of theirs reads the index.

These five blocks produce every case the code distinguishes:

- 0-conf spends;
- burned outputs;
- spending an output of an earlier block;
- a double spend that only the deleted-txo index refuses;
- a competing branch at the same height;
- rewinds of bodies that spent outputs, before and after those outputs are pruned;
- deletes of header-only blocks.

Larger trees add states but no case the code distinguishes.

### `ChainQueries` (and `MC_ChainQueries`)

`ChainQueries` extends `ChainStorage` with its read side. Each `fetch_*` method is an operator of the committed store: a read transaction sees one committed state. An absent value (`None`, or a `ValueNotFound` error) is the record `Absent`.

- `FetchKernelsInBlock`, `FetchOutputsInBlock`, `FetchInputsInBlock` read the rows under a header-hash prefix (`OutputRowsOf` stands for `lmdb_fetch_matching_after`).
- `FetchUtxosInBlock` reports a row Pruned when its position is in the bitmap passed in, as horizon sync uses it.
- `FetchOutputInTxn`, `FetchUnspentOutputHashByCommitment`, `FetchMmrSize`, `UtxoCount`, `FetchDeletedBitmap`, `FetchChainMetadata`, `FetchLastHeader`, `FetchTipHeader` and `BadBlockExists` follow their methods.
- Two `handle_request` arms: `FetchMatchingUtxos` keeps the requested outputs that are neither pruned nor spent, over `FetchUtxos` (`BlockchainDatabase::fetch_utxos`, not under `src/`). `FetchUnspentUtxosInBlock` keeps the unpruned outputs of `fetch_outputs_in_block`, spent ones included; no property reads it.
- The header reads: `FetchChainHeaderByHeight` (`fetch_chain_header_by_height`, and `fetch` with `DbKey::BlockHeader`), `FetchByBlockHash` (`fetch` with `DbKey::BlockHash`), `ContainsBlockHeader` and `ContainsBlockHash` (`contains`), and `FetchChainHeaderInAllChains`. A hash lookup goes through `block_hashes_db` to a height and returns the header stored there without comparing hashes. The orphan arm of `fetch_chain_header_in_all_chains` reads the orphan tables, which are modelled in `OrphanPool`, so here it answers not-found.
- `FetchTemplateRegistrations` models `fetch_template_registrations`: one prefix cursor per height of the range, each on the bytes of `start_height`, concatenated.

`MC_ChainQueries` extends `MC_ChainStorage`, so the reads are checked in every state of the store's own run.

**Tip maintenance.** Two more operations and one more action belong to the store:

- `InsertBadBlockAndCleanup` models `insert_bad_block_and_cleanup`. It records the block at its height, then deletes every bad block below `chain height - CLEAN_BAD_BLOCKS_BEFORE_REL_HEIGHT`. The constant is 0 in non-test builds, which is what is modelled. `Batches` offers it for the blocks of the constant `Invalid` (in MC: the fork block B1) whose parent is stored and which are not stored themselves.
- `ClearAllPendingHeaders` models `clear_all_pending_headers`. It deletes the headers above the tip from the top down in one transaction, commits only if all succeed, and returns their number.
- The action `ClearPendingHeaders` calls it on its own.

Two history variables serve the properties: `cleared` (what the last `clear_all_pending_headers` returned, or -1) and `lastBad` (the block the last write recorded as bad).

### `WalletOutputs` (and `MC_WalletOutputs`)

The wallet's `outputs` table as a function from spending key (which also stands for the commitment) to a row of the columns the queries read. The actions are the writes of `OutputSql`, plus the two inputs from outside:

- `Update` (`update`) and `UpdateByCommitments` (`update_by_commitments`) set a status. Any status may be set, because the service that chooses it is not under `src/`.
- `Delete` (`delete`).
- `AddOutput` is the insert (`NewOutputSql::commit`, not under `src/`).
- `NewTip` is the tip the base node reports, which may move down after a reorg, or be unknown.

The two queries are operators:

- `FetchUnspentOutputsForSpending` models `fetch_unspent_outputs_for_spending`. It returns the selected rows (`SelectedRows`: Unspent, Safe-mode lock and maturity filters, the Standard or SpecificOutputs filter, exclusions) and the value order (`SelectionOrder`, with the Default ordering's max query). An unknown tip bounds nothing, as `i64::MAX` does.
- `GetBalance` models `get_balance`. Its four `WHERE` clauses are `InAvailable`, `InTimeLocked`, `InPendingIncoming` and `InPendingOutgoing`, written with SQL's precedence (AND before OR).

`MC_WalletOutputs` has two keys, three candidate rows (a plain output, a coinbase maturing at height 2, and a one-sided output script-locked until height 1), tips 0..2 or unknown, and all eleven statuses. The selection properties quantify over every criterion the two keys allow.

### `OrphanPool` (and `MC_OrphanPool`)

The orphan tables of `LMDBDatabase` as one record `pool`:

| Field | Table |
|---|---|
| `orphans` | `orphans_db` |
| `parentMap` | `orphan_parent_map_index`, a set of `(prev_hash, hash)` pairs |
| `accum` | `orphan_header_accumulated_data_db` |
| `tips` | `orphan_chain_tips_db` |

The write operations are pure operators from a pool to `[ok, pool]`, as in `ChainStorage`:

- `InsertOrphanBlock` (`insert_orphan_block`);
- `SetAccumulatedDataForOrphan`;
- `InsertChainOrphanBlock`;
- `InsertOrphanChainTip` and `DeleteOrphanChainTip`;
- `DeleteOrphan` (`delete_orphan`), with `PromoteParent`: deleting a tip promotes its parent to a tip.

`Write` applies a batch through `ApplyTxn` and commits nothing on an error. `DeleteOldestOrphans(h, c)` models `delete_oldest_orphans`:

- it computes the saturating excess over the capacity;
- it orders the orphans by height, and `HeightOrders` allows every order among equal heights;
- `EvictCount` cuts the order where the loop breaks;
- it writes the deletes as one batch.

The reads are operators of the pool, answered from one read transaction:

- `FetchOrphanChainTipByHash` (`fetch_orphan_chain_tip_by_hash`): `None` for a non-tip, else the orphan's header, or `ValueNotFound` for a missing orphan row or accumulated data;
- `FetchAllOrphanChainTips`: every tip, or an error when one tip lacks its row or its data;
- `FetchOrphanChildrenOf`: the orphans listed under a parent in the parent map, each read from `orphans_db`;
- `FetchOrphanChainBlock`: whether both the orphan and its accumulated data are stored.

`Requests` is the environment that `BlockchainDatabase`, which is not under `src/`, would issue: single-operation batches that respect which blocks connect. The universe is six blocks:

| Block | Parent | Height | Role |
|---|---|---|---|
| M | — | — | main chain |
| P | M | 1 | orphan |
| C1, C2 | P | 2 | siblings |
| D | C1 | 3 | |
| Q | X | 2 | X unknown, so Q never connects |

Horizons are {1, 2} and capacities {1, 3}. These give equal heights at the horizon, a chain three deep, and a disconnected orphan.

### `NewBlockHandler` (and `MC_NewBlockHandler`)

`handle_new_block_message` runs as one tokio task per announcement. A task is a process whose `pc` is the await it is suspended at:

- start, acquire the permit, `block_exists`;
- `reconcile_block`: rebuild from the mempool, ask for missing transactions, check the roots;
- `request_full_block_from_peer`;
- `handle_block`: hydrate, `add_block`, metrics, propagate, ban.

The tokio semaphore with one permit is `holder` plus a FIFO `waiters` queue, since tokio's semaphore is fair. `Finish` releases the permit on every path.

`add_block` is modelled by its contract, since it is not under `src/`:

- a block is added to the chain, to the orphans, or reported as a reorg;
- chain selection takes the greatest height, and the first block seen wins a tie.

Peers are honest or malicious. An honest peer returns all requested transactions, a malicious one any subset. Any peer may answer a full-block request with the block, an error, or `None` (which bans it): the handler cannot tell a withheld block from one the source no longer holds, so the model does not either.

The universe has five tasks:

| Task | Source | Block |
|---|---|---|
| t1 | p1 | b1 |
| t2 | p2 | b1 |
| t3 | p2 | b2, the child of b1 |
| t4 | malicious m | bad, an invalid block |
| t5 | local services | bl |

The mempool starts as any subset of the transactions, and propagation may be disabled.

### `TransactionSendProtocol` (and `MC_TransactionSendProtocol`)

One outbound transaction. `pc` is the await the protocol task is at, and synchronous db calls between two awaits belong to the same step:

| `pc` | Action | Code |
|---|---|---|
| `prepare` | `PrepareTransaction` | `prepare_transaction` |
| `send` | `InitialSend` | `initial_send_transaction` up to the `send_transaction` await |
| `confirm` | `InitialConfirm` | `confirm_pending_transaction`, add the outbound transaction if it is not stored, `increment_send_count` |
| `waitStart` | `WaitForReplyStart` | `wait_for_reply` before the loop: expired timeout, resend due |
| `resend` | `Resend` | the initial resend |
| `loop` | `ReceiveReply`, `CancellationArm`, `ResendTimeout`, `TimeoutArm`, `ShutdownArm` | the five `select!` arms |
| `finalize` | `Finalize` | `complete_outbound_transaction` |
| `sendFinal` | `SendFinalized` | the finalized message and `increment_send_count` |
| `tmCancel` | `TimeoutTransaction` | `timeout_transaction` through `cancel_pending_transaction` |
| `tmOms` | `TimeoutCancelOutputs` | the output manager's `cancel_transaction` |

**Send outcomes.** `send_transaction`, `send_transaction_direct` and `send_transaction_store_and_forward` reduce to the set of `(direct, saf)` outcomes the routing mechanism allows. The status is Pending when either path succeeded. A message may reach the recipient whatever was reported, because the code notes that a direct send can report success while the peer is offline.

**Environment,** modelled by its contract because it is not under `src/`:

- the db: `complete_outbound_transaction` and `cancel_pending_transaction` succeed only for a live (Queued or Pending) transaction, and `increment_send_count` sets `last_send_timestamp`;
- the output manager: inputs are Free, ShortTerm or Confirmed, and a confirm fails once the inputs are released;
- the service's user cancel: the db cancel, the output release and the oneshot;
- the recipient's replies, and replies from another key or for another TxId;
- the clock's cancellation timeout and the shutdown signal;
- `Restart`: a stop at any await, after which the service resumes the pending transaction at `WaitForReply` if its `send_count > 0`, else at `Queued`.

**The recipient** is composed from `recipient.rs`, the one part of it under `src/`:

- `RecipientReceive` runs `ReceiverNew("Single")` (`ReceiverTransactionProtocol::new`) once the recipient holds the sender message;
- `SingleRound` is Finalized, or Failed when the signer (`SingleReceiverTransactionProtocol::create`, not under `src/`) fails;
- `RecipientReply` replies only when `GetSignedData` succeeds, i.e. in the Finalized state.

A recipient that fails never replies. The sender then waits until its cancellation timeout, and `PendingTimesOut` covers that case.

Bounds: `MaxSends = 3` (only `send_count > 0` matters, and 3 lets the resend arm reach new states), a channel of 2, two stray replies and two restarts.

### `OutboundTransaction`

The abstract specification of one outbound transaction, with no protocol stages, channels or timers. Its state:

- `status`: None, Queued, Pending, Completed or Cancelled;
- `inputs`: Free, Encumbered or Confirmed;
- `replied`: the recipient has replied.

Its steps are `Encumber`, `Confirm`, `Record` (stored with its inputs held, a pending one possibly confirmed in the same step), `Reply`, `Complete` (live, replied, inputs confirmed), `Cancel` (live; inputs released now or later) and `Release` (only once cancelled).

`TransactionSendProtocol` instantiates it as `Abs == INSTANCE OutboundTransaction WITH inputs <- AbsInputs`. `status` and `replied` map to themselves, and `AbsInputs` renames the output manager's Free/ShortTerm/Confirmed. `RefinesOutboundTransaction == Abs!Spec` is checked as a property of the send-protocol run.

### `Miner` (and `MC_Miner`)

The solo path of `start_miner`, without a pool address. `pc` is the await the miner task is at, and a step runs from one await to the next:

| `pc` | Action | Code |
|---|---|---|
| `connect` | `Connect` | the first `connect`: on failure `start_miner` exits |
| `template` | `GetTemplate` | `get_new_block_template`: the template's height is `NewBlockTemplateHeight`, the node's tip + 1, as the `GetNewBlockTemplate` arm of `inbound_handlers.rs` builds it with `BlockHeader::from_previous` |
| `validate` | `ValidateTemplate` | `validate_tip` on the template height, when `mine_on_tip_only` |
| `coinbase` | `GetCoinbase` | `get_coinbase` from the wallet |
| `newBlock` | `GetNewBlock` | `get_new_block`, then `Miner::init_mining` |
| `mining` | `Report(solved, d, elapsed)` | one report: submit a solved header within the difficulty bounds, otherwise display it and, after `validate_tip_interval`, `validate_tip` on the report height |
| `submit` | `SubmitBlock` | `submit_block`, then the `Ok(submitted)` arm: count the block and stop at `miner_max_blocks` |
| `reconnect` | `Reconnect` | the reconnect loop after a gRPC error: sleep, `connect`, until it succeeds |
| `wait` | `Wait` | the sleep after any other error |

The checks of `ValidateTip` follow the code's order:

1. `MineUntilHeightReached` when the tip is at or above `mine_until_height`;
2. `MinerLostBlock` when the height is at or below the tip;
3. `NodeNotReady` before the initial sync.

`OnError` is `start_miner`'s match on these errors: gRPC errors reconnect, `MineUntilHeightReached` returns, `MinerLostBlock` restarts the cycle at once, and any other error sleeps first.

**Environment.**
- The base node's tip, which `OtherMinerBlock` extends up to `MaxHeight`.
- Its `initial_sync_achieved`, which `NodeSynced` sets.
- `GrpcFailure`: any call of the current step may fail, up to `MaxFaults` failures. A failed `submit_block` may be a reply lost after the node took the block (the lost-reply disjunct of `SubmitBlock`).
- A block the node takes extends its tip when it builds on it. `submitted` records every height the node received from this miner.

**MC configuration.** `MC_Miner` has `mine_on_tip_only`, `mine_until_height = 3`, `miner_max_blocks = 2`, `miner_min_diff = 2` (reports of difficulty 1 or 2), a chain others extend to height 3, and two faults. This produces:

- a template fetched just before others reach the stop height;
- lost blocks;
- a node that is still syncing;
- a reconnect;
- a lost submit reply;
- both ways the miner stops.

## 3. Runs

| Run | Config | Expect | What it shows |
|---|---|---|---|
| `chain_storage_safety` | `MC_ChainQueries.cfg` | pass | The store's properties, pending-header clearing and the read properties below hold in all 3,068 reachable states (about 25 s). |
| `bitmap_iff_input` | `MC_ChainStorage_bitmap.cfg` | violation | Burned outputs put positions into the deleted bitmap with no input record, contrary to spec §4.3. |
| `orphan_pool_safety` | `MC_OrphanPool.cfg` | pass | The orphan indexes agree and eviction is correct in all 1,332 states (depth 15). |
| `eviction_spares_horizon` | `MC_OrphanPool_horizon.cfg` | violation | Eviction removes orphans at the horizon height beyond the required count, contrary to spec §8. |
| `new_block_handler` | `MC_NewBlockHandler.cfg` | pass | Five concurrent handler tasks: 70,912 states (depth 28, about 10 s). |
| `added_blocks_propagated` | `MC_NewBlockHandler_propagate.cfg` | violation | A block added Ok is not propagated when the metrics read fails, contrary to spec §4.10. |
| `transaction_send_protocol` | `MC_TransactionSendProtocol.cfg` | pass | One outbound transaction with every interleaving of replies, cancel, timeout, shutdown and restarts: 56,186 states (depth 21, about 2 s). |
| `template_registrations` | `MC_ChainQueries_templates.cfg` | violation | `fetch_template_registrations` answers a range with `start_height`'s registrations once per height, and the index keeps rewound blocks' registrations. |
| `bad_block_remembered` | `MC_ChainQueries_badblock.cfg` | violation | A block marked bad below the tip is deleted by the write that records it. |
| `wallet_outputs` | `MC_WalletOutputs.cfg` | pass | Every table two outputs reach through inserts, updates, deletes and tip changes: 4,624 states. |
| `time_locked_balance` | `MC_WalletOutputs_timelocked.cfg` | violation | `get_balance` counts script-locked outputs of any status as time-locked. |
| `miner_loop` | `MC_Miner.cfg` | pass | The solo miner against a node others extend and whose gRPC calls fail: 841 states (depth 24, under 1 s). |

Properties of `chain_storage_safety`:

- `TypeOK` is the type invariant.
- `HeaderChainIntact`: the headers form one gap-free chain, linked by `prev_hash`. `block_hashes_db` is their inverse, and the MMR-size indexes have one entry per header.
- `BodiesMatchHeaders`: every body's accumulated data sits on a stored header with matching leaf counts, and no output, input or kernel row outlives its body.
- `UtxoSetConsistent`:
  - the commitment index holds exactly the stored outputs whose position is not deleted;
  - the txo index matches the rows;
  - the bitmap is the union of the per-block deleted sets, which is the input positions plus the burned positions;
  - the deleted-txo index covers exactly the input positions.
- `SpentAtMostOnce`: no two inputs spend the same position. This is the double spend of B2, which only the deleted-txo `lmdb_insert` refuses.
- `MmrPositionLookup`: the first-after lookup at `pos + 1` finds the owner of every stored output and kernel.
- `ClearedToTip` (action): a `clear_all_pending_headers` that returns `Ok(n)` leaves no header above the tip, has removed exactly `n` headers, and leaves every header at or below the tip unchanged.
- `SyncServesUnspentSet`: for every stored body, the outputs `fetch_utxos_in_block` reports NotPruned under the node's own bitmap are exactly the block's outputs in the commitment index. This is what horizon sync serves a pruned peer.
- `BodyReadsRoundTrip` (spec §8): the kernel, output and input reads of every stored body return exactly the block's kernels, outputs and spends. An output is missing from the commitment index exactly when it is spent or burned; the spec leaves out the burn case.
- `MmrSizeIsTipLeafCount`: `fetch_mmr_size` equals the leaf counts of the highest stored body, and `utxo_count` equals the output leaves less the bitmap.
- `MatchingUtxosAreUnspent`: `FetchMatchingUtxos` returns a requested output exactly when it is in the commitment index.
- `RewindRoundTrips`: in every reachable store, rewinding the top body and inserting it again, as a reorg back does, gives back the same store in every table and index. The only difference is that the block's own pruned rows come back whole. With no template outputs in this cfg the round trip holds; the template index breaks it (see the findings).
- `HeaderLookupsAgree`: a header reached by hash is the header asked for. `fetch` by hash and `fetch_chain_header_in_all_chains` agree with `contains`, and every header read by height is found again by its hash, across rewinds and reorgs that store another block at a deleted header's height.

Properties of `wallet_outputs`:

- `TypeOK`.
- `BalanceCountsOnce`: available, pending incoming and pending outgoing never count an output twice, and available is the value of `index_unspent`.
- `DefaultOrderLargestWhenUncovered`: for the unfiltered Safe selection, the Default ordering goes largest first exactly when no output it offers covers the amount.

Properties of `orphan_pool_safety`:

- `TypeOK`.
- `OrphanIndexesAgree`: the parent map holds exactly one `(prev, hash)` pair per orphan, and accumulated data exists only for orphans.
- `OrphanReadsFindRows`: the orphan reads never meet a missing orphan row. `fetch_orphan_chain_tip_by_hash` finds the orphan of every tip, across tip promotion on delete, and `fetch_orphan_children_of` answers exactly the stored children of every parent.
- `EvictionWithinCapacity` (action): every eviction returns Ok and leaves at most the capacity.
- `EvictsLowestFirst` (action): no evicted orphan is higher than one that is kept.

Properties of `new_block_handler`:

- `TypeOK`.
- `NoRedundantFetch`: no task asks a peer for transactions or for a block that is already stored. The permit and the `block_exists` check behind it ensure this.
- `AllHandled` (liveness): every task finishes.

Properties of `transaction_send_protocol`:

- `TypeOK`.
- `PendingTimesOut` (liveness): once the cancellation timeout has elapsed, a task waiting in the loop resolves the transaction unless the wallet shuts down.
- `RefinesOutboundTransaction` (refinement): the protocol implements the abstract lifecycle `OutboundTransaction` (see below). It implies that the transaction completes only with a reply the recipient sent, with its inputs confirmed; that its inputs are held while it is Queued or Pending, across resumes at `Queued` and `WaitForReply`, and released only after a cancel; and that a Completed or Cancelled outcome never changes, also when a reply races a user cancel or a timeout.

Properties of `miner_loop`:

- `TypeOK`.
- `SubmitsBelowStopHeight`: with `mine_on_tip_only`, no block above `mine_until_height` ever reaches the node, although the template is fetched before `validate_tip` reads the tip and other miners move the tip in between.
- `StopsAtMineUntilHeight` (liveness): with `mine_on_tip_only`, once the chain has reached `mine_until_height` the miner eventually returns. This holds through reconnects, NodeNotReady waits and lost blocks, and although the report loop checks the tip only every `validate_tip_interval`.

Each property has a mutant in `PROJECT.json` that TLC refutes:

| Property | Mutant |
|---|---|
| `TypeOK` (store) | the `(height, hash)` entry of the output-size index swapped |
| `HeaderChainIntact` | `delete_header` without its last-header check |
| `BodiesMatchHeaders` | `delete_block_kernels` skipped |
| `UtxoSetConsistent` | the bitmap not reduced on a rewind |
| `SpentAtMostOnce` | the deleted-txo insert made a replace |
| `MmrPositionLookup` | the lookup at `pos` instead of `pos + 1` |
| `TypeOK` (orphans) | the parent-map pair stored as `(hash, prev)` |
| `OrphanIndexesAgree` | `delete_orphan` keeps the accumulated data |
| `OrphanReadsFindRows` | `delete_orphan` keeps the tip entry |
| `EvictionWithinCapacity` | the break one orphan early |
| `EvictsLowestFirst` | the sort by height dropped |
| `TypeOK` (handler) | an invalid block published as a result |
| `NoRedundantFetch` | the `block_exists` check skipped |
| `AllHandled` | the error path keeps the permit |
| `TypeOK` (send) | the `send_transaction` error kept as a status, not read as Queued |
| `RefinesOutboundTransaction` | the reply checked by TxId only, not by key |
| `PendingTimesOut` | the cancelled message's error returned with `?` in `timeout_transaction` |
| `SyncServesUnspentSet` | `fetch_utxos_in_block` ignoring the bitmap passed in |
| `BodyReadsRoundTrip` | `fetch_outputs_in_block` returning unpruned rows only |
| `MmrSizeIsTipLeafCount` | `fetch_mmr_size` counting the commitment index |
| `MatchingUtxosAreUnspent` | `FetchMatchingUtxos` without the `!spent` filter |
| `ClearedToTip` | `clear_all_pending_headers` committing the deletes made before an error |
| `RewindRoundTrips` | `delete_block_kernels` skipped: the reinsert finds the excess indexes taken |
| `HeaderLookupsAgree` | `delete_header` keeps the `block_hashes_db` entry |
| `TypeOK` (wallet) | `update` that replaces the row with the changed column alone |
| `BalanceCountsOnce` | the pending-incoming clause also counting Unspent |
| `DefaultOrderLargestWhenUncovered` | the max query without the lock and maturity filters |
| `TypeOK` (miner) | `validate_tip` without the `mine_until_height` check: the miner mines past the bounded heights |
| `SubmitsBelowStopHeight` | `validate_tip` stopping only when the tip is above `mine_until_height` |
| `StopsAtMineUntilHeight` | the report loop without its periodic `validate_tip` |

**Deadlock.**
- The store is checked for deadlock, because some batch is always offered.
- The orphan pool and `WalletOutputs` are also checked for deadlock: a write is always offered.
- `MC_Miner.cfg` sets `CHECK_DEADLOCK FALSE`: `start_miner` returns (done, or exited after a failed first connect), and the node stops once others have built the chain to `MaxHeight`.
- `MC_NewBlockHandler.cfg` and `MC_TransactionSendProtocol.cfg` set `CHECK_DEADLOCK FALSE`. Their universes hold finitely many announcements and one transaction, and every task ends, so the system really stops.

**Fairness.**
- The store, the orphan pool and `WalletOutputs` assume none: they act only when a caller writes. Their properties are safety properties.
- In `NewBlockHandler`, each task is weakly fair. tokio runs a ready task, and every network request in the handler has a timeout, so no await blocks for ever.
- In `TransactionSendProtocol`, the steps outside the select loop are weakly fair, as is the timeout arm. The elapsed cancellation timer stays ready, the select picks at random among ready arms, and the resend timer is created fresh on each iteration. User cancels, replies, shutdown and restarts are not fair: nobody is obliged to do them.
- In `Miner`, the miner's own steps outside the report loop are weakly fair (a ready task is polled), as is a report after `validate_tip_interval` has elapsed: the mining threads keep reporting and the interval keeps elapsing. The node's finishing its initial sync is weakly fair. Solving a block, other miners' blocks and gRPC failures are not fair; failures are bounded by `MaxFaults`, because a node that fails every call forever keeps any client from progress.

## 4. Findings

- **Spec §4.3 versus `insert_block_body`** (run `bitmap_iff_input`).
  - Burned outputs are marked deleted in the output MMR (line 1261). The mark reaches the persisted bitmap (line 1384) with no input record.
  - The bitmap is therefore input positions ∪ burned positions, as `UtxoSetConsistent` states, and not input positions alone.
- **Not a finding, recorded as a hazard.** `delete_block_body` does not check that the block is the top body.
  - With unrestricted deletes, TLC finds this sequence: delete genesis's body after A1 spent and pruned o1, then reinsert it. o1 is then back in the commitment index while A1's input still spends it.
  - `BlockchainDatabase` rewinds from the tip down, so the model offers only top-down deletes.
- **Spec §8 versus `delete_oldest_orphans`** (run `eviction_spares_horizon`).
  - The loop breaks only when `height > horizon_height` and enough orphans are gone (line 2398), so it evicts every orphan at or below the horizon.
  - TLC's example: the pool holds P (height 1) and one of its children (height 2; C2 in one run, C1 in another), the horizon is 2 and the capacity is 1. One orphan must go; P goes, and the child, at the horizon height, is evicted as well.
- **Spec §4.10 versus `handle_block`** (run `added_blocks_propagated`).
  - `update_block_result_metrics` returns its `utxo_count` error with `?` (line 690). This happens after `add_block` committed the block and before `propagate_block`.
  - A block added Ok is then never propagated.
- **Not a finding, recorded as a hazard.** Tip promotion in `delete_orphan` (line 1131) does not check that the parent has accumulated data.
  - With a caller that deletes any orphan, TLC finds a tip without accumulated data.
  - `OrphanReadsFindRows` states what the backend guarantees on its own; `fetch_all_orphan_chain_tips` (modelled as `FetchAllOrphanChainTips`) is the read that would fail.
- **Not a finding, recorded as a hazard.** A local block reorged out between its `add_block` and its propagation is still propagated. TLC finds this sequence, and it is harmless to peers.
- **Not a finding, recorded as a hazard.** A stop between `cancel_pending_transaction` and the output manager's `cancel_transaction` in `timeout_transaction` leaves a cancelled transaction with encumbered inputs. TLC reaches this state. Whether the output manager's startup releases them is not under `src/`.

- **`insert_bad_block_and_cleanup` versus its own comment** (run `bad_block_remembered`).
  - The comment (line 1626) says bad blocks far from the tip are cleaned up. Outside tests `CLEAN_BAD_BLOCKS_BEFORE_REL_HEIGHT` is 0, so every bad block below the chain height is deleted, including the one just recorded. Tests use 10000 and never see it.
  - TLC's example: the chain is at height 2, and fork block B1 at height 1 is marked bad and gone in the same write. `bad_block_exists` then says no, and the block would be validated again.
- **`fetch_template_registrations` reads one height** (run `template_registrations`, a code bug).
  - The loop runs over `start_height..=end_height`, but the cursor prefix is `start_height.to_le_bytes()` on every iteration (line 2526). The answer is `start_height`'s registrations once per height of the range, and nothing from the other heights. The `FetchTemplateRegistrations` request serves this to peers.
  - TLC's example: G and A1 are stored, and A1's output o3 registers a template at height 1. The request for heights 0..1 returns nothing.
- **Template registrations outlive a rewind** (a hazard of the same property).
  - `delete_block_inputs_outputs` (line 980) deletes a block's outputs but not its `template_registrations` keys. A rewound block's registrations are still served. Inserting the same body again, a reorg back, then fails, because `insert_template_registration` uses `lmdb_insert` on a key that exists.
  - With the query's loop corrected, TLC still violates `TemplateRegistrationsAnswerRange` after one batch that inserts A1's body and rewinds it. An invariant saying A1's body can be inserted again fails after the same batch. With no template outputs it holds in all 3,068 states.
- **`get_balance`'s time-locked clause** (run `time_locked_balance`, a code bug).
  - `status = ? AND maturity > ? OR script_lock_height > ?` (output_sql.rs line 410) counts every output whose script lock is above the tip, whatever its status. `index_time_locked` and the category's name mean Unspent outputs. The tests only assert a zero time-locked balance.
  - TLC's example: a one-sided output of value 2 locked until height 1 is moved out of Unspent by `update_output` (the status in the trace depends on the search order: Spent in one run, EncumberedToBeReceived in another). At tip 0 the time-locked balance is 2 while the available balance is 0.
- **Not a finding, recorded as a hazard.** In the pending-incoming clause, `source != Coinbase` applies only to `EncumberedToBeReceived`, so an unconfirmed mined coinbase counts as pending incoming. Nothing says whether that is meant.

## 5. Plan

Later work, in this order:

1. **Horizon-sync operations in `ChainStorage`.**
   - `InsertOutput`, `InsertPrunedOutput`, `InsertKernel`, `UpdateDeletedBitmap`, `UpdateBlockAccumulatedData` and `DeleteAllInputsInBlock`;
   - the metadata writes. Their caller, the horizon state synchroniser, is not under `src/`, and the spec does not say how it sequences them.
2. **An abstract UTXO-ledger specification.** `ChainStorage` refines it via `INSTANCE ... WITH`, mapped to the best chain's unspent set.
3. **`SetBestBlock`'s expected-previous check** with concurrent callers holding stale tips.
4. **The miner's block budget.** `miner_max_blocks` against lost `submit_block` replies and the value 0. Both are recorded as hazards; the CLI definition that would say what the bound means is not under `src/`.

## 6. What is not modelled, and why

- **Cryptography** (commitments, signatures, range proofs, MMR hashes): abstracted to model values.
- **LMDB internals, file locks and migrations**: pure I/O.
- **Formatting, logging, protobuf and SQL row conversion**: no property is about them.
- **`BlockchainDatabase`'s validation**: not under `src/`. Its batches are the environment.
- **The handler's other read requests** (`handle_request`: fetch headers, blocks, kernels): they change no state and no property reads them. The two UTXO arms are in `ChainQueries`.
- **The wallet's transaction service, db and output manager**: not under `src/`. They are modelled only by the contract the send protocol relies on.
- **Wallet output rows' encryption and conversion** (`to_db_unblinded_output`, `encrypt`, `decrypt`), `fetch_outputs_by` and the `find_*` lookups: conversions and lookups no property reads.
- **Contacts and key-manager storage**: forwarding wrappers with no protocol of their own.
- **The miner's stratum path** (`Controller`, not under `src/`), configuration loading and `setup_grpc_config`, and `display_report` (logging).
- **Malformed gRPC replies** (`err_empty`), and a `get_tip_info` reply without metadata. On the second, `validate_tip` calls `metadata.unwrap()` before its own `is_none` check, so it would panic rather than return `NodeNotReady`. The node's gRPC server is not under `src/`, so nothing shows such a reply can occur.
