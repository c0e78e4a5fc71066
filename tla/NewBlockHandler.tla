--------------------------- MODULE NewBlockHandler ---------------------------
(***************************************************************************)
(* The inbound new-block path of the base node                            *)
(* (base_layer/core/src/base_node/comms_interface/inbound_handlers.rs):   *)
(* handle_new_block_message, reconcile_block, request_full_block_from_peer *)
(* and handle_block, run by concurrent tasks, one per NewBlock            *)
(* announcement, plus blocks submitted by local services, which call      *)
(* handle_block directly.                                                  *)
(*                                                                         *)
(* A task is a process whose pc is the await it is suspended at; every     *)
(* step runs from one await to the next.  The semaphore of one permit is  *)
(* tokio's fair Semaphore: a FIFO queue of waiters and a holder.  The     *)
(* chain database (add_block, block_exists, the tip), the mempool and the *)
(* peers that answer requests are the environment; their answers are the  *)
(* outcomes the handler distinguishes.                                     *)
(***************************************************************************)
EXTENDS Integers, Sequences, FiniteSets

CONSTANTS
    Tasks,       \* handler invocations
    Src,         \* Src[t] : the announcing peer, or Local for local services
    Blk,         \* Blk[t] : the block announced or submitted
    Local,       \* source_peer = None
    Malicious,   \* peers that may answer part of the missing transactions
    Genesis,     \* the block the chain starts with
    Parent,      \* Parent[b] : header.prev_hash
    Txs,         \* Txs[b] : the transactions named by the kernel excess sigs
    Invalid,     \* blocks that fail add_block's validation
    SpendsPruned,\* blocks with a compact input whose spent output is pruned
    NoTask

Blocks == {Blk[t] : t \in Tasks}
Peers == {Src[t] : t \in Tasks} \ {Local}
Height[b \in Blocks \cup {Genesis}] ==
    IF b = Genesis THEN 0 ELSE Height[Parent[b]] + 1

VARIABLES
    pc,          \* pc[t] : where task t is
    holder,      \* the task holding new_block_request_semaphore's permit
    waiters,     \* tasks queued in semaphore.acquire(), oldest first
    res,         \* res[t] : the BlockAddResult task t got from add_block
    chain,       \* blocks of the main chain
    orphans,     \* blocks stored as orphans
    tip,         \* the best block
    mempool,     \* transactions in the mempool
    banned,      \* peers banned by the handler
    propagated,  \* <<block, excluded peer>> of every propagate_block call
    disabled     \* is_add_block_disabled()

vars == <<pc, holder, waiters, res, chain, orphans, tip, mempool, banned,
          propagated, disabled>>
db == <<chain, orphans, tip>>

Stored == chain \cup orphans

FinishKeepPermit(t) ==
    /\ pc' = [pc EXCEPT ![t] = "done"]
    /\ holder' = holder

-----------------------------------------------------------------------------
(* Leaving the handler, on any path: the permit is dropped with _permit.  *)
Finish(t) ==
    /\ pc' = [pc EXCEPT ![t] = "done"]
    /\ holder' = IF holder = t THEN NoTask ELSE holder

(* handle_new_block_message: ignore the message while add_block is        *)
(* disabled, else queue for the permit.                                    *)
Start(t) ==
    /\ pc[t] = "start"
    /\ IF disabled
         THEN /\ pc' = [pc EXCEPT ![t] = "done"]
              /\ UNCHANGED waiters
         ELSE /\ pc' = [pc EXCEPT ![t] = "acquire"]
              /\ waiters' = Append(waiters, t)
    /\ UNCHANGED <<holder, res, db, mempool, banned, propagated, disabled>>

(* semaphore.acquire().await: the permit goes to the oldest waiter.       *)
Acquire(t) ==
    /\ pc[t] = "acquire"
    /\ holder = NoTask
    /\ waiters # <<>> /\ Head(waiters) = t
    /\ holder' = t
    /\ waiters' = Tail(waiters)
    /\ pc' = [pc EXCEPT ![t] = "check"]
    /\ UNCHANGED <<res, db, mempool, banned, propagated, disabled>>

CheckExistsSkipped(t) ==
    /\ pc[t] = "check"
    /\ pc' = [pc EXCEPT ![t] = "reconcile"]
    /\ UNCHANGED <<holder, waiters, res, db, mempool, banned, propagated, disabled>>

(* block_exists(block_hash).await under the permit.                       *)
CheckExists(t) ==
    /\ pc[t] = "check"
    /\ IF Blk[t] \in Stored
         THEN Finish(t)
         ELSE /\ pc' = [pc EXCEPT ![t] = "reconcile"]
              /\ UNCHANGED holder
    /\ UNCHANGED <<waiters, res, db, mempool, banned, propagated, disabled>>

(* reconcile_block up to its first request: an empty block is built from  *)
(* the header and coinbase; a block not on the current tip is fetched in  *)
(* full; otherwise the mempool is asked for the excess sigs.              *)
Reconcile(t) ==
    LET b == Blk[t] IN
    /\ pc[t] = "reconcile"
    /\ pc' = [pc EXCEPT ![t] =
                IF Txs[b] = {} THEN "handle"
                ELSE IF Parent[b] # tip THEN "reqBlock"
                ELSE IF Txs[b] \subseteq mempool THEN "roots"
                ELSE "reqTxs"]
    /\ UNCHANGED <<holder, waiters, res, db, mempool, banned, propagated, disabled>>

(* What a peer returns for the missing transactions: an honest peer has   *)
(* all of them, a malicious one any part.                                 *)
TxAnswers(t, missing) ==
    IF Src[t] \in Malicious THEN SUBSET missing ELSE {missing}

(* request_transactions_by_excess_sig: an error returns at once (?);       *)
(* found transactions go into the mempool; any not found fall back to the  *)
(* full block.                                                             *)
RequestTxs(t) ==
    LET missing == Txs[Blk[t]] \ mempool IN
    /\ pc[t] = "reqTxs"
    /\ \/ /\ Finish(t)
          /\ UNCHANGED mempool
       \/ \E found \in TxAnswers(t, missing) :
            /\ mempool' = mempool \cup found
            /\ pc' = [pc EXCEPT ![t] = IF found = missing THEN "roots" ELSE "reqBlock"]
            /\ UNCHANGED holder
    /\ UNCHANGED <<waiters, res, db, banned, propagated, disabled>>

(* calculate_mmr_roots and check_mmr_roots on the reconstructed block: an *)
(* error or a mismatch (a mempool transaction with the same excess sig)   *)
(* falls back to the full block.                                           *)
CheckRoots(t) ==
    /\ pc[t] = "roots"
    /\ \E ok \in BOOLEAN : pc' = [pc EXCEPT ![t] = IF ok THEN "handle" ELSE "reqBlock"]
    /\ UNCHANGED <<holder, waiters, res, db, mempool, banned, propagated, disabled>>

(* request_full_block_from_peer: Some(block) goes on to handle_block; None *)
(* bans the peer for 100 s and errors; an error of the request returns at *)
(* once.  Any peer may answer None: whether the source still holds the   *)
(* block it announced is the peer's business, not this handler's.         *)
RequestFullBlock(t) ==
    /\ pc[t] = "reqBlock"
    /\ \/ /\ pc' = [pc EXCEPT ![t] = "handle"]
          /\ UNCHANGED <<holder, banned>>
       \/ /\ Finish(t)
          /\ UNCHANGED banned
       \/ /\ banned' = banned \cup {Src[t]}
          /\ Finish(t)
    /\ UNCHANGED <<waiters, res, db, mempool, propagated, disabled>>
-----------------------------------------------------------------------------
(* BlockchainDatabase::add_block (not under src/), as far as the handler  *)
(* sees it: a block that fails validation is refused; a stored one is     *)
(* BlockExists; otherwise it is stored, and the chain moves to the        *)
(* highest block whose ancestors are all stored (the first seen wins a    *)
(* tie): Ok if that is the block on the old tip, ChainReorg if the chain  *)
(* moved otherwise, OrphanBlock if it did not move.                       *)
Ancestors[b \in Blocks \cup {Genesis}] ==
    IF b = Genesis THEN {Genesis} ELSE {b} \cup Ancestors[Parent[b]]

BestTip(S) ==
    LET linked == {x \in S : Ancestors[x] \subseteq S}
        higher == {x \in linked : Height[x] > Height[tip]}
    IN IF higher = {} THEN tip
       ELSE CHOOSE x \in higher : \A y \in higher : Height[y] <= Height[x]

AddBlockResult(b) ==
    LET best == BestTip(Stored \cup {b}) IN
    CASE b \in Invalid -> "ValidationError"
      [] b \in Stored -> "BlockExists"
      [] best = tip -> "OrphanBlock"
      [] best = b /\ Parent[b] = tip -> "Ok"
      [] OTHER -> "ChainReorg"

AddBlock(b) ==
    LET all == Stored \cup {b}
        best == BestTip(all)
    IN /\ tip' = best
       /\ chain' = Ancestors[best]
       /\ orphans' = all \ Ancestors[best]

HandleBlockPublishInvalid(t) ==
    LET b == Blk[t]
        r == AddBlockResult(b)
    IN /\ pc[t] = "handle"
       /\ IF b \in SpendsPruned \/ r \in {"ValidationError", "BlockExists"}
            THEN UNCHANGED db
            ELSE AddBlock(b)
       /\ pc' = [pc EXCEPT ![t] = "publish"]
       /\ res' = [res EXCEPT ![t] = r]
       /\ UNCHANGED <<holder, banned, waiters, mempool, propagated, disabled>>

(* handle_block: hydrate_block fails on a compact input whose output is    *)
(* pruned; then add_block.  A ValidationError bans the source peer (a     *)
(* local block bans no one) and errors; any other result goes on to the    *)
(* metrics update and propagation.                                        *)
HandleBlock(t) ==
    LET b == Blk[t]
        r == AddBlockResult(b)
    IN /\ pc[t] = "handle"
       /\ IF b \in SpendsPruned \/ r \in {"ValidationError", "BlockExists"}
            THEN UNCHANGED db
            ELSE AddBlock(b)
       /\ IF b \notin SpendsPruned /\ r # "ValidationError"
            THEN /\ pc' = [pc EXCEPT ![t] = "publish"]
                 /\ res' = [res EXCEPT ![t] = r]
                 /\ UNCHANGED <<holder, banned>>
            ELSE /\ Finish(t)
                 /\ banned' = IF b \notin SpendsPruned /\ Src[t] # Local
                                THEN banned \cup {Src[t]} ELSE banned
                 /\ UNCHANGED res
       /\ UNCHANGED <<waiters, mempool, propagated, disabled>>

ShouldPropagate(r) == r \in {"Ok", "ChainReorg"}

(* update_block_result_metrics reads utxo_count for Ok and ChainReorg and *)
(* returns its error with ?; then publish_block_event, and propagation to  *)
(* every peer but the source when the result should propagate.            *)
Publish(t) ==
    /\ pc[t] = "publish"
    /\ \/ /\ ShouldPropagate(res[t])
          /\ UNCHANGED propagated
       \/ propagated' = IF ShouldPropagate(res[t])
                          THEN propagated \cup {<<Blk[t], Src[t]>>}
                          ELSE propagated
    /\ Finish(t)
    /\ UNCHANGED <<waiters, res, db, mempool, banned, disabled>>

Step(t) ==
    \/ Start(t) \/ Acquire(t) \/ CheckExists(t) \/ Reconcile(t)
    \/ RequestTxs(t) \/ CheckRoots(t) \/ RequestFullBlock(t)
    \/ HandleBlock(t) \/ Publish(t)

Init ==
    /\ pc = [t \in Tasks |-> IF Src[t] = Local THEN "handle" ELSE "start"]
    /\ holder = NoTask
    /\ waiters = <<>>
    /\ res = [t \in Tasks |-> "None"]
    /\ chain = {Genesis}
    /\ orphans = {}
    /\ tip = Genesis
    /\ mempool \in SUBSET UNION {Txs[b] : b \in Blocks}
    /\ banned = {}
    /\ propagated = {}
    /\ disabled \in BOOLEAN

Next == \E t \in Tasks : Step(t)

(* Each task is a tokio task that runs when it is ready, and every peer    *)
(* request ends with an answer or a timeout.                              *)
Spec == Init /\ [][Next]_vars /\ \A t \in Tasks : WF_vars(Step(t))
-----------------------------------------------------------------------------
PCs == {"start", "acquire", "check", "reconcile", "reqTxs", "roots",
        "reqBlock", "handle", "publish", "done"}
Results == {"None", "Ok", "ChainReorg", "OrphanBlock", "BlockExists"}

TypeOK ==
    /\ pc \in [Tasks -> PCs]
    /\ holder \in Tasks \cup {NoTask}
    /\ waiters \in Seq(Tasks)
    /\ res \in [Tasks -> Results]
    /\ tip \in chain /\ chain \cap orphans = {}
    /\ chain \cup orphans \subseteq Blocks \cup {Genesis}
    /\ banned \subseteq Peers
    /\ propagated \subseteq Blocks \X (Peers \cup {Local})
    /\ disabled \in BOOLEAN

(* A peer is asked for a block or its transactions only while the block   *)
(* is not stored: block_exists and the requests run under the one permit, *)
(* so once an announcement has added the block every later announcement  *)
(* of it stops at block_exists (spec sections 4.10 and 9: capacity 1     *)
(* prevents duplicate fetches of one block).                             *)
NoRedundantFetch ==
    \A t \in Tasks : pc[t] \in {"reqTxs", "reqBlock"} => Blk[t] \notin Stored

(* Every announcement and every local submission is eventually handled:   *)
(* each path out of the handler drops the permit, so no task waits on     *)
(* the semaphore for ever.                                                *)
AllHandled == <>(\A t \in Tasks : pc[t] = "done")

(* Spec section 4.10: a block that add_block stored as Ok or ChainReorg  *)
(* is propagated to the other peers (re-propagation on Ok and reorg).    *)
AddedBlocksPropagated ==
    [][\A t \in Tasks :
         (pc[t] = "publish" /\ ShouldPropagate(res[t]) /\ pc'[t] = "done")
            => <<Blk[t], Src[t]>> \in propagated']_vars
====
