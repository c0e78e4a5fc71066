----------------------------- MODULE OrphanPool -----------------------------
(***************************************************************************)
(* The orphan-block tables of the LMDB chain-storage backend              *)
(* (base_layer/core/src/chain_storage/lmdb_db/lmdb_db.rs):                 *)
(*   orphans_db                         hash -> block                     *)
(*   orphan_parent_map_index            prev_hash -> hash (dup-sort)      *)
(*   orphan_header_accumulated_data_db  hash -> accumulated data          *)
(*   orphan_chain_tips_db               hash -> hash                      *)
(* the WriteOperations that change them, and delete_oldest_orphans, which  *)
(* evicts orphans once the pool exceeds its capacity.                     *)
(*                                                                         *)
(* A block is a model value; its prev_hash and height are constants.  A   *)
(* table is the set of its keys (the values follow from the key).  A       *)
(* DbTransaction commits all of its operations or none of them; the       *)
(* resize retry of `write` is modelled in ChainStorage and left out here. *)
(***************************************************************************)
EXTENDS Integers, Sequences, FiniteSets, FiniteSetsExt, SequencesExt

CONSTANTS
    Blocks,      \* hashes of blocks that may be stored as orphans
    MainChain,   \* hashes of blocks of the main chain (never orphans)
    Parent,      \* Parent[b] : header.prev_hash, in Blocks, MainChain or unknown
    Height,      \* Height[b] : header.height
    Horizons,    \* horizon_height arguments of delete_oldest_orphans
    Capacities   \* orphan_storage_capacity arguments

ASSUME Blocks \cap MainChain = {}
ASSUME \A b \in Blocks : Parent[b] \in Blocks => Height[b] = Height[Parent[b]] + 1

VARIABLES
    pool,        \* the committed content of the four orphan tables
    lastResult,  \* what the last write or eviction returned
    lastCall     \* <<horizon, capacity>> of the last eviction, else <<>>

vars == <<pool, lastResult, lastCall>>

EmptyPool ==
    [orphans   |-> {},   \* orphans_db
     parentMap |-> {},   \* orphan_parent_map_index: <<prev_hash, hash>> pairs
     accum     |-> {},   \* orphan_header_accumulated_data_db
     tips      |-> {}]   \* orphan_chain_tips_db

Result(ok, p) == [ok |-> ok, pool |-> p]
Fail(p) == Result(FALSE, p)
Chain(r, Op(_, _), x) == IF r.ok THEN Op(r.pool, x) ELSE r

-----------------------------------------------------------------------------
(* insert_orphan_block: lmdb_insert_dup of (prev_hash, hash) into the      *)
(* parent map, then lmdb_insert into orphans_db, which fails if the hash   *)
(* is already an orphan.                                                   *)
InsertOrphanBlockSwapped(p, b) ==
    IF b \in p.orphans THEN Fail(p)
    ELSE Result(TRUE, [p EXCEPT !.parentMap = @ \cup {<<b, Parent[b]>>},
                                !.orphans = @ \cup {b}])

InsertOrphanBlock(p, b) ==
    IF b \in p.orphans THEN Fail(p)
    ELSE Result(TRUE, [p EXCEPT !.parentMap = @ \cup {<<Parent[b], b>>},
                                !.orphans = @ \cup {b}])

(* set_accumulated_data_for_orphan: the orphan must exist; lmdb_insert of *)
(* the accumulated data fails if it is already set.                       *)
SetAccumulatedDataForOrphan(p, b) ==
    IF b \notin p.orphans \/ b \in p.accum THEN Fail(p)
    ELSE Result(TRUE, [p EXCEPT !.accum = @ \cup {b}])

(* The InsertChainOrphanBlock arm: both of the above, in this order.      *)
InsertChainOrphanBlock(p, b) ==
    Chain(InsertOrphanBlock(p, b), SetAccumulatedDataForOrphan, b)

(* The InsertOrphanChainTip and DeleteOrphanChainTip arms: lmdb_insert     *)
(* and lmdb_delete on orphan_chain_tips_db, no other check.               *)
InsertOrphanChainTip(p, b) ==
    IF b \in p.tips THEN Fail(p) ELSE Result(TRUE, [p EXCEPT !.tips = @ \cup {b}])

DeleteOrphanChainTip(p, b) ==
    IF b \notin p.tips THEN Fail(p) ELSE Result(TRUE, [p EXCEPT !.tips = @ \ {b}])

(* The parent of a deleted tip becomes a tip when it is itself an orphan. *)
PromoteParent(p, b) ==
    IF Parent[b] \in p.orphans THEN {Parent[b]} ELSE {}

DeleteOrphanKeepAccum(p, b) ==
    IF b \notin p.orphans THEN Result(TRUE, p)
    ELSE IF <<Parent[b], b>> \notin p.parentMap THEN Fail(p)
    ELSE IF b \in p.tips /\ PromoteParent(p, b) \cap p.tips # {} THEN Fail(p)
    ELSE Result(TRUE,
            [p EXCEPT !.parentMap = @ \ {<<Parent[b], b>>},
                      !.tips = IF b \in p.tips THEN (@ \ {b}) \cup PromoteParent(p, b)
                               ELSE @,
                      !.orphans = @ \ {b}])

DeleteOrphanKeepTip(p, b) ==
    IF b \notin p.orphans THEN Result(TRUE, p)
    ELSE IF <<Parent[b], b>> \notin p.parentMap THEN Fail(p)
    ELSE IF b \in p.tips /\ PromoteParent(p, b) \cap p.tips # {} THEN Fail(p)
    ELSE Result(TRUE,
            [p EXCEPT !.parentMap = @ \ {<<Parent[b], b>>},
                      !.tips = IF b \in p.tips THEN @ \cup PromoteParent(p, b) ELSE @,
                      !.accum = @ \ {b},
                      !.orphans = @ \ {b}])

(* delete_orphan.  Idempotent on a missing orphan.  Deletes the parent-map *)
(* pair (lmdb_delete_key_value, which fails if it is missing).  If the    *)
(* orphan is a tip, the tip is deleted and the parent, when it is an       *)
(* orphan, is lmdb_insert-ed as a tip, failing if it already is one.  The  *)
(* accumulated data goes if present, and the orphan row last.             *)
DeleteOrphan(p, b) ==
    IF b \notin p.orphans THEN Result(TRUE, p)
    ELSE IF <<Parent[b], b>> \notin p.parentMap THEN Fail(p)
    ELSE IF b \in p.tips /\ PromoteParent(p, b) \cap p.tips # {} THEN Fail(p)
    ELSE Result(TRUE,
            [p EXCEPT !.parentMap = @ \ {<<Parent[b], b>>},
                      !.tips = IF b \in p.tips THEN (@ \ {b}) \cup PromoteParent(p, b)
                               ELSE @,
                      !.accum = @ \ {b},
                      !.orphans = @ \ {b}])

(* The orphan arms of apply_db_transaction.                                *)
Apply(p, o) ==
    CASE o.op = "InsertOrphanBlock"           -> InsertOrphanBlock(p, o.b)
      [] o.op = "InsertChainOrphanBlock"      -> InsertChainOrphanBlock(p, o.b)
      [] o.op = "SetAccumulatedDataForOrphan" -> SetAccumulatedDataForOrphan(p, o.b)
      [] o.op = "InsertOrphanChainTip"        -> InsertOrphanChainTip(p, o.b)
      [] o.op = "DeleteOrphanChainTip"        -> DeleteOrphanChainTip(p, o.b)
      [] o.op = "DeleteOrphan"                -> DeleteOrphan(p, o.b)

ApplyTxn(p, txn) ==
    FoldLeft(LAMBDA r, o : Chain(r, Apply, o), Result(TRUE, p), txn)

(* write of a DbTransaction: commit on success, keep the pool on error.   *)
Write(txn) ==
    LET r == ApplyTxn(pool, txn) IN
    /\ pool' = IF r.ok THEN r.pool ELSE pool
    /\ lastResult' = IF r.ok THEN "Ok" ELSE "Err"
-----------------------------------------------------------------------------
HeightOrdersAny(S) == SetToSeqs(S)

(* delete_oldest_orphans(horizon_height, orphan_storage_capacity).  The   *)
(* orphans are read as (height, hash) in hash order and sorted by height  *)
(* with a stable sort, so orphans of equal height may come in any order.  *)
HeightOrders(S) ==
    {s \in SetToSeqs(S) : IsSorted(s, LAMBDA x, y : Height[x] <= Height[y])}

EvictCountEarly(order, h, over) ==
    LET Stops == {i \in 1..Len(order) : Height[order[i]] > h /\ i >= over}
    IN IF Stops = {} THEN Len(order) ELSE Min(Stops) - 1

(* The loop deletes order[1..k]: it breaks at the first orphan above the  *)
(* horizon once removed_count (its 0-based index) reaches num_over_limit. *)
EvictCount(order, h, over) ==
    LET Stops == {i \in 1..Len(order) : Height[order[i]] > h /\ i - 1 >= over}
    IN IF Stops = {} THEN Len(order) ELSE Min(Stops) - 1

DeleteOldestOrphans(h, c) ==
    LET n    == Cardinality(pool.orphans)
        over == IF n > c THEN n - c ELSE 0   \* saturating_sub
    IN /\ lastCall' = <<h, c>>
       /\ IF over = 0
            THEN /\ lastResult' = "Ok"
                 /\ UNCHANGED pool
            ELSE \E order \in HeightOrders(pool.orphans) :
                   Write([i \in 1..EvictCount(order, h, over) |->
                            [op |-> "DeleteOrphan", b |-> order[i]]])

-----------------------------------------------------------------------------
(* The orphan reads.  A read answers from one read transaction, so from   *)
(* the committed pool.                                                    *)

(* fetch_orphan_chain_tip_by_hash: None unless the hash is in              *)
(* orphan_chain_tips_db; ValueNotFound when the orphan row or its          *)
(* accumulated data is missing.                                           *)
FetchOrphanChainTipByHash(p, h) ==
    CASE h \notin p.tips    -> "None"
      [] h \notin p.orphans -> "OrphanNotFound"
      [] h \notin p.accum   -> "AccumulatedDataNotFound"
      [] OTHER              -> "Some"

(* fetch_all_orphan_chain_tips: the chain header of every tip, or the     *)
(* first ValueNotFound met on the way.                                    *)
FetchAllOrphanChainTips(p) ==
    IF p.tips \subseteq p.orphans \cap p.accum
    THEN [ok |-> TRUE, tips |-> p.tips]
    ELSE [ok |-> FALSE, tips |-> {}]

(* fetch_orphan_children_of: the orphans the parent map lists under the   *)
(* parent, each read from orphans_db, ValueNotFound if one is missing.    *)
FetchOrphanChildrenOf(p, parent) ==
    LET hs == {e[2] : e \in {x \in p.parentMap : x[1] = parent}} IN
    IF hs \subseteq p.orphans THEN [ok |-> TRUE, blocks |-> hs]
    ELSE [ok |-> FALSE, blocks |-> {}]

(* fetch_orphan_chain_block: Some only when both the orphan and its       *)
(* accumulated data are stored, None otherwise.                           *)
FetchOrphanChainBlock(p, h) == h \in p.orphans /\ h \in p.accum

-----------------------------------------------------------------------------
(* The caller, BlockchainDatabase (not under src/), submits one orphan    *)
(* operation per batch.  An orphan whose parent is on the main chain or   *)
(* has accumulated data is inserted with its accumulated data             *)
(* (InsertChainOrphanBlock); any other orphan without it.  Only orphans   *)
(* with accumulated data are made chain tips.                             *)
Connected(p, b) == Parent[b] \in MainChain \/ Parent[b] \in p.accum

Requests(p) ==
    {<<[op |-> "InsertOrphanBlock", b |-> b]>> : b \in {x \in Blocks : ~Connected(p, x)}}
    \cup {<<[op |-> o, b |-> b]>> : o \in {"InsertChainOrphanBlock", "SetAccumulatedDataForOrphan"},
                                    b \in {x \in Blocks : Connected(p, x)}}
    \cup {<<[op |-> "InsertOrphanChainTip", b |-> b]>> : b \in p.accum}
    \cup {<<[op |-> "DeleteOrphanChainTip", b |-> b]>> : b \in p.tips}
    \cup {<<[op |-> "DeleteOrphan", b |-> b]>> : b \in Blocks}

Init ==
    /\ pool = EmptyPool
    /\ lastResult = "Ok"
    /\ lastCall = <<>>

Next ==
    \/ \E txn \in Requests(pool) : Write(txn) /\ lastCall' = <<>>
    \/ \E h \in Horizons, c \in Capacities : DeleteOldestOrphans(h, c)

Spec == Init /\ [][Next]_vars

-----------------------------------------------------------------------------
TypeOK ==
    /\ pool.orphans \subseteq Blocks
    /\ pool.parentMap \subseteq (Blocks \cup MainChain \cup {Parent[b] : b \in Blocks}) \X Blocks
    /\ pool.accum \subseteq Blocks
    /\ pool.tips \subseteq Blocks
    /\ lastResult \in {"Ok", "Err"}
    /\ lastCall \in {<<>>} \cup (Horizons \X Capacities)

(* The parent map holds exactly one (prev_hash, hash) pair per stored     *)
(* orphan, and accumulated data exists only for stored orphans, through   *)
(* every insert_orphan_block, delete_orphan and eviction.                 *)
OrphanIndexesAgree ==
    /\ pool.parentMap = {<<Parent[b], b>> : b \in pool.orphans}
    /\ pool.accum \subseteq pool.orphans

(* The orphan reads never meet a missing orphan row: every orphan chain   *)
(* tip resolves to its orphan in fetch_orphan_chain_tip_by_hash (also     *)
(* after delete_orphan has promoted a parent to a tip), and               *)
(* fetch_orphan_children_of answers, for every parent, exactly the stored *)
(* orphans built on it, also after evictions in any order.                *)
OrphanReadsFindRows ==
    /\ \A t \in pool.tips : FetchOrphanChainTipByHash(pool, t) # "OrphanNotFound"
    /\ \A a \in MainChain \cup Blocks \cup {Parent[b] : b \in Blocks} :
          FetchOrphanChildrenOf(pool, a) =
              [ok |-> TRUE, blocks |-> {b \in pool.orphans : Parent[b] = a}]

(* delete_oldest_orphans succeeds and leaves at most                      *)
(* orphan_storage_capacity orphans.                                       *)
EvictionWithinCapacity ==
    [][lastCall' # <<>> =>
         /\ lastResult' = "Ok"
         /\ Cardinality(pool'.orphans) <= lastCall'[2]]_vars

(* delete_oldest_orphans evicts lowest heights first: no evicted orphan   *)
(* is higher than an orphan it keeps.                                     *)
EvictsLowestFirst ==
    [][lastCall' # <<>> =>
         \A e \in pool.orphans \ pool'.orphans, k \in pool'.orphans :
            Height[e] <= Height[k]]_vars

(* Spec section 8: delete_oldest_orphans never evicts orphans at or above *)
(* horizon_height beyond the required eviction count (num_over_limit).     *)
EvictionSparesHorizon ==
    [][lastCall' # <<>> =>
         LET evicted == pool.orphans \ pool'.orphans
             n == Cardinality(pool.orphans)
             over == IF n > lastCall'[2] THEN n - lastCall'[2] ELSE 0
         IN Cardinality(evicted) > over =>
               \A e \in evicted : Height[e] < lastCall'[1]]_vars
====
