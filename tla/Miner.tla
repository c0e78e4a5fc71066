------------------------------- MODULE Miner -------------------------------
(***************************************************************************)
(* The solo mining loop of the standalone miner                           *)
(* (applications/tari_miner/src/run_miner.rs: start_miner without a pool  *)
(* address, mining_cycle and validate_tip).                               *)
(*                                                                         *)
(* pc is the await the miner task is suspended at; one step runs from one *)
(* await to the next.  The environment is the base node and the wallet    *)
(* behind their gRPC connections: other miners extend the chain, the node *)
(* finishes its initial sync, and any call may fail with a gRPC error (at *)
(* most MaxFaults of them; a failed submit_block may have been accepted by *)
(* the node before its reply was lost).  A block is abstracted to its     *)
(* height; a mining report to whether it carries a solved header and of   *)
(* what difficulty.                                                        *)
(***************************************************************************)
EXTENDS Naturals, FiniteSets

CONSTANTS
    MineOnTipOnly,     \* config.mine_on_tip_only
    MineUntilHeight,   \* cli.mine_until_height (NoLimit for None)
    MaxBlocks,         \* cli.miner_max_blocks (NoLimit for None)
    MinDiff,           \* cli.miner_min_diff (NoLimit for None)
    MaxDiff,           \* cli.miner_max_diff (NoLimit for None)
    NoLimit,           \* None
    Difficulties,      \* difficulties a solved header may reach
    MaxHeight,         \* bound on the height other miners build the chain to
    MaxFaults          \* bound on the gRPC failures of the environment

ASSUME MineOnTipOnly \in BOOLEAN
ASSUME \A c \in {MineUntilHeight, MaxBlocks, MinDiff, MaxDiff} : c \in Nat \cup {NoLimit}

VARIABLES
    pc,           \* "connect", "template", "validate", "coinbase", "newBlock",
                  \* "mining", "submit", "wait", "reconnect", "done", "exited"
    height,       \* height of the block template of this cycle
    blocksFound,  \* blocks_found
    tip,          \* the node's height_of_longest_chain
    synced,       \* the node's initial_sync_achieved
    submitted,    \* heights of the blocks the node received from this miner
    faults        \* gRPC failures so far

vars == <<pc, height, blocksFound, tip, synced, submitted, faults>>
nodeVars == <<tip, synced>>

PCs == {"connect", "template", "validate", "coinbase", "newBlock", "mining",
        "submit", "wait", "reconnect", "done", "exited"}
Heights == 0..(MaxHeight + 1)

-----------------------------------------------------------------------------
ValidateTipIgnoringUntil(h) ==
    IF h <= tip THEN "MinerLostBlock"
    ELSE IF ~synced THEN "NodeNotReady"
    ELSE "Ok"

ValidateTipOffByOne(h) ==
    IF MineUntilHeight # NoLimit /\ tip > MineUntilHeight THEN "MineUntilHeightReached"
    ELSE IF h <= tip THEN "MinerLostBlock"
    ELSE IF ~synced THEN "NodeNotReady"
    ELSE "Ok"

(* validate_tip(height, mine_until_height) on a get_tip_info answer:      *)
(* the checks in the order of the code.  The answer always carries        *)
(* metadata here (see the README on the unwrap before the is_none check). *)
ValidateTip(h) ==
    IF MineUntilHeight # NoLimit /\ tip >= MineUntilHeight THEN "MineUntilHeightReached"
    ELSE IF h <= tip THEN "MinerLostBlock"
    ELSE IF ~synced THEN "NodeNotReady"
    ELSE "Ok"

(* start_miner's match on the error of mining_cycle: a gRPC error holds   *)
(* and reconnects, MineUntilHeightReached returns, MinerLostBlock starts  *)
(* the next cycle at once, any other error sleeps for wait_timeout.       *)
OnError(e) ==
    CASE e = "Grpc"                   -> "reconnect"
      [] e = "MineUntilHeightReached" -> "done"
      [] e = "MinerLostBlock"         -> "template"
      [] OTHER                        -> "wait"

(* The pc after validate_tip answered r, when Ok leads to `next`.         *)
AfterValidate(r, next) == IF r = "Ok" THEN next ELSE OnError(r)

(* The report loop submits a solved header only within the optional      *)
(* cli difficulty bounds.                                                  *)
Submit(d) ==
    /\ MinDiff = NoLimit \/ d >= MinDiff
    /\ MaxDiff = NoLimit \/ d <= MaxDiff

(* The Ok(submitted) arm: count the block, stop at miner_max_blocks.      *)
MaxBlocksReached(n) == MaxBlocks # NoLimit /\ n >= MaxBlocks

(* Any gRPC call of the current step fails instead of answering.          *)
GrpcFailure ==
    /\ pc \in {"template", "validate", "coinbase", "newBlock", "mining"}
    /\ faults < MaxFaults
    /\ faults' = faults + 1
    /\ pc' = "reconnect"
    /\ UNCHANGED <<height, blocksFound, nodeVars, submitted>>

-----------------------------------------------------------------------------
(* connect before the loop: a failure ends start_miner with an ExitError. *)
Connect ==
    /\ pc = "connect"
    /\ \/ pc' = "template" /\ UNCHANGED faults
       \/ faults < MaxFaults /\ faults' = faults + 1 /\ pc' = "exited"
    /\ UNCHANGED <<height, blocksFound, nodeVars, submitted>>

(* The reconnect loop: sleep(wait_timeout), connect, until it succeeds.   *)
Reconnect ==
    /\ pc = "reconnect"
    /\ \/ pc' = "template" /\ UNCHANGED faults
       \/ faults < MaxFaults /\ faults' = faults + 1 /\ UNCHANGED pc
    /\ UNCHANGED <<height, blocksFound, nodeVars, submitted>>

(* The Err(err) arm for any other error: sleep(wait_timeout), next cycle. *)
Wait ==
    /\ pc = "wait"
    /\ pc' = "template"
    /\ UNCHANGED <<height, blocksFound, nodeVars, submitted, faults>>

(* The node's GetNewBlockTemplate arm: BlockHeader::from_previous of      *)
(* fetch_tip_header, so one above the tip; the transactions, weight,       *)
(* difficulty and reward it adds do not affect the loop.                  *)
NewBlockTemplateHeight == tip + 1

(* get_new_block_template: the node builds on its tip.                    *)
GetTemplate ==
    /\ pc = "template"
    /\ height' = NewBlockTemplateHeight
    /\ pc' = IF MineOnTipOnly THEN "validate" ELSE "coinbase"
    /\ UNCHANGED <<blocksFound, nodeVars, submitted, faults>>

(* validate_tip on the template's height when mine_on_tip_only.           *)
ValidateTemplate ==
    /\ pc = "validate"
    /\ pc' = AfterValidate(ValidateTip(height), "coinbase")
    /\ UNCHANGED <<height, blocksFound, nodeVars, submitted, faults>>

(* get_coinbase from the wallet, its output and kernel pushed on the body. *)
GetCoinbase ==
    /\ pc = "coinbase"
    /\ pc' = "newBlock"
    /\ UNCHANGED <<height, blocksFound, nodeVars, submitted, faults>>

(* get_new_block, then Miner::init_mining starts the report stream.       *)
GetNewBlock ==
    /\ pc = "newBlock"
    /\ pc' = "mining"
    /\ UNCHANGED <<height, blocksFound, nodeVars, submitted, faults>>

ReportNoTipCheck(solved, d, elapsed) ==
    /\ pc = "mining"
    /\ IF solved /\ Submit(d) THEN pc' = "submit" ELSE UNCHANGED pc
    /\ UNCHANGED <<height, blocksFound, nodeVars, submitted, faults>>

(* One report of the stream: a solved header within the difficulty bounds *)
(* breaks out to submit_block; otherwise the report is displayed and,     *)
(* when mine_on_tip_only and validate_tip_interval has elapsed since the  *)
(* last check, validate_tip runs on report.height (the template height).  *)
Report(solved, d, elapsed) ==
    /\ pc = "mining"
    /\ IF solved /\ Submit(d)
       THEN pc' = "submit"
       ELSE IF MineOnTipOnly /\ elapsed
       THEN pc' = AfterValidate(ValidateTip(height), "mining")
       ELSE UNCHANGED pc
    /\ UNCHANGED <<height, blocksFound, nodeVars, submitted, faults>>

(* submit_block: the node takes the block, extending its tip when the     *)
(* block builds on it.  On the Ok reply mining_cycle returns Ok(true) and *)
(* start_miner counts the block; a reply lost after the node took the     *)
(* block is a gRPC error.                                                  *)
SubmitBlock ==
    /\ pc = "submit"
    /\ submitted' = submitted \cup {height}
    /\ tip' = IF height = tip + 1 THEN height ELSE tip
    /\ \/ /\ blocksFound' = blocksFound + 1
          /\ pc' = IF MaxBlocksReached(blocksFound + 1) THEN "done" ELSE "template"
          /\ UNCHANGED faults
       \/ /\ faults < MaxFaults
          /\ faults' = faults + 1
          /\ pc' = "reconnect"
          /\ UNCHANGED blocksFound
    /\ UNCHANGED <<height, synced>>

(* Another miner's block extends the node's chain.                         *)
OtherMinerBlock ==
    /\ tip < MaxHeight
    /\ tip' = tip + 1
    /\ UNCHANGED <<pc, height, blocksFound, synced, submitted, faults>>

(* The node reaches initial_sync_achieved.                                 *)
NodeSynced ==
    /\ ~synced
    /\ synced' = TRUE
    /\ UNCHANGED <<pc, height, blocksFound, tip, submitted, faults>>

Init ==
    /\ pc = "connect"
    /\ height = 0
    /\ blocksFound = 0
    /\ tip = 0
    /\ synced \in BOOLEAN
    /\ submitted = {}
    /\ faults = 0

MinerStep ==
    \/ Connect \/ Reconnect \/ Wait \/ GetTemplate \/ ValidateTemplate
    \/ GetCoinbase \/ GetNewBlock \/ SubmitBlock

Next ==
    \/ MinerStep
    \/ \E solved \in BOOLEAN, d \in Difficulties, elapsed \in BOOLEAN :
           Report(solved, d, elapsed)
    \/ GrpcFailure
    \/ OtherMinerBlock
    \/ NodeSynced

(* The miner task is polled whenever it can run; the report stream keeps  *)
(* producing reports, and validate_tip_interval keeps elapsing, so a      *)
(* report after the interval eventually comes; the node finishes syncing. *)
Spec ==
    /\ Init /\ [][Next]_vars
    /\ WF_vars(MinerStep)
    /\ \A d \in Difficulties : WF_vars(Report(FALSE, d, TRUE))
    /\ WF_vars(NodeSynced)

-----------------------------------------------------------------------------
TypeOK ==
    /\ pc \in PCs
    /\ height \in Heights
    /\ blocksFound \in Nat
    /\ tip \in Heights
    /\ synced \in BOOLEAN
    /\ submitted \subseteq Heights
    /\ faults \in 0..MaxFaults

(* With mine_on_tip_only, mine_until_height bounds what is mined: no      *)
(* block above it ever reaches the node, although the template is fetched *)
(* before validate_tip reads the tip and other miners move the tip in     *)
(* between.                                                                *)
SubmitsBelowStopHeight ==
    MineOnTipOnly /\ MineUntilHeight # NoLimit =>
        \A h \in submitted : h <= MineUntilHeight

(* With mine_on_tip_only, once the chain has reached mine_until_height    *)
(* the miner eventually returns, through reconnects, NodeNotReady waits,  *)
(* lost blocks and a report loop that checks the tip only every           *)
(* validate_tip_interval.                                                  *)
StopsAtMineUntilHeight ==
    MineOnTipOnly /\ MineUntilHeight # NoLimit =>
        (tip >= MineUntilHeight ~> pc \in {"done", "exited"})
=============================================================================
