CONSTANTS
    NoLimit = NoLimit
    MineOnTipOnly = TRUE
    MineUntilHeight <- MCMineUntilHeight
    MaxBlocks <- MCMaxBlocks
    MinDiff <- MCMinDiff
    MaxDiff = NoLimit
    Difficulties <- MCDifficulties
    MaxHeight <- MCMaxHeight
    MaxFaults <- MCMaxFaults
SPECIFICATION Spec
\* start_miner returns once it is done (or exits); the node then idles.
CHECK_DEADLOCK FALSE
INVARIANTS TypeOK SubmitsBelowStopHeight
PROPERTY StopsAtMineUntilHeight
