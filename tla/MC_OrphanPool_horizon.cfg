CONSTANTS
    M = M
    X = X
    P = P
    C1 = C1
    C2 = C2
    D = D
    Q = Q
    Blocks <- MCBlocks
    MainChain <- MCMainChain
    Parent <- MCParent
    Height <- MCHeight
    Horizons <- MCHorizons
    Capacities <- MCCapacities
SPECIFICATION Spec

PROPERTY EvictionSparesHorizon
