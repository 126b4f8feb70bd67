\* The five software searches compute the distances.
CONSTANTS
    vNum = 7
    data <- TwoHubs
    isUgraph = FALSE
    Vertices <- TwoHubsVertices
    Edge <- TwoHubsEdges
    Root = 0
    Variants <- AllVariants
    Thresholds <- SmallThresholds
    Alphas <- SomeAlphas
    Betas <- SomeBetas
SPECIFICATION FairSpec
INVARIANT CountsVisited
PROPERTIES FollowsLevels Terminates
\* A search ends.
CHECK_DEADLOCK FALSE
