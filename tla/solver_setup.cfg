\* generate_grid and the set up of the solver on up to three ranks
SPECIFICATION Spec
CONSTANT Meshes <- SmallMeshes
INVARIANTS
    CollectivesMatch
    SendListsFit
    GhostsAreTheirOwners
    FacesMeet
    SidesHaveTheirValues
    MatrixIsTheLaplacian
PROPERTY SetupEnds
\* the set up ends; that every rank is ready when it does is SetupEnds
CHECK_DEADLOCK FALSE
