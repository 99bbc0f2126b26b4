\* the explicit, the Jacobi and the BiCGSTAB solver, with cells and without
SPECIFICATION Spec
CONSTANTS
    SolverOptions <- EverySolver
    num_iter = 2
    MaxSteps = 3
INVARIANTS
    DeviceReadsAreCurrent
    PointersAreOwned
    NormCountsNoGhosts
    LifetimesMatch
\* the program ends
CHECK_DEADLOCK FALSE
