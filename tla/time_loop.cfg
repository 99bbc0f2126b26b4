\* four ranks, the last without cells, under each of the three solvers and under
\* linear solvers that make no iteration
SPECIFICATION Spec
CONSTANTS
    numprocs = 4
    NumSolved <- EmptyEnd
    InputFiles <- AllSolvers
    Shares = {0, 1}
    MaxSteps = 2
PROPERTIES
    GhostsAreFresh
    MarchesAsOne
    ProgramEnds
\* the program ends; that it does so on every rank is ProgramEnds
CHECK_DEADLOCK FALSE
