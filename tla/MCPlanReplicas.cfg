SPECIFICATION PlanningSpec
CONSTANTS
    None = None
    ExhaustiveMax = 4
    Sites <- MCSites
    Commands <- MCCommands
    Repositories <- MCRepositories
    Groupings <- MCGroupings
    Queries <- MCQueries
    Contests <- MCContests
    Sweeps <- MCSweeps
    Searches <- MCSearches
INVARIANT PossibleReplicasServed
