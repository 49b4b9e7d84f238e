CONSTANTS
    Vars = {"s", "t"}
    Requirements = {"src", "cfg"}
    PropertyRequirements = {"src"}
    Sinks = {"append", "insert"}
    MaxObjects = 4
    MaxTurns = 2
    Projections <- MCProjections
SPECIFICATION MCSpec
INVARIANTS
    DefiniteWhenPlaced
    WitnessedWhenPlaced
    ExactWhenPlaced
