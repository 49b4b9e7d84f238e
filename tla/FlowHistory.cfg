CONSTANTS
    Vars = {s}
    Requirements = {"src"}
    PropertyRequirements = {"src"}
    Sinks = {"append"}
    MaxObjects = 2
    Events = {1}
    MutationLimit = 3
SPECIFICATION Spec
INVARIANTS
    RestoreIsExact
    RefsExact
