SPECIFICATION Spec
CONSTANTS
    FunctionOrder <- MCFunctionOrder
    Modules = {"A", "B", "C"}
    Requirements = {"src", "go"}
    PropertyRequirements = {"src"}
    Sinks = {"k1", "k2"}
    MaxSummarySinks = 2
    Programs <- MCPrograms
    Policies <- MCPolicies
    Limits <- MCLimits
    SourceCallee = "source"
    MaxContexts = 14
    MaxPending = 3
    MaxHops = 4
INVARIANTS SummariesExact WitnessHasRoute CompleteRunFindsRoutes DefiniteOnEveryRoute
CHECK_DEADLOCK FALSE
