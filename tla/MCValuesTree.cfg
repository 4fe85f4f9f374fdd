CONSTANTS
    Str = Str
    True = True
    Scalars <- MCScalars
    Defaults <- MCDefaults
    Trees <- MCTrees
    Conditions <- MCConditions
SPECIFICATION Spec
CHECK_DEADLOCK FALSE
INVARIANT ReplacesOnlyPath
