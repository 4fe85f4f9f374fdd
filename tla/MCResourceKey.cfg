CONSTANTS
    ApiVersions <- ValidApiVersions
    KindNames <- ValidKinds
    Names <- ValidNames
    Namespaces <- ValidNamespaces
    Missing = Missing
    Upper <- MCUpper
    ToLower <- MCToLower
SPECIFICATION Spec
\* Both keys are computed in one step; nothing follows.
CHECK_DEADLOCK FALSE
INVARIANTS
    KeyInjective
    FileNameFlat
