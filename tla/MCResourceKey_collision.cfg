CONSTANTS
    ApiVersions <- AnyApiVersions
    KindNames <- AnyKinds
    Names <- AnyNames
    Namespaces <- AnyNamespaces
    Missing = Missing
    Upper <- MCUpper
    ToLower <- MCToLower
SPECIFICATION Spec
\* Both keys are computed in one step; nothing follows.
CHECK_DEADLOCK FALSE
INVARIANT
    KeyInjective
