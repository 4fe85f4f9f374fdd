---------------------------- MODULE MCValuesTree ----------------------------
(* ValuesTree over keys "a" and "b", base trees up to two levels deep,    *)
(* and --condition strings of up to three characters over a, b and ".".  *)
EXTENDS ValuesTree

CONSTANTS Str, True   \* a string scalar, and the YAML boolean true

MCScalars == {Str, True}
MCDefaults == {True}   \* main always passes default_condition=True

KeyNames == {<<"a">>, <<"b">>}
Chars == {"a", "b", "."}
MCConditions == UNION {[1..n -> Chars] : n \in 0..3}

Level1 == UNION {[D -> MCScalars] : D \in SUBSET KeyNames}
MCTrees == UNION {[D -> MCScalars \cup Level1] : D \in SUBSET KeyNames}

\* Conditions whose every segment is a field name a template can reference.
ReferenceableConditions ==
    {c \in MCConditions : \A j \in DOMAIN SplitDot(c) : SplitDot(c)[j] # <<>>}
=============================================================================
