----------------------------- MODULE ValuesTree -----------------------------
(***************************************************************************)
(* How create_chart_structure builds values.yaml: the base values (a copy *)
(* of the --values-file mapping, or {}) and set_nested_value injecting the *)
(* condition's default at the dotted path given by --condition.            *)
(*                                                                         *)
(* A values tree is a function from keys to scalars or subtrees; a        *)
(* mapping is any value that is not one of the Scalars.  The condition is *)
(* a string of characters, split on "." as str.split does.  The loop of   *)
(* set_nested_value is one action per segment: `current` is the path from *)
(* the root to the mapping the Python variable aliases.                   *)
(***************************************************************************)
EXTENDS Integers, Sequences, SequencesExt

CONSTANTS
    Trees,        \* base values the values file can hold
    Conditions,   \* --condition strings, as sequences of characters
    Scalars,      \* non-mapping YAML values (the condition values included)
    Defaults      \* values passed for the condition's default

VARIABLES
    base,         \* history: the base values before injection
    cond,         \* the --condition string
    value,        \* default_condition
    values,       \* the dictionary being updated
    keys,         \* key_path.split('.')
    i,            \* index of the loop over keys[:-1]
    current,      \* path of the mapping `current` refers to
    pc

vars == <<base, cond, value, values, keys, i, current, pc>>

EmptyMap == <<>>
IsMap(x) == x \notin Scalars

\* str.split('.'): "" gives [""], "a..b" gives ["a", "", "b"].
SplitDot(s) ==
    FoldLeft(LAMBDA acc, c : IF c = "." THEN Append(acc, <<>>)
                             ELSE [acc EXCEPT ![Len(acc)] = Append(@, c)],
             <<<<>>>>, s)

\* dictionary[k] = x, adding k when it is new.
Put(t, k, x) == [j \in DOMAIN t \cup {k} |-> IF j = k THEN x ELSE t[j]]

RECURSIVE At(_, _)
At(t, path) == IF path = <<>> THEN t ELSE At(t[Head(path)], Tail(path))

\* Assignment through the alias: the mapping at `path` gets key k set to x.
RECURSIVE PutAt(_, _, _, _)
PutAt(t, path, k, x) ==
    IF path = <<>> THEN Put(t, k, x)
    ELSE Put(t, Head(path), PutAt(t[Head(path)], Tail(path), k, x))

\* Every leaf of a tree as <<path, value>>; an empty mapping is a leaf.
RECURSIVE Leaves(_)
Leaves(t) ==
    UNION {IF IsMap(t[k]) /\ DOMAIN t[k] # {}
             THEN {<<<<k>> \o lf[1], lf[2]>> : lf \in Leaves(t[k])}
             ELSE {<<<<k>>, t[k]>>}
           : k \in DOMAIN t}

-----------------------------------------------------------------------------
\* The values create_chart_structure passes in and the split of the path.
Init ==
    /\ base \in Trees
    /\ cond \in Conditions
    /\ value \in Defaults
    /\ values = base
    /\ keys = SplitDot(cond)
    /\ i = 1
    /\ current = <<>>
    /\ pc = "walk"

\* Mutant: every intermediate key is reset to {}, even an existing mapping.
NeedsMapAlways(node, k) == TRUE
\* `key not in current` or `not isinstance(current[key], dict)`
NeedsMap(node, k) == k \notin DOMAIN node \/ ~IsMap(node[k])

Intermediates == Len(keys) - 1   \* len(keys[:-1])

\* One iteration of `for key in keys[:-1]`: a missing key or a non-mapping
\* value becomes {}, then `current` descends into it.
Walk ==
    /\ pc = "walk"
    /\ i <= Intermediates
    /\ values' = IF NeedsMap(At(values, current), keys[i])
                   THEN PutAt(values, current, keys[i], EmptyMap)
                   ELSE values
    /\ current' = Append(current, keys[i])
    /\ i' = i + 1
    /\ UNCHANGED <<base, cond, value, keys, pc>>

\* current[keys[-1]] = value
Assign ==
    /\ pc = "walk"
    /\ i = Len(keys)
    /\ values' = PutAt(values, current, keys[i], value)
    /\ pc' = "done"
    /\ UNCHANGED <<base, cond, value, keys, i, current>>

Next == Walk \/ Assign

Spec == Init /\ [][Next]_vars

-----------------------------------------------------------------------------
Related(p, q) == IsPrefix(p, q) \/ IsPrefix(q, p)

\* set_nested_value changes exactly the leaves on the condition's path: a
\* leaf of the base values survives unless it lies above the path (a scalar
\* replaced by a mapping), on it, or below it (a subtree overwritten), and
\* the path itself then holds the default.
ReplacesOnlyPath ==
    pc = "done" =>
        Leaves(values) = {lf \in Leaves(base) : ~Related(lf[1], keys)}
                           \cup {<<keys, value>>}

\* Helm reads the default through `.Values.<condition>`, a chain of field
\* names, none of which may be empty.
HelmLookup(t, c) ==
    LET segs == SplitDot(c)
    IN IF \E j \in DOMAIN segs : segs[j] = <<>> THEN "parse error"
       ELSE At(t, segs)

\* The condition reference the templates contain evaluates, against the
\* values.yaml written, to the default that was injected.
ConditionReferenceResolves ==
    pc = "done" => HelmLookup(values, cond) = value
=============================================================================
