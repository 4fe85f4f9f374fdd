---------------------------- MODULE ResourceKey ----------------------------
(***************************************************************************)
(* get_resource_key, get_template_filename and is_crd of                  *)
(* src/scripts/chartify/chartify.py, over strings written as sequences of *)
(* one-character strings, since the properties are about how the key     *)
(* string is put together.  A state holds two manifest documents and,     *)
(* once computed, their keys: the invariants compare the two.             *)
(***************************************************************************)
EXTENDS Integers, Sequences, SequencesExt

CONSTANTS
    ApiVersions,  \* values of the apiVersion field: char sequences or Missing
    KindNames,    \* values of the kind field
    Names,        \* values of metadata.name
    Namespaces,   \* values of metadata.namespace (<<>> is the empty string)
    Missing,      \* a field the document does not have
    Upper,        \* the upper-case characters that occur
    ToLower       \* their lower-case forms: [Upper -> chars]

VARIABLES
    r1, r2,       \* the two documents
    key1, key2    \* their keys, Missing until computed

vars == <<r1, r2, key1, key2>>

Manifest ==
    [apiVersion : ApiVersions, kind : KindNames, name : Names,
     namespace : Namespaces]

\* The literals of get_resource_key and is_crd.
V1       == <<"v", "1">>
Unknown  == <<"u", "n", "k", "n", "o", "w", "n">>
Unnamed  == <<"u", "n", "n", "a", "m", "e", "d">>
Core     == <<"c", "o", "r", "e">>
CrdKind  == <<"C", "R", "D">>                           \* 'CustomResourceDefinition'
CrdGroupPrefix == <<"a", "p", "i", "x", ".", "i", "o", "/">>  \* 'apiextensions.k8s.io/'
Yaml     == <<".", "y", "a", "m", "l">>

Get(v, default) == IF v = Missing THEN default ELSE v

\* str.lower() on the characters that occur.
Lower(s) == [i \in DOMAIN s |-> IF s[i] \in Upper THEN ToLower[s[i]] ELSE s[i]]

\* str.split('/', 1): the part before the first '/' and the rest.
SlashAt(s) == SelectInSeq(s, LAMBDA c : c = "/")
\* Mutant: the version is the whole apiVersion, the split forgotten.
VersionOfUnsplit(av) == av
GroupOf(av) == IF SlashAt(av) = 0 THEN <<>> ELSE SubSeq(av, 1, SlashAt(av) - 1)
VersionOf(av) == IF SlashAt(av) = 0 THEN av ELSE SubSeq(av, SlashAt(av) + 1, Len(av))

\* "_".join(parts), as the f-strings of get_resource_key build it.
JoinUnderscore(parts) ==
    Head(parts) \o FlattenSeq([i \in 1..(Len(parts) - 1) |-> <<"_">> \o parts[i + 1]])

\* Mutant: the key leaves out the namespace even when it is set.
GetResourceKeyNoNamespace(r) ==
    LET av == Get(r.apiVersion, V1)
        group == GroupOf(av)
    IN JoinUnderscore(<<IF group = <<>> THEN Core ELSE group, VersionOf(av),
                        Lower(Get(r.kind, Unknown)), Get(r.name, Unnamed)>>)

get_resource_key(r) ==
    LET av == Get(r.apiVersion, V1)
        group == GroupOf(av)
        ns == Get(r.namespace, <<>>)
        head == <<IF group = <<>> THEN Core ELSE group, VersionOf(av),
                  Lower(Get(r.kind, Unknown))>>
    IN IF ns # <<>>
         THEN JoinUnderscore(head \o <<ns, Get(r.name, Unnamed)>>)
         ELSE JoinUnderscore(head \o <<Get(r.name, Unnamed)>>)

get_template_filename(r) == get_resource_key(r) \o Yaml

is_crd(r) ==
    /\ r.kind = CrdKind
    /\ LET av == Get(r.apiVersion, <<>>)
       IN Len(av) >= Len(CrdGroupPrefix)
            /\ SubSeq(av, 1, Len(CrdGroupPrefix)) = CrdGroupPrefix

\* The identity the spec says the key stands for: (group, version, kind,
\* namespace, name), with the defaults for a missing kind or name and an
\* empty namespace counted as none.
Identity(r) ==
    LET av == Get(r.apiVersion, V1)
    IN <<GroupOf(av), VersionOf(av), Get(r.kind, Unknown),
         Get(r.namespace, <<>>), Get(r.name, Unnamed)>>

-----------------------------------------------------------------------------
Init ==
    /\ r1 \in Manifest
    /\ r2 \in Manifest
    /\ key1 = Missing
    /\ key2 = Missing

\* The first comprehension of get_resource_diffs computing both keys.
ComputeKeys ==
    /\ key1 = Missing
    /\ key1' = get_template_filename(r1)
    /\ key2' = get_template_filename(r2)
    /\ UNCHANGED <<r1, r2>>

Next == ComputeKeys

Spec == Init /\ [][Next]_vars

-----------------------------------------------------------------------------
Computed == key1 # Missing

\* Two documents get the same template file name (and so the same slot in
\* the keyed collections of get_resource_diffs) only if they have the same
\* group, version, kind, namespace and name.
KeyInjective ==
    Computed /\ key1 = key2 => Identity(r1) = Identity(r2)

\* A template file name is one path component: write_template_file joins
\* it under the templates/ or crds/ folder, and a '/' in it names a
\* subdirectory that create_chart_structure never made.
FileNameFlat ==
    Computed => \A k \in {key1, key2} : \A n \in DOMAIN k : k[n] # "/"
=============================================================================
