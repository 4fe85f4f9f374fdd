------------------------------ MODULE DiffDefs ------------------------------
(***************************************************************************)
(* The documents chartify's get_resource_diffs takes and what it returns,  *)
(* shared by the driver model (Chartify), the atomic specification of the  *)
(* function (DiffAbstract) and its loop-level model (DiffLoop).  A         *)
(* document is abstracted to its resource key and its body; equal bodies   *)
(* stand for documents equal under Python's deep dict equality.            *)
(***************************************************************************)
EXTENDS Integers, Sequences, FiniteSets, SequencesExt

CONSTANTS
    Keys,       \* resource keys that documents can have
    Bodies,     \* resource contents, compared by deep equality only
    MaxDocs,    \* bound on the documents load_manifests returns per side
    None        \* Python's None in a diff tuple

Resource == [key : Keys, body : Bodies]

\* load_manifests returns a non-empty list of documents or raises.
Docs == UNION {[1..n -> Resource] : n \in 1..MaxDocs}

DiffTypes == {"added", "removed", "modified", "unchanged"}

\* The DiffEntry tagged union: which slots of the tuple hold a resource.
DiffEntry ==
    [type : {"added"}, base : {None}, overlay : Resource]
      \cup [type : {"removed"}, base : Resource, overlay : {None}]
      \cup [type : {"modified", "unchanged"}, base : Resource, overlay : Resource]

DocKeys(docs) == {docs[i].key : i \in DOMAIN docs}

\* {get_resource_key(r): r for r in docs}: a later document with the same
\* key overwrites the value but keeps the key's first insertion position.
ResourcesByKey(docs) ==
    [k \in DocKeys(docs) |->
        docs[SelectLastInSeq(docs, LAMBDA r : r.key = k)]]

FirstIndex(docs, k) == SelectInSeq(docs, LAMBDA r : r.key = k)

KeyOrder(docs) ==
    SetToSortSeq(DocKeys(docs),
                 LAMBDA a, b : FirstIndex(docs, a) < FirstIndex(docs, b))

\* The tuples get_resource_diffs stores, as DiffEntry records.
AddedEntry(r) == [type |-> "added", base |-> None, overlay |-> r]
\* Mutant: ('removed', None, resource), copied from the added branch.
RemovedEntrySwapped(r) == [type |-> "removed", base |-> None, overlay |-> r]
RemovedEntry(r) == [type |-> "removed", base |-> r, overlay |-> None]
CompareEntry(r1, r2) ==
    [type |-> IF r1 # r2 THEN "modified" ELSE "unchanged", base |-> r1, overlay |-> r2]

\* get_resource_diffs: the three loops, as a function on keys.
GetResourceDiffs(b, o) ==
    LET r1 == ResourcesByKey(b)
        r2 == ResourcesByKey(o)
    IN [k \in DOMAIN r1 \cup DOMAIN r2 |->
          IF k \notin DOMAIN r1 THEN AddedEntry(r2[k])
          ELSE IF k \notin DOMAIN r2 THEN RemovedEntry(r1[k])
          ELSE CompareEntry(r1[k], r2[k])]

\* Insertion order of `results`: added keys in overlay order, removed keys
\* in base order, then the keys of `resources1.keys() & resources2.keys()`
\* in set iteration order, which depends on the per-process string hash.
ResultOrders(b, o) ==
    LET k1 == DocKeys(b)
        k2 == DocKeys(o)
    IN { SelectSeq(KeyOrder(o), LAMBDA k : k \notin k1)
           \o SelectSeq(KeyOrder(b), LAMBDA k : k \notin k2)
           \o common : common \in SetToSeqs(k1 \cap k2) }
=============================================================================
