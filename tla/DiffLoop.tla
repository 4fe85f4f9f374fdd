------------------------------ MODULE DiffLoop ------------------------------
(***************************************************************************)
(* get_resource_diffs (src/scripts/chartify/chartify.py) one statement at *)
(* a time: the two dict comprehensions, one step per document; then the    *)
(* added, removed and common loops, one step per key.  A Python dict is    *)
(* its insertion order `keys` and its mapping `val`: assigning a key that  *)
(* is present replaces the value and keeps the position.  The set          *)
(* `resources1.keys() & resources2.keys()` iterates in an order that       *)
(* depends on the string hash, so it is any order of its elements.         *)
(***************************************************************************)
EXTENDS DiffDefs, TLC

VARIABLES
    base_resources, overlay_resources,
    resources1,   \* {get_resource_key(r): r for r in base_resources}
    resources2,   \* {get_resource_key(r): r for r in overlay_resources}
    results,
    common,       \* iteration order of resources1.keys() & resources2.keys()
    pc,           \* the statement being executed
    i             \* position in the iterable of the current loop

vars == <<base_resources, overlay_resources, resources1, resources2,
          results, common, pc, i>>

EmptyDict == [keys |-> <<>>, val |-> <<>>]

\* d[k] = v
DictSet(d, k, v) ==
    [keys |-> IF k \in DOMAIN d.val THEN d.keys ELSE Append(d.keys, k),
     val  |-> (k :> v) @@ d.val]

\* What the loop running at pc iterates over.
Iterable ==
    CASE pc = "resources1" -> base_resources
      [] pc = "resources2" -> overlay_resources
      [] pc = "added"      -> resources2.keys
      [] pc = "removed"    -> resources1.keys
      [] pc = "common"     -> common
      [] OTHER             -> <<>>

Init ==
    /\ base_resources \in Docs
    /\ overlay_resources \in Docs
    /\ resources1 = EmptyDict
    /\ resources2 = EmptyDict
    /\ results = EmptyDict
    /\ common = <<>>
    /\ pc = "resources1"
    /\ i = 1

\* One element of a dict comprehension.
GroupBase ==
    /\ pc = "resources1"
    /\ i <= Len(base_resources)
    /\ resources1' = DictSet(resources1, base_resources[i].key, base_resources[i])
    /\ i' = i + 1
    /\ UNCHANGED <<base_resources, overlay_resources, resources2, results, common, pc>>

GroupOverlay ==
    /\ pc = "resources2"
    /\ i <= Len(overlay_resources)
    /\ resources2' = DictSet(resources2, overlay_resources[i].key, overlay_resources[i])
    /\ i' = i + 1
    /\ UNCHANGED <<base_resources, overlay_resources, resources1, results, common, pc>>

\* One iteration of `for key, resource in src.items(): if key not in other:
\* results[key] = (type, ...)`.
OneSided(src, other, type) ==
    /\ i <= Len(src.keys)
    /\ LET k == src.keys[i]
       IN results' = IF k \notin DOMAIN other.val
                        THEN DictSet(results, k,
                                     IF type = "added" THEN AddedEntry(src.val[k])
                                     ELSE RemovedEntry(src.val[k]))
                        ELSE results
    /\ i' = i + 1
    /\ UNCHANGED <<base_resources, overlay_resources, resources1, resources2, common, pc>>

Added == pc = "added" /\ OneSided(resources2, resources1, "added")

\* Mutant: the removed loop tests membership in resources1, as the added
\* loop does.
RemovedWrongDict == pc = "removed" /\ OneSided(resources1, resources1, "removed")
Removed == pc = "removed" /\ OneSided(resources1, resources2, "removed")

\* for key in resources1.keys() & resources2.keys(): compare r1 != r2.
Common ==
    /\ pc = "common"
    /\ i <= Len(common)
    /\ LET k == common[i]
       IN results' = DictSet(results, k, CompareEntry(resources1.val[k], resources2.val[k]))
    /\ i' = i + 1
    /\ UNCHANGED <<base_resources, overlay_resources, resources1, resources2, common, pc>>

\* A loop other than the last ends and the next statement starts; the
\* common loop first evaluates its set expression.
NextStatement ==
    /\ pc \in {"resources1", "resources2", "added", "removed"}
    /\ i > Len(Iterable)
    /\ pc' = CASE pc = "resources1" -> "resources2"
               [] pc = "resources2" -> "added"
               [] pc = "added"      -> "removed"
               [] pc = "removed"    -> "common"
    /\ common' \in IF pc = "removed"
                     THEN SetToSeqs(DOMAIN resources1.val \cap DOMAIN resources2.val)
                     ELSE {common}
    /\ i' = 1
    /\ UNCHANGED <<base_resources, overlay_resources, resources1, resources2, results>>

\* The common loop ends: return results.
Return ==
    /\ pc = "common"
    /\ i > Len(common)
    /\ pc' = "returned"
    /\ UNCHANGED <<base_resources, overlay_resources, resources1, resources2,
                   results, common, i>>

Next == GroupBase \/ GroupOverlay \/ Added \/ Removed \/ Common
          \/ NextStatement \/ Return

\* One thread runs the function without blocking: every enabled step is
\* eventually taken.
Spec == Init /\ [][Next]_vars /\ WF_vars(Next)

-----------------------------------------------------------------------------
(* Refinement: before it returns, the caller sees nothing of `results`.   *)

Abstract == INSTANCE DiffAbstract
    WITH results  <- IF pc = "returned" THEN results.val ELSE <<>>,
         order    <- IF pc = "returned" THEN results.keys ELSE <<>>,
         returned <- pc = "returned"

\* The statement-level function returns, and returns what the atomic
\* specification ComputeDiffs uses: the same classification, in one of the
\* insertion orders ResultOrders allows (added keys in overlay order, then
\* removed keys in base order, then the common keys).
ImplementsAbstract == Abstract!Spec
=============================================================================
