---------------------------- MODULE DiffAbstract ----------------------------
(***************************************************************************)
(* What get_resource_diffs promises its caller, as one atomic step: given  *)
(* the two document lists, it returns the classification of every key of  *)
(* either side (GetResourceDiffs) as a dict whose iteration order is one   *)
(* of ResultOrders.  This is the step Chartify's ComputeDiffs takes.       *)
(***************************************************************************)
EXTENDS DiffDefs

VARIABLES
    base_resources,     \* the base documents passed in
    overlay_resources,  \* the overlay documents passed in
    results,            \* the returned dict: key -> DiffEntry
    order,              \* its insertion order
    returned            \* the call has returned

avars == <<base_resources, overlay_resources, results, order, returned>>

Init ==
    /\ base_resources \in Docs
    /\ overlay_resources \in Docs
    /\ results = <<>>
    /\ order = <<>>
    /\ returned = FALSE

Return ==
    /\ ~returned
    /\ results' = GetResourceDiffs(base_resources, overlay_resources)
    /\ order' \in ResultOrders(base_resources, overlay_resources)
    /\ returned' = TRUE
    /\ UNCHANGED <<base_resources, overlay_resources>>

\* The call is made by a single thread that runs it to its end.
Spec == Init /\ [][Return]_avars /\ WF_avars(Return)
=============================================================================
