----------------------------- MODULE OutputTabs -----------------------------
(***************************************************************************)
(* The tab list of gui/web/output-tabs.js, which the input page and the    *)
(* output window each keep one of: results in the order they were added,   *)
(* and the one that is selected.  The operations return the list after the *)
(* call; select() and close() of an unknown result change nothing.         *)
(***************************************************************************)
EXTENDS Integers, SequencesExt

None == 0   \* no result: activeRevision is null

NoTabs == [order |-> <<>>, active |-> None]

InTabs(tabs) == {tabs.order[i] : i \in 1..Len(tabs.order)}

Add(tabs, r) ==
    IF r \in InTabs(tabs) THEN tabs
    ELSE [order |-> Append(tabs.order, r),
          active |-> IF tabs.active = None THEN r ELSE tabs.active]

SelectTab(tabs, r) ==
    IF r \in InTabs(tabs) THEN [tabs EXCEPT !.active = r] ELSE tabs

\* Where a tab is in the list.
Place(order, r) == CHOOSE i \in 1..Len(order) : order[i] = r

\* The tab that takes over from a closed active one: its right neighbour,
\* else its left one.
Neighbour(order, r) ==
    LET i == Place(order, r)
    IN  CASE i < Len(order) -> order[i + 1]
          [] i = Len(order) /\ i > 1 -> order[i - 1]
          [] OTHER -> None

Close(tabs, r) ==
    IF r \notin InTabs(tabs) THEN tabs
    ELSE [order |-> RemoveAt(tabs.order, Place(tabs.order, r)),
          active |-> IF tabs.active = r THEN Neighbour(tabs.order, r) ELSE tabs.active]
=============================================================================
