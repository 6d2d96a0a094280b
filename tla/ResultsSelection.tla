--------------------------- MODULE ResultsSelection ---------------------------
(* Which item of the results is looked at for a component (hash.c,           *)
(* getResultFromResultsForComponentIndex).  An item has a header, counts the *)
(* nodes it matched, and holds for each component a profile and whether that *)
(* was asked for rather than detected.                                       *)
EXTENDS Integers

Least(indexes) == CHOOSE i \in indexes : \A j \in indexes : i <= j

OverriddenItems(items, count, c) == {i \in 1 .. count : items[i].overridden[c]}

ItemsWithProfile(items, count, null, c) ==
    {i \in 1 .. count : items[i].profiles[c] # null}

(* The index of the item, or 0 for NULL: an overridden profile first, then   *)
(* the first profile there is; an only result that belongs to no header is   *)
(* taken as it is.                                                           *)
SelectedItem(items, count, null, allowUnmatched, c) ==
    IF OverriddenItems(items, count, c) # {}
    THEN Least(OverriddenItems(items, count, c))
    ELSE IF count = 1 /\ items[1].header = -1 THEN 1
    ELSE IF ItemsWithProfile(items, count, null, c) # {}
    THEN Least(ItemsWithProfile(items, count, null, c))
    ELSE IF allowUnmatched /\ count > 0 THEN 1
    ELSE 0

(* getResultForPropertyIndex: an only result is taken whatever it holds.     *)
ItemForProperty(items, count, null, allowUnmatched, c) ==
    IF count = 1 THEN 1 ELSE SelectedItem(items, count, null, allowUnmatched, c)
=============================================================================
