------------------------------- MODULE Inventory -------------------------------
(***************************************************************************)
(* The inventory of an entity (src/Server/Plugins/Script/Entity/           *)
(* inventory.js and appearance.js): the constructor loads the default      *)
(* items and then goes through them, and through the slots of each, to     *)
(* find what is equipped.                                                  *)
(*                                                                         *)
(* An item is its type and the slots of its appearance, in order.          *)
(***************************************************************************)
EXTENDS Naturals, Sequences

CONSTANTS
    Slots,          \* names of slots
    DefaultSlots,   \* the slots of appearance.xml
    Types,          \* the types items have
    Inventories     \* what the inventory file may hold

Item == [type : Types, slots : Seq(Slots)]

VARIABLES
    default,        \* the items of the file
    stage,          \* "load", "find", "done", or "failed" with an exception
    i,              \* the item that is next
    j,              \* the slot of that item that is next, while equipping
    items,          \* this.items
    equipped        \* the indices of the items whose state is equipped

vars == <<default, stage, i, j, items, equipped>>

Init ==
    /\ default \in Inventories
    /\ stage = "load" /\ i = 1 /\ j = 1
    /\ items = <<>> /\ equipped = {}

\* Only apparel has a class.  An item without a type ("none") is skipped; the
\* class of another type is looked up without success, and the field of the
\* result of that throws, which ends the constructor.
Class(type) == type = "apparel"

Load ==
    /\ stage = "load" /\ i <= Len(default)
    /\ LET type == default[i].type IN
       \/ type = "none" /\ i' = i + 1 /\ UNCHANGED <<items, stage>>
       \/ Class(type) /\ items' = Append(items, default[i]) /\ i' = i + 1 /\ UNCHANGED stage
       \/ type # "none" /\ ~Class(type) /\ stage' = "failed" /\ UNCHANGED <<items, i>>
    /\ UNCHANGED <<default, j, equipped>>

Loaded ==
    /\ stage = "load" /\ i > Len(default)
    /\ stage' = "find" /\ i' = 1
    /\ UNCHANGED <<default, j, items, equipped>>

SlotNames(k) == {items[k].slots[n] : n \in DOMAIN items[k].slots}

\* equipped()[s]: only the default slots are ever in that table.
Equipped(s) == s \in DefaultSlots /\ \E k \in equipped : s \in SlotNames(k)

\* equip(): one slot of the item; the table is made anew each time.
Equip ==
    /\ stage = "find" /\ i <= Len(items) /\ j <= Len(items[i].slots)
    /\ equipped' = IF Equipped(items[i].slots[j]) THEN equipped ELSE equipped \cup {i}
    /\ j' = j + 1
    /\ UNCHANGED <<default, stage, i, items>>

NextItem ==
    /\ stage = "find" /\ i <= Len(items) /\ j > Len(items[i].slots)
    /\ i' = i + 1 /\ j' = 1
    /\ UNCHANGED <<default, stage, items, equipped>>

Found ==
    /\ stage = "find" /\ i > Len(items)
    /\ stage' = "done"
    /\ UNCHANGED <<default, i, j, items, equipped>>

Next == Load \/ Loaded \/ Equip \/ NextItem \/ Found
Spec == Init /\ [][Next]_vars

-----------------------------------------------------------------------------
\* "Conflicting items will not equip" (inventory.js:49).
ConflictsStayOff ==
    \A k, l \in equipped : k < l => SlotNames(k) \cap SlotNames(l) = {}

\* "The first item found for each slot will be equipped" (inventory.js:49).
FirstIsEquipped ==
    stage = "done" =>
        \A s \in Slots : \A k \in DOMAIN items :
            s \in SlotNames(k) /\ (\A l \in 1..(k - 1) : s \notin SlotNames(l))
                => k \in equipped

\* An item is on only if it was the first for one of its slots or has a slot
\* that is not in appearance.xml (inventory.js, equip).
EquippedFillsSlot ==
    \A k \in equipped : \E s \in SlotNames(k) :
        s \in DefaultSlots => \A l \in 1..(k - 1) : l \in equipped => s \notin SlotNames(l)
=============================================================================
