------------------------------ MODULE MCInventory ------------------------------
(* Inventory for TLC: up to three items of up to two slots. *)
EXTENDS Inventory

MCInventories ==
    LET slots == {<<>>} \cup {<<s>> : s \in Slots} \cup (Slots \X Slots)
        Items == [type : Types, slots : slots]
    IN  {<<>>} \cup {<<a>> : a \in Items} \cup (Items \X Items) \cup (Items \X Items \X Items)
=============================================================================
