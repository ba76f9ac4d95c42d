---------------------------- MODULE InventoryProofs ----------------------------
(***************************************************************************)
(* Theorems about Inventory, for any slots and any file: the half of the   *)
(* promise at inventory.js:49 that the code keeps, and what it does in     *)
(* place of the other half.                                                *)
(***************************************************************************)
EXTENDS Inventory, TLAPS, SequenceTheorems

TypeInv ==
    /\ default \in Seq(Item)
    /\ stage \in {"load", "find", "done", "failed"}
    /\ i \in Nat \ {0} /\ j \in Nat \ {0}
    /\ items \in Seq(Item)
    /\ equipped \subseteq 1..Len(items)

\* Nothing is equipped while the items are loaded, and nothing out of its turn.
TurnInv ==
    /\ stage \in {"load", "failed"} => equipped = {} /\ j = 1
    /\ \A k \in equipped : k <= i
    /\ stage = "done" => i > Len(items)

\* Item k is the first with slot s.
FirstWith(k, s) ==
    /\ s \in SlotNames(k)
    /\ \A l \in 1..(k - 1) : s \notin SlotNames(l)

\* The slots that have been gone through.
Past(k, s) ==
    \/ k < i
    \/ /\ k = i
       /\ \E n \in DOMAIN items[k].slots : n < j /\ items[k].slots[n] = s

FirstInv ==
    stage \in {"find", "done"} =>
        \A k \in DOMAIN items, s \in Slots :
            FirstWith(k, s) /\ Past(k, s) => k \in equipped

LEMMA TypeStep ==
    ASSUME TypeInv, TurnInv, [Next]_vars
    PROVE  TypeInv' /\ TurnInv'
<1> USE DEF TypeInv, TurnInv
<1>1. CASE Load
  <2>1. CASE default[i].type = "none" /\ i' = i + 1 /\ UNCHANGED <<items, stage>>
    BY <1>1, <2>1 DEF Load
  <2>2. CASE Class(default[i].type) /\ items' = Append(items, default[i]) /\ i' = i + 1 /\ UNCHANGED stage
    <3>1. default[i] \in Item
      BY <1>1 DEF Load
    <3>2. items' \in Seq(Item) /\ Len(items') = Len(items) + 1
      BY <2>2, <3>1
    <3> QED
      BY <1>1, <2>2, <3>2 DEF Load
  <2>3. CASE default[i].type # "none" /\ ~Class(default[i].type) /\ stage' = "failed" /\ UNCHANGED <<items, i>>
    BY <1>1, <2>3 DEF Load
  <2> QED
    BY <1>1, <2>1, <2>2, <2>3 DEF Load
<1>2. CASE Loaded
  BY <1>2 DEF Loaded
<1>3. CASE Equip
  BY <1>3 DEF Equip
<1>4. CASE NextItem
  BY <1>4 DEF NextItem
<1>5. CASE Found
  BY <1>5 DEF Found
<1>6. CASE UNCHANGED vars
  BY <1>6 DEF vars
<1> QED
  BY <1>1, <1>2, <1>3, <1>4, <1>5, <1>6 DEF Next

LEMMA Shape ==
    ASSUME TypeInv
    PROVE  /\ DOMAIN items = 1..Len(items) /\ Len(items) \in Nat
           /\ i \in Nat /\ i > 0 /\ j \in Nat /\ j > 0
           /\ \A k \in DOMAIN items :
                 /\ DOMAIN items[k].slots = 1..Len(items[k].slots)
                 /\ Len(items[k].slots) \in Nat
                 /\ \A n \in DOMAIN items[k].slots : items[k].slots[n] \in Slots
<1>1. \A k \in DOMAIN items : items[k] \in Item
  BY DEF TypeInv
<1>2. \A k \in DOMAIN items : items[k].slots \in Seq(Slots)
  BY <1>1 DEF Item
<1> QED
  BY <1>2 DEF TypeInv

LEMMA FirstStep ==
    ASSUME TypeInv, TurnInv, FirstInv, [Next]_vars
    PROVE  FirstInv'
<1>0. /\ DOMAIN items = 1..Len(items) /\ Len(items) \in Nat
      /\ i \in Nat /\ i > 0 /\ j \in Nat /\ j > 0
      /\ \A k \in DOMAIN items :
            /\ DOMAIN items[k].slots = 1..Len(items[k].slots)
            /\ Len(items[k].slots) \in Nat
  BY Shape
<1>1. CASE Load
  BY <1>1 DEF Load, FirstInv
<1>2. CASE Loaded
  <2>1. i' = 1 /\ j' = j /\ items' = items
    BY <1>2 DEF Loaded
  <2>2. j = 1
    BY <1>2 DEF Loaded, TurnInv
  <2>3. \A k \in DOMAIN items, s \in Slots : ~Past(k, s)'
    BY <1>0, <2>1, <2>2 DEF Past
  <2> QED
    BY <2>1, <2>3 DEF FirstInv
<1>3. CASE Equip
  <2> DEFINE slot == items[i].slots[j]
  <2>0. items' = items /\ i' = i /\ j' = j + 1 /\ stage = "find" /\ stage' = "find"
        /\ i \in DOMAIN items /\ j \in DOMAIN items[i].slots /\ equipped \subseteq equipped'
    BY <1>0, <1>3 DEF Equip
  <2> SUFFICES ASSUME NEW k \in DOMAIN items, NEW s \in Slots,
                      FirstWith(k, s)', Past(k, s)'
               PROVE  k \in equipped'
    BY <2>0 DEF FirstInv
  <2>1. FirstWith(k, s)
    BY <2>0 DEF FirstWith, SlotNames
  <2>2. CASE Past(k, s)
    BY <2>0, <2>1, <2>2 DEF FirstInv
  <2>3. CASE ~Past(k, s)
    <3>1. k = i
      BY <1>0, <2>0, <2>3 DEF Past
    <3>2. PICK n \in DOMAIN items[i].slots : n < j + 1 /\ items[i].slots[n] = s
      BY <1>0, <2>0, <3>1 DEF Past
    <3>3. n = j
      BY <1>0, <2>0, <2>3, <3>1, <3>2 DEF Past
    <3>4. s = slot
      BY <3>2, <3>3
    <3>5. CASE Equipped(slot)
      <4>1. PICK l \in equipped : s \in SlotNames(l)
        BY <3>4, <3>5 DEF Equipped
      <4>2. l \in Nat /\ l > 0 /\ l <= i
        BY <1>0 DEF TurnInv, TypeInv
      <4>3. l = i
        BY <1>0, <2>1, <3>1, <4>1, <4>2 DEF FirstWith
      <4> QED
        BY <2>0, <3>1, <4>1, <4>3
    <3>6. CASE ~Equipped(slot)
      BY <1>3, <3>1, <3>6 DEF Equip
    <3> QED
      BY <3>5, <3>6
  <2> QED
    BY <2>2, <2>3
<1>4. CASE NextItem
  <2>0. items' = items /\ i' = i + 1 /\ j' = 1 /\ stage = "find" /\ stage' = "find"
        /\ i \in DOMAIN items /\ j > Len(items[i].slots) /\ equipped' = equipped
    BY <1>0, <1>4 DEF NextItem
  <2> SUFFICES ASSUME NEW k \in DOMAIN items, NEW s \in Slots,
                      FirstWith(k, s)', Past(k, s)'
               PROVE  k \in equipped'
    BY <2>0 DEF FirstInv
  <2>1. FirstWith(k, s)
    BY <2>0 DEF FirstWith, SlotNames
  <2>2. k <= i
    BY <1>0, <2>0 DEF Past
  <2>3. Past(k, s)
    <3>1. CASE k = i
      <4>1. PICK n \in DOMAIN items[i].slots : items[i].slots[n] = s
        BY <2>1, <3>1 DEF FirstWith, SlotNames
      <4>2. n < j
        BY <1>0, <2>0
      <4> QED
        BY <3>1, <4>1, <4>2 DEF Past
    <3>2. CASE k # i
      BY <1>0, <2>2, <3>2 DEF Past
    <3> QED
      BY <3>1, <3>2
  <2> QED
    BY <2>0, <2>1, <2>3 DEF FirstInv
<1>5. CASE Found
  BY <1>5 DEF Found, FirstInv, FirstWith, Past, SlotNames
<1>6. CASE UNCHANGED vars
  BY <1>6 DEF vars, FirstInv, FirstWith, Past, SlotNames
<1> QED
  BY <1>1, <1>2, <1>3, <1>4, <1>5, <1>6 DEF Next

LEMMA Start ==
    ASSUME Inventories \subseteq Seq(Item), Init
    PROVE  TypeInv /\ TurnInv /\ FirstInv /\ EquippedFillsSlot
BY DEF Init, TypeInv, TurnInv, FirstInv, EquippedFillsSlot

\* The first item found for a slot is equipped, whatever else the file holds
\* (inventory.js:48-58).
THEOREM FirstIsEquippedCorrect ==
    ASSUME Inventories \subseteq Seq(Item)
    PROVE  Spec => []FirstIsEquipped
<1> DEFINE Inv == TypeInv /\ TurnInv /\ FirstInv
<1>1. Init => Inv
  BY Start
<1>2. Inv /\ [Next]_vars => Inv'
  BY TypeStep, FirstStep
<1>3. Inv => FirstIsEquipped
  <2> SUFFICES ASSUME Inv, stage = "done", NEW s \in Slots, NEW k \in DOMAIN items,
                      s \in SlotNames(k), \A l \in 1..(k - 1) : s \notin SlotNames(l)
               PROVE  k \in equipped
    BY DEF FirstIsEquipped
  <2>1. k < i
    BY DEF TypeInv, TurnInv
  <2> QED
    BY <2>1 DEF FirstInv, FirstWith, Past
<1> QED
  BY <1>1, <1>2, <1>3, PTL DEF Spec

LEMMA FillsStep ==
    ASSUME TypeInv, TurnInv, EquippedFillsSlot, [Next]_vars
    PROVE  EquippedFillsSlot'
<1>1. CASE Load
  <2>1. equipped' = {}
    BY <1>1 DEF Load, TurnInv
  <2> QED
    BY <2>1 DEF EquippedFillsSlot
<1>2. CASE Equip
  <2> DEFINE slot == items[i].slots[j]
  <2>0. items' = items /\ i \in DOMAIN items /\ j \in DOMAIN items[i].slots
    BY <1>2 DEF Equip, TypeInv, Item
  <2>1. CASE Equipped(slot)
    <3>1. equipped' = equipped
      BY <1>2, <2>1 DEF Equip
    <3> QED
      BY <2>0, <3>1 DEF EquippedFillsSlot, SlotNames
  <2>2. CASE ~Equipped(slot)
    <3>1. equipped' = equipped \cup {i}
      BY <1>2, <2>2 DEF Equip
    <3> SUFFICES ASSUME NEW k \in equipped \cup {i}
                 PROVE  \E s \in SlotNames(k) : s \in DefaultSlots =>
                           \A l \in 1..(k - 1) : l \in equipped \cup {i} => s \notin SlotNames(l)
      BY <2>0, <3>1 DEF EquippedFillsSlot, SlotNames
    <3>2. k \in Nat /\ i \in Nat /\ k <= i
      BY DEF TypeInv, TurnInv
    <3>3. CASE k \in equipped
      <4>1. PICK s \in SlotNames(k) : s \in DefaultSlots =>
                \A l \in 1..(k - 1) : l \in equipped => s \notin SlotNames(l)
        BY <3>3 DEF EquippedFillsSlot
      <4>2. i \notin 1..(k - 1)
        BY <3>2
      <4> QED
        BY <4>1, <4>2
    <3>4. CASE k = i
      <4>1. slot \in SlotNames(i)
        BY <2>0 DEF SlotNames
      <4>2. slot \in DefaultSlots => \A l \in equipped : slot \notin SlotNames(l)
        BY <2>2 DEF Equipped
      <4>3. i \notin 1..(k - 1)
        BY <3>2, <3>4
      <4> QED
        BY <3>4, <4>1, <4>2, <4>3
    <3> QED
      BY <3>3, <3>4
  <2> QED
    BY <2>1, <2>2
<1>3. CASE UNCHANGED <<items, equipped>>
  BY <1>3 DEF EquippedFillsSlot, SlotNames
<1> QED
  BY <1>1, <1>2, <1>3 DEF Next, Loaded, NextItem, Found, vars

\* An item that is on has filled a slot no item before it had filled, or has a
\* slot that appearance.xml does not list (inventory.js:36-46): all that is
\* left of "conflicting items will not equip".
THEOREM EquippedFillsSlotCorrect ==
    ASSUME Inventories \subseteq Seq(Item)
    PROVE  Spec => []EquippedFillsSlot
<1> DEFINE Inv == TypeInv /\ TurnInv /\ EquippedFillsSlot
<1>1. Init => Inv
  BY Start
<1>2. Inv /\ [Next]_vars => Inv'
  BY TypeStep, FillsStep
<1> QED
  BY <1>1, <1>2, PTL DEF Spec
-----------------------------------------------------------------------------
(***************************************************************************)
(* When conflicting items do stay off: when of two items in the file that  *)
(* share a slot the later has no slot besides those of the earlier.  Files *)
(* whose items have one slot each, as inventory.json's have, are of this   *)
(* kind.                                                                   *)
(***************************************************************************)
Names(item) == {item.slots[n] : n \in DOMAIN item.slots}

Covers(a, b) == Names(a) \cap Names(b) # {} => Names(b) \subseteq Names(a)

Nested(file) ==
    /\ \A n \in DOMAIN file : Names(file[n]) \subseteq DefaultSlots
    /\ \A m, n \in DOMAIN file : m < n => Covers(file[m], file[n])

\* What has been loaded is nested, and so is what is yet to be loaded with it.
NestedInv ==
    /\ Nested(default) /\ Nested(items)
    /\ stage = "load" => \A k \in DOMAIN items, n \in DOMAIN default :
                            n >= i => Covers(items[k], default[n])

LEMMA AppendItem ==
    ASSUME NEW s \in Seq(Item), NEW x \in Item
    PROVE  /\ DOMAIN Append(s, x) = DOMAIN s \cup {Len(s) + 1}
           /\ \A k \in DOMAIN s : k <= Len(s) /\ k \in Nat /\ Append(s, x)[k] = s[k]
           /\ Append(s, x)[Len(s) + 1] = x
           /\ Len(s) \in Nat
OBVIOUS

LEMMA NestedStep ==
    ASSUME TypeInv, NestedInv, [Next]_vars
    PROVE  NestedInv'
<1>1. CASE Load
  <2>1. CASE Class(default[i].type) /\ items' = Append(items, default[i]) /\ i' = i + 1 /\ UNCHANGED stage
    <3> DEFINE item == default[i]
               last == Len(items) + 1
    <3>1. i \in DOMAIN default /\ default' = default /\ stage = "load" /\ stage' = "load"
      BY <1>1, <2>1 DEF Load, TypeInv
    <3>2. item \in Item /\ items \in Seq(Item) /\ i \in Nat
          /\ \A n \in DOMAIN default : n \in Nat
      BY <3>1 DEF TypeInv
    <3>3. /\ DOMAIN items' = DOMAIN items \cup {last} /\ last \in Nat
          /\ \A k \in DOMAIN items : k < last /\ k \in Nat /\ items'[k] = items[k]
          /\ items'[last] = item
      BY <2>1, <3>2, AppendItem
    <3> HIDE DEF item, last
    <3>4. Names(item) \subseteq DefaultSlots
      BY <3>1 DEF NestedInv, Nested, item
    <3>5. \A k \in DOMAIN items : Covers(items[k], item)
      BY <3>1, <3>2 DEF NestedInv, item
    <3>6. \A n \in DOMAIN default : n >= i + 1 => Covers(item, default[n])
      BY <3>1, <3>2 DEF NestedInv, Nested, item
    <3>7. \A k \in DOMAIN items' : Names(items'[k]) \subseteq DefaultSlots
      BY <3>3, <3>4 DEF NestedInv, Nested
    <3>8. ASSUME NEW k \in DOMAIN items', NEW l \in DOMAIN items', k < l
          PROVE  Covers(items'[k], items'[l])
      <4>1. k \in DOMAIN items
        BY <3>3, <3>8
      <4>2. CASE l = last
        BY <3>3, <3>5, <4>1, <4>2
      <4>3. CASE l \in DOMAIN items
        BY <3>3, <3>8, <4>1, <4>3 DEF NestedInv, Nested
      <4> QED
        BY <3>3, <4>2, <4>3
    <3>9. \A k \in DOMAIN items', n \in DOMAIN default : n >= i' => Covers(items'[k], default[n])
      <4> TAKE k \in DOMAIN items', n \in DOMAIN default
      <4> HAVE n >= i'
      <4>1. n >= i + 1 /\ n >= i
        BY <2>1, <3>2
      <4>2. CASE k = last
        BY <3>3, <3>6, <4>1, <4>2
      <4>3. CASE k \in DOMAIN items
        BY <3>1, <3>3, <4>1, <4>3 DEF NestedInv
      <4> QED
        BY <3>3, <4>2, <4>3
    <3> QED
      BY <3>1, <3>7, <3>8, <3>9 DEF NestedInv, Nested
  <2>2. CASE UNCHANGED items
    <3>1. i' \in {i, i + 1} /\ default' = default /\ (stage' = "load" => stage = "load")
      BY <1>1, <2>2 DEF Load
    <3>2. \A n \in DOMAIN default : n \in Nat /\ i \in Nat /\ (n >= i' => n >= i)
      BY <3>1 DEF TypeInv
    <3> QED
      BY <2>2, <3>1, <3>2 DEF NestedInv, Nested
  <2> QED
    BY <1>1, <2>1, <2>2 DEF Load
<1>2. CASE UNCHANGED <<default, items>> /\ stage' # "load"
  BY <1>2 DEF NestedInv, Nested
<1>3. CASE UNCHANGED vars
  BY <1>3 DEF vars, NestedInv, Nested
<1> QED
  BY <1>1, <1>2, <1>3 DEF Next, Loaded, Equip, NextItem, Found

LEMMA OffStep ==
    ASSUME TypeInv, TurnInv, NestedInv, ConflictsStayOff, [Next]_vars
    PROVE  ConflictsStayOff'
<1>1. CASE Load
  <2>1. equipped' = {}
    BY <1>1 DEF Load, TurnInv
  <2> QED
    BY <2>1 DEF ConflictsStayOff
<1>2. CASE Equip
  <2> DEFINE slot == items[i].slots[j]
  <2>0. /\ items' = items /\ i \in DOMAIN items /\ j \in DOMAIN items[i].slots /\ i \in Nat
        /\ \A k \in equipped : k \in DOMAIN items /\ k \in Nat /\ k <= i
    BY <1>2, Shape DEF Equip, TypeInv, TurnInv
  <2>1. CASE Equipped(slot)
    <3>1. equipped' = equipped
      BY <1>2, <2>1 DEF Equip
    <3> QED
      BY <2>0, <3>1 DEF ConflictsStayOff, SlotNames
  <2>2. CASE ~Equipped(slot)
    <3>1. equipped' = equipped \cup {i}
      BY <1>2, <2>2 DEF Equip
    <3>2. slot \in Names(items[i])
      BY <2>0 DEF Names
    <3>3. \A k \in equipped : slot \notin Names(items[k])
      BY <2>0, <2>2, <3>2 DEF Equipped, NestedInv, Nested, SlotNames, Names
    <3>4. \A k \in equipped : k < i => Names(items[k]) \cap Names(items[i]) = {}
      BY <2>0, <3>2, <3>3 DEF NestedInv, Nested, Covers
    <3>5. ASSUME NEW k \in equipped', NEW l \in equipped', k < l
          PROVE  Names(items[k]) \cap Names(items[l]) = {}
      <4>1. k \in equipped
        BY <2>0, <3>1, <3>5
      <4>2. CASE l = i
        BY <3>4, <3>5, <4>1, <4>2
      <4>3. CASE l \in equipped
        BY <3>5, <4>1, <4>3 DEF ConflictsStayOff, SlotNames, Names
      <4> QED
        BY <3>1, <4>2, <4>3
    <3> QED
      BY <2>0, <3>5 DEF ConflictsStayOff, SlotNames, Names
  <2> QED
    BY <2>1, <2>2
<1>3. CASE UNCHANGED <<items, equipped>>
  BY <1>3 DEF ConflictsStayOff, SlotNames
<1> QED
  BY <1>1, <1>2, <1>3 DEF Next, Loaded, NextItem, Found, vars

\* Conflicting items will not equip (inventory.js:49), from a file whose items
\* are nested; without that they may (run inventory).
THEOREM NestedConflictsStayOff ==
    ASSUME Inventories \subseteq Seq(Item), \A file \in Inventories : Nested(file)
    PROVE  Spec => []ConflictsStayOff
<1> DEFINE Inv == TypeInv /\ TurnInv /\ NestedInv /\ ConflictsStayOff
<1>1. ASSUME Init PROVE Inv
  <2>1. Nested(default) /\ equipped = {} /\ items = <<>>
    BY <1>1 DEF Init
  <2>2. Nested(<<>>)
    BY DEF Nested
  <2> QED
    BY <1>1, <2>1, <2>2, Start DEF NestedInv, ConflictsStayOff
<1>2. Inv /\ [Next]_vars => Inv'
  BY TypeStep, NestedStep, OffStep
<1> QED
  BY <1>1, <1>2, PTL DEF Spec
=============================================================================
