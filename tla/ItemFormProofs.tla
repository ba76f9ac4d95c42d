----------------------------- MODULE ItemFormProofs -----------------------------
(***************************************************************************)
(* Theorems about ItemForm, for any names, types, properties and parts,    *)
(* and any number of requests and failures.                                *)
(***************************************************************************)
EXTENDS ItemForm, TLAPS, WellFoundedInduction, SequenceTheorems, FiniteSetTheorems

-----------------------------------------------------------------------------
(***************************************************************************)
(* The selection.                                                          *)
(***************************************************************************)
LEMMA MaxExists ==
    ASSUME NEW n \in Nat, NEW S, S \subseteq 1..n, S # {}
    PROVE  Max(S) \in S
<1> DEFINE T == {t \in Nat : \E x \in S : t = n - x}
<1>1. T \subseteq Nat
  OBVIOUS
<1>2. \A z \in S : z \in 1..n /\ n - z \in T
  OBVIOUS
<1>3. T # {}
  BY <1>2
<1>4. \E t \in T : \A y \in T : ~(<<y, t>> \in OpToRel(<, Nat))
  BY <1>1, <1>3, NatLessThanWellFounded, WFMin, Zenon
<1>5. PICK t \in T : \A y \in T : ~(y < t)
  BY <1>1, <1>4 DEF OpToRel
<1>6. PICK x \in S : t = n - x
  BY <1>5
<1>7. \A z \in S : x >= z
  BY <1>2, <1>5, <1>6
<1> HIDE DEF T
<1>8. \E x_1 \in S : \A z \in S : x_1 >= z
  BY <1>7
<1> QED
  BY <1>8 DEF Max

LEMMA ConstantFacts ==
    /\ MaxTypes \in Nat /\ MaxFailures \in Nat
    /\ Colors \subseteq Triples /\ Parts \in Seq(Seq(Triples))
BY ItemAssumption, AppearanceAssumption

Named(n, k) == \E i \in 1..k : itemTypes[i].name = n

LEMMA SelectionOf ==
    ASSUME itemTypes \in Seq(ItemType), NEW k \in 0..Len(itemTypes), NEW n, Named(n, k)
    PROVE  \E i \in 1..k : itemTypes[i].name = n /\ Selection(n, k) = itemTypes[i]
<1> DEFINE s == SubSeq(itemTypes, 1, k)
           I == {i \in 1..Len(s) : s[i].name = n}
<1>1. Len(s) = k /\ \A i \in 1..k : s[i] = itemTypes[i]
  OBVIOUS
<1>2. I # {} /\ I \subseteq 1..k
  BY <1>1 DEF Named
<1>3. Max(I) \in I
  <2>1. k \in Nat
    OBVIOUS
  <2> HIDE DEF I
  <2> QED
    BY <1>2, <2>1, MaxExists
<1>4. Selection(n, k) = itemTypes[Max(I)]
  BY <1>2 DEF Selection, SelectLastInSeq
<1> QED
  BY <1>1, <1>2, <1>3, <1>4

LEMMA SelectionGrows ==
    ASSUME itemTypes \in Seq(ItemType), NEW t \in ItemType, itemTypes' = Append(itemTypes, t),
           NEW k \in 0..Len(itemTypes), NEW n, Named(n, k), select' = n, listed' = k
    PROVE  SelectionKeys(select, listed)' = SelectionKeys(n, k)
<1> DEFINE I(m, s) == {i \in 1..Len(s) : s[i].name = m}
           J == I(n, SubSeq(itemTypes, 1, k))
<1>1. SubSeq(itemTypes, 1, listed)' = SubSeq(itemTypes, 1, k)
  OBVIOUS
<1>2. J # {} /\ J \subseteq 1..k /\ k \in Nat
  <2>1. Len(SubSeq(itemTypes, 1, k)) = k /\ \A i \in 1..k : SubSeq(itemTypes, 1, k)[i] = itemTypes[i]
    OBVIOUS
  <2> QED
    BY <2>1, SMTT(30) DEF Named
<1>3. Max(J) \in 1..k
  <2> HIDE DEF J
  <2> QED
    BY <1>2, MaxExists
<1>4. Selection(n, k) = itemTypes[Max(J)]
  BY <1>2 DEF Selection, SelectLastInSeq
<1>5. I(n, SubSeq(itemTypes, 1, listed)') = J
  <2>1. SubSeq(itemTypes, 1, listed)' = SubSeq(itemTypes, 1, k)
    BY <1>1
  <2> QED
    BY <2>1, Zenon
<1>6. Selection(select, listed)' = itemTypes'[Max(J)]
  BY <1>1, <1>2, <1>5 DEF Selection, SelectLastInSeq
<1>7. \A i \in 1..k : itemTypes'[i] = itemTypes[i]
  OBVIOUS
<1> HIDE DEF J
<1>8. Selection(select, listed)' = Selection(n, k)
  BY <1>3, <1>4, <1>6, <1>7
<1> QED
  BY <1>8 DEF SelectionKeys

LEMMA KeysOf ==
    ASSUME itemTypes \in Seq(ItemType), NEW k \in 0..Len(itemTypes), NEW n,
           n = NoName \/ Named(n, k)
    PROVE  SelectionKeys(n, k) \subseteq Keys
<1>1. CASE n = NoName
  BY <1>1 DEF SelectionKeys
<1>2. CASE n # NoName
  <2>1. PICK i \in 1..k : Selection(n, k) = itemTypes[i]
    BY <1>2, SelectionOf
  <2>2. itemTypes[i] \in ItemType
    OBVIOUS
  <2> QED
    BY <1>2, <2>1, <2>2 DEF SelectionKeys, ItemType
<1> QED
  BY <1>1, <1>2

LEMMA SameKeys ==
    ASSUME NEW n, NEW k, itemTypes' = itemTypes, select' = n, listed' = k
    PROVE  SelectionKeys(select, listed)' = SelectionKeys(n, k)
<1> DEFINE I(m, s) == {i \in 1..Len(s) : s[i].name = m}
<1>1. SubSeq(itemTypes, 1, listed)' = SubSeq(itemTypes, 1, k)
  OBVIOUS
<1>2. I(select', SubSeq(itemTypes, 1, listed)') = I(n, SubSeq(itemTypes, 1, k))
  BY <1>1
<1> QED
  BY <1>1, <1>2 DEF SelectionKeys, Selection, SelectLastInSeq

-----------------------------------------------------------------------------
(***************************************************************************)
(* Types.  An answer lists no more types than there are by now, and there  *)
(* is room for the type that is on its way.                                *)
(***************************************************************************)
AnswersOld == \A k \in 1..MaxTypes : answers[k] > 0 => k <= Len(itemTypes)
Room == creating # None /\ creating.stage = "sent" => Len(itemTypes) < MaxTypes

\* The items menu shows the inputs of the type it names, or names none.
MenuInv ==
    menu = "items" =>
        /\ inputs = SelectionKeys(select, listed)
        /\ select = NoName \/ Named(select, listed)

TypeInv == TypeOK /\ AnswersOld /\ Room

LEMMA Updated ==
    ASSUME TypeOK, NEW k \in 0..Len(itemTypes), Update(k), itemTypes' = itemTypes
    PROVE  /\ menu' = "items" /\ shown' = {}
           /\ select' \in Names \cup {NoName} /\ inputs' \subseteq Keys
           /\ listed' = k => MenuInv'
<1>1. itemTypes \in Seq(ItemType)
  BY DEF TypeOK
<1>2. /\ First(k) = NoName \/ Named(First(k), k)
      /\ First(k) \in Names \cup {NoName}
  <2>1. CASE k = 0
    BY <2>1 DEF First
  <2>2. CASE k # 0
    <3>1. itemTypes[1] \in ItemType /\ 1 \in 1..k
      BY <1>1, <2>2
    <3> QED
      BY <2>2, <3>1 DEF First, Named, ItemType
  <2> QED
    BY <2>1, <2>2
<1>3. inputs' = SelectionKeys(First(k), k) /\ select' = First(k) /\ menu' = "items" /\ shown' = {}
  BY DEF Update, UpdateInputs
<1>4. inputs' \subseteq Keys
  BY <1>1, <1>2, <1>3, KeysOf
<1>5. ASSUME listed' = k PROVE MenuInv'
  <2>1. SelectionKeys(select, listed)' = SelectionKeys(First(k), k)
    BY <1>3, <1>5, SameKeys
  <2>2. Named(First(k), k) => Named(select, listed)'
    BY <1>3, <1>5 DEF Named
  <2>3. inputs' = SelectionKeys(select, listed)'
    BY <1>3, <2>1
  <2>4. select' = NoName \/ Named(select, listed)'
    BY <1>2, <1>3, <2>2
  <2> QED
    BY <2>3, <2>4, Zenon DEF MenuInv
<1> QED
  BY <1>2, <1>3, <1>4, <1>5

LEMMA AppearType ==
    ASSUME TypeOK, Appear
    PROVE  /\ on' \in [DOMAIN Parts -> BOOLEAN]
           /\ DOMAIN slider' = DOMAIN Parts
           /\ \A p \in DOMAIN Parts : slider'[p] \in [Materials(p) -> Triples]
<1>1. PICK p \in DOMAIN Parts : Toggle(p) \/ \E m \in Materials(p), c \in Colors : Slide(p, m, c)
  BY DEF Appear
<1>2. CASE Toggle(p)
  BY <1>2 DEF Toggle, TypeOK
<1>3. CASE \E m \in Materials(p), c \in Colors : Slide(p, m, c)
  <2>1. PICK m \in Materials(p), c \in Colors : Slide(p, m, c)
    BY <1>3
  <2>2. c \in Triples /\ on' = on
    BY <2>1, ConstantFacts DEF Slide
  <2>3. slider' = [slider EXCEPT ![p] = [slider[p] EXCEPT ![m] = c]]
    BY <2>1 DEF Slide
  <2>4. [slider[p] EXCEPT ![m] = c] \in [Materials(p) -> Triples]
    BY <2>2 DEF TypeOK
  <2>5. ASSUME NEW q \in DOMAIN Parts
        PROVE  slider'[q] \in [Materials(q) -> Triples]
    BY <2>3, <2>4 DEF TypeOK
  <2>6. DOMAIN slider' = DOMAIN Parts
    BY <2>3 DEF TypeOK
  <2> QED
    BY <2>2, <2>5, <2>6 DEF TypeOK
<1> QED
  BY <1>1, <1>2, <1>3

\* An item is what one of the types asks for, or it is empty.
OfType(x) ==
    \/ x.keys = {} /\ x.type = NoName
    \/ \E i \in DOMAIN itemTypes :
          /\ x.keys = itemTypes[i].keys
          /\ x.type = IF "type" \in x.keys THEN Typed ELSE itemTypes[i].name

ItemsInv == (posting # None => OfType(posting)) /\ (item # None => OfType(item))

Inv == TypeInv /\ MenuInv /\ ItemsInv

\* What a step of the form that leaves tables and requests alone preserves.
LEMMA FormStep ==
    ASSUME Inv, UNCHANGED <<appearanceVars, tableVars, failures>>,
           anchor' \in {"open", "close"}, menu' \in {"none", "items", "types"},
           select' \in Names \cup {NoName}, inputs' \subseteq Keys,
           prototype' \subseteq Keys, shown' \subseteq Properties, listed' \in 0..Len(itemTypes),
           asked' \in Nat, answers' \in [1..MaxTypes -> Nat], AnswersOld',
           creating' = None \/ creating' \in [stage : {"sent", "stored"}, type : ItemType],
           Room', MenuInv', posting' # None => posting' = posting \/ OfType(posting')
    PROVE  Inv'
<1>1. itemTypes' = itemTypes /\ item' = item
  BY DEF tableVars
<1>2. TypeOK'
  BY <1>1 DEF Inv, TypeInv, TypeOK, appearanceVars
<1>3. \A x : OfType(x)' <=> OfType(x)
  BY <1>1 DEF OfType
<1>4. ItemsInv'
  BY <1>1, <1>3 DEF Inv, ItemsInv
<1> QED
  BY <1>2, <1>4 DEF Inv, TypeInv

LEMMA Kept ==
    ASSUME Inv, UNCHANGED <<tableVars, answers, creating>>
    PROVE  AnswersOld' /\ Room'
BY DEF Inv, TypeInv, AnswersOld, Room, tableVars

LEMMA MenuKept ==
    ASSUME Inv, menu' # "items" \/ UNCHANGED <<menu, inputs, select, listed>>, UNCHANGED itemTypes
    PROVE  MenuInv'
<1>1. CASE menu' # "items"
  BY <1>1 DEF MenuInv
<1>2. CASE UNCHANGED <<menu, inputs, select, listed>>
  <2>1. SelectionKeys(select, listed)' = SelectionKeys(select, listed)
    BY <1>2, SameKeys
  <2>2. Named(select, listed)' <=> Named(select, listed)
    BY <1>2 DEF Named
  <2>3. inputs' = inputs /\ select' = select /\ menu' = menu
    BY <1>2
  <2> QED
    BY <2>1, <2>2, <2>3 DEF Inv, MenuInv
<1> QED
  BY <1>1, <1>2

LEMMA OpenStep ==
    ASSUME Inv, Open
    PROVE  Inv'
<1>1. listed \in 0..Len(itemTypes) /\ Update(listed) /\ itemTypes' = itemTypes /\ TypeOK
  BY DEF Open, Inv, TypeInv, TypeOK, tableVars
<1>2. /\ menu' = "items" /\ shown' = {} /\ MenuInv'
      /\ select' \in Names \cup {NoName} /\ inputs' \subseteq Keys
  BY <1>1, Updated DEF Open
<1>3. asked' \in Nat
  BY <1>1 DEF Open, TypeOK
<1> QED
  BY <1>1, <1>2, <1>3, Kept, FormStep DEF Open, TypeOK, tableVars

LEMMA PlayerStep ==
    ASSUME Inv,
           Close \/ New \/ (\E p \in Properties : AddProperty(p)) \/ (\E n \in Names : SelectChange(n))
    PROVE  Inv'
<1>0. TypeOK /\ itemTypes' = itemTypes
  BY DEF Inv, TypeInv, Close, New, AddProperty, SelectChange, tableVars
<1>1. CASE Close
  BY <1>0, <1>1, Kept, MenuKept, FormStep DEF Close, TypeOK, requestVars, tableVars
<1>2. CASE New
  BY <1>0, <1>2, Kept, MenuKept, FormStep DEF New, Reset, TypeOK, requestVars, tableVars
<1>3. ASSUME NEW p \in Properties, AddProperty(p)
      PROVE  Inv'
  <2>1. prototype' \subseteq Keys /\ shown' \subseteq Properties
    BY <1>0, <1>3 DEF AddProperty, TypeOK, Keys
  <2>2. MenuInv'
    BY <1>0, <1>3, MenuKept DEF AddProperty
  <2> QED
    BY <1>0, <1>3, <2>1, <2>2, Kept, FormStep DEF AddProperty, TypeOK, requestVars, tableVars
<1>4. ASSUME NEW n \in Names, SelectChange(n)
      PROVE  Inv'
  <2>1. Named(n, listed) /\ select' = n /\ inputs' = SelectionKeys(n, listed) /\ listed' = listed
    BY <1>4 DEF SelectChange, Named
  <2>2. inputs' \subseteq Keys
    BY <1>0, <2>1, KeysOf DEF TypeOK
  <2>3. SelectionKeys(select, listed)' = SelectionKeys(n, listed)
    BY <1>0, <2>1, SameKeys
  <2>4. Named(select, listed)'
    BY <1>0, <2>1 DEF Named
  <2>5. MenuInv'
    BY <2>1, <2>3, <2>4 DEF MenuInv
  <2> QED
    BY <1>0, <1>4, <2>2, <2>5, Kept, FormStep DEF SelectChange, TypeOK, requestVars, tableVars
<1> QED
  BY <1>1, <1>2, <1>3, <1>4

\* What Ok posts is what the menu shows.
LEMMA NewItemOfType ==
    ASSUME Inv, menu = "items"
    PROVE  OfType(NewItem)
<1>1. NewItem.keys = inputs /\ NewItem.type = IF "type" \in inputs THEN Typed ELSE select
  BY DEF NewItem
<1>2. itemTypes \in Seq(ItemType) /\ listed \in 0..Len(itemTypes)
  BY DEF Inv, TypeInv, TypeOK
<1>3. CASE select = NoName
  <2>1. inputs = {}
    BY <1>3 DEF Inv, MenuInv, SelectionKeys
  <2> QED
    BY <1>1, <1>3, <2>1 DEF OfType
<1>4. CASE select # NoName
  <2>1. Named(select, listed) /\ inputs = Selection(select, listed).keys
    BY <1>4 DEF Inv, MenuInv, SelectionKeys
  <2>2. PICK i \in 1..listed : itemTypes[i].name = select /\ Selection(select, listed) = itemTypes[i]
    BY <1>2, <2>1, SelectionOf
  <2>3. i \in DOMAIN itemTypes /\ inputs = itemTypes[i].keys
    BY <1>2, <2>1, <2>2
  <2> QED
    BY <1>1, <2>2, <2>3 DEF OfType
<1> QED
  BY <1>3, <1>4

LEMMA OkStep ==
    ASSUME Inv, Ok
    PROVE  Inv'
<1>0. TypeOK /\ itemTypes' = itemTypes
  BY DEF Inv, TypeInv, Ok, tableVars
<1>1. posting' = NewItem /\ OfType(NewItem)
  BY NewItemOfType DEF Ok
<1>2. OfType(posting')
  BY <1>1
<1>3. MenuInv' /\ menu' = "none" /\ select' = NoName /\ anchor' = "open"
  BY <1>0, MenuKept DEF Ok, OkAnchor
<1>4. Room' /\ AnswersOld'
  BY Kept DEF Ok
<1> QED
  BY <1>0, <1>2, <1>3, <1>4, FormStep DEF Ok, TypeOK, tableVars

LEMMA CloseStep ==
    ASSUME Inv, Back \/ \E n \in Names : CreateItemType(n)
    PROVE  Inv'
<1>0. TypeOK /\ itemTypes' = itemTypes /\ OnClose /\ listed \in 0..Len(itemTypes)
  BY DEF Inv, TypeInv, TypeOK, Back, CreateItemType, OnClose, tableVars
<1>1. /\ asked' = asked + 1 /\ Update(listed)
      /\ UNCHANGED <<appearanceVars, anchor, listed, answers, posting, tableVars, failures>>
  BY <1>0 DEF OnClose
<1>2. /\ menu' = "items" /\ shown' = {} /\ MenuInv'
      /\ select' \in Names \cup {NoName} /\ inputs' \subseteq Keys
  BY <1>0, <1>1, Updated
<1>3. asked' \in Nat
  BY <1>0, <1>1 DEF TypeOK
<1>4. AnswersOld'
  BY <1>1 DEF Inv, TypeInv, AnswersOld, tableVars
<1>5. CASE Back
  <2>1. Room' /\ prototype' = prototype /\ creating' = creating
    BY <1>1, <1>5, Kept DEF Back
  <2> QED
    BY <1>0, <1>1, <1>2, <1>3, <1>4, <2>1, FormStep DEF TypeOK
<1>6. ASSUME NEW n \in Names, CreateItemType(n)
      PROVE  Inv'
  <2> DEFINE type == [name |-> n, keys |-> prototype \cup {"name"}]
  <2>1. prototype' \subseteq Keys /\ type \in ItemType
    BY <1>0, <1>6 DEF CreateItemType, TypeOK, Keys, ItemType
  <2>2. creating' = [stage |-> "sent", type |-> type] /\ Len(itemTypes) < MaxTypes
    BY <1>6 DEF CreateItemType
  <2>3. creating' \in [stage : {"sent", "stored"}, type : ItemType] /\ Room'
    BY <1>0, <2>1, <2>2 DEF Room
  <2> QED
    BY <1>0, <1>1, <1>2, <1>3, <1>4, <2>1, <2>3, FormStep DEF TypeOK
<1> QED
  BY <1>5, <1>6

LEMMA AnswerStep ==
    ASSUME Inv, \E k \in DOMAIN answers : OnItemTypes(k)
    PROVE  Inv'
<1>0. TypeOK
  BY DEF Inv, TypeInv
<1>1. PICK k \in 1..MaxTypes : OnItemTypes(k)
  BY <1>0 DEF TypeOK
<1>2. k \in 0..Len(itemTypes) /\ itemTypes' = itemTypes
  BY <1>0, <1>1, ConstantFacts DEF Inv, TypeInv, AnswersOld, OnItemTypes, TypeOK, tableVars
<1>3. /\ listed' = k /\ Update(k)
      /\ UNCHANGED <<appearanceVars, anchor, prototype, asked, creating, posting, tableVars, failures>>
      /\ answers' = [answers EXCEPT ![k] = @ - 1] /\ answers[k] > 0
  BY <1>1 DEF OnItemTypes, LoadItemTypes
<1>4. /\ menu' = "items" /\ shown' = {} /\ MenuInv'
      /\ select' \in Names \cup {NoName} /\ inputs' \subseteq Keys
  BY <1>0, <1>2, <1>3, Updated
<1>5. answers' \in [1..MaxTypes -> Nat] /\ \A l \in 1..MaxTypes : answers'[l] > 0 => answers[l] > 0
  BY <1>0, <1>3 DEF TypeOK
<1>6. AnswersOld'
  BY <1>2, <1>5 DEF Inv, TypeInv, AnswersOld
<1>7. Room'
  BY <1>2, <1>3 DEF Inv, TypeInv, Room
<1> QED
  BY <1>0, <1>2, <1>3, <1>4, <1>5, <1>6, <1>7, FormStep DEF TypeOK

LEMMA TryItemTypeStep ==
    ASSUME Inv, TryItemType
    PROVE  Inv'
<1> DEFINE t == creating.type
<1>0. TypeOK /\ Room /\ AnswersOld /\ MenuInv
  BY DEF Inv, TypeInv
<1>1. /\ creating \in [stage : {"sent", "stored"}, type : ItemType] /\ creating.stage = "sent"
      /\ itemTypes' = Append(itemTypes, t) /\ t \in ItemType
      /\ creating' = [creating EXCEPT !.stage = "stored"]
  BY <1>0 DEF TryItemType, TypeOK
<1>2. /\ itemTypes' \in Seq(ItemType) /\ Len(itemTypes') = Len(itemTypes) + 1
      /\ \A i \in DOMAIN itemTypes : i \in DOMAIN itemTypes' /\ itemTypes'[i] = itemTypes[i]
  BY <1>0, <1>1 DEF TypeOK
<1>3. Len(itemTypes') <= MaxTypes
  BY <1>0, <1>1, <1>2, ConstantFacts DEF Room, TypeOK, TryItemType
<1>4. creating' \in [stage : {"sent", "stored"}, type : ItemType] /\ creating'.stage = "stored"
  BY <1>1
<1>5. UNCHANGED <<appearanceVars, formVars, asked, answers, posting, item, failures>>
  BY DEF TryItemType
<1>6. TypeOK'
  BY <1>0, <1>2, <1>3, <1>4, <1>5 DEF TypeOK, appearanceVars, formVars
<1>7. AnswersOld' /\ Room'
  BY <1>0, <1>2, <1>4, <1>5, ConstantFacts DEF AnswersOld, Room, TypeOK
<1>8. MenuInv'
  <2> SUFFICES ASSUME menu = "items"
               PROVE  /\ inputs = SelectionKeys(select, listed)'
                      /\ select = NoName \/ Named(select, listed)'
    BY <1>5 DEF MenuInv, formVars
  <2>1. inputs = SelectionKeys(select, listed) /\ (select = NoName \/ Named(select, listed))
    BY <1>0 DEF MenuInv
  <2>2. listed \in 0..Len(itemTypes) /\ itemTypes \in Seq(ItemType)
    BY <1>0 DEF TypeOK
  <2>3. select' = select /\ listed' = listed
    BY <1>5 DEF formVars
  <2>4. CASE select = NoName
    BY <2>1, <2>3, <2>4 DEF SelectionKeys
  <2>5. CASE select # NoName
    <3>1. Named(select, listed)
      BY <2>1, <2>5
    <3>2. Named(select, listed)'
      BY <1>2, <2>2, <2>3, <3>1 DEF Named
    <3>3. SelectionKeys(select, listed)' = SelectionKeys(select, listed)
      BY <1>1, <2>2, <2>3, <3>1, SelectionGrows
    <3> QED
      BY <2>1, <3>2, <3>3
  <2> QED
    BY <2>4, <2>5
<1>9. ItemsInv'
  <2>1. \A x : OfType(x) => OfType(x)'
    BY <1>2 DEF OfType
  <2> QED
    BY <1>5, <2>1 DEF Inv, ItemsInv
<1> QED
  BY <1>6, <1>7, <1>8, <1>9 DEF Inv, TypeInv

LEMMA RequestStep ==
    ASSUME Inv, SelectItemTypes \/ TryNewItem \/ OnNewType \/ Fails \/ Appear
    PROVE  Inv'
<1>0. TypeOK /\ AnswersOld /\ Room /\ itemTypes' = itemTypes
  BY DEF Inv, TypeInv, SelectItemTypes, TryNewItem, OnNewType, Fails, Appear, tableVars
<1>1. CASE SelectItemTypes
  <2>1. asked' \in Nat /\ answers' \in [1..MaxTypes -> Nat]
    BY <1>0, <1>1, ConstantFacts DEF SelectItemTypes, TypeOK
  <2>2. AnswersOld'
    BY <1>0, <1>1 DEF SelectItemTypes, TypeOK, AnswersOld
  <2>3. MenuInv' /\ Room'
    BY <1>0, <1>1, MenuKept DEF SelectItemTypes, formVars, Room
  <2> QED
    BY <1>0, <1>1, <2>1, <2>2, <2>3, FormStep DEF SelectItemTypes, formVars, TypeOK
<1>2. CASE TryNewItem
  <2>1. TypeOK' /\ AnswersOld' /\ Room'
    BY <1>0, <1>2 DEF TryNewItem, TypeOK, AnswersOld, Room, appearanceVars, formVars
  <2>2. MenuInv'
    BY <1>0, <1>2, MenuKept DEF TryNewItem, formVars
  <2>3. item' = posting /\ posting' = None /\ OfType(posting)
    BY <1>2 DEF TryNewItem, Inv, ItemsInv
  <2>4. \A x : OfType(x)' <=> OfType(x)
    BY <1>0 DEF OfType
  <2>5. ItemsInv'
    BY <2>3, <2>4 DEF ItemsInv
  <2> QED
    BY <2>1, <2>2, <2>5 DEF Inv, TypeInv
<1>3. CASE OnNewType
  <2>1. asked' \in Nat /\ creating' = None /\ Room' /\ AnswersOld'
    BY <1>0, <1>3 DEF OnNewType, OnComplete, TypeOK, Room, AnswersOld
  <2>2. MenuInv'
    BY <1>0, <1>3, MenuKept DEF OnNewType, formVars
  <2> QED
    BY <1>0, <1>3, <2>1, <2>2, FormStep DEF OnNewType, formVars, TypeOK
<1>4. CASE Fails
  <2>1. failures' \in 0..MaxFailures
    BY <1>0, <1>4, ConstantFacts DEF Fails, TypeOK
  <2>2. asked' \in Nat /\ answers' \in [1..MaxTypes -> Nat]
        /\ \A k \in 1..MaxTypes : answers'[k] > 0 => answers[k] > 0
    <3>1. CASE \E k \in DOMAIN answers : answers[k] > 0 /\ answers' = [answers EXCEPT ![k] = @ - 1]
                                         /\ UNCHANGED asked
      BY <1>0, <3>1 DEF TypeOK
    <3>2. CASE UNCHANGED answers /\ (asked' = asked \/ (asked > 0 /\ asked' = asked - 1))
      BY <1>0, <3>2 DEF TypeOK
    <3> QED
      BY <1>4, <3>1, <3>2 DEF Fails
  <2>3. (creating' = None \/ creating' = creating) /\ (posting' = None \/ posting' = posting)
    BY <1>4 DEF Fails
  <2>4. AnswersOld' /\ Room'
    BY <1>0, <2>2, <2>3 DEF AnswersOld, Room
  <2>5. TypeOK'
    BY <1>0, <1>4, <2>1, <2>2, <2>3 DEF Fails, TypeOK, appearanceVars, formVars, tableVars
  <2>6. MenuInv'
    BY <1>0, <1>4, MenuKept DEF Fails, formVars
  <2>7. \A x : OfType(x)' <=> OfType(x)
    BY <1>0 DEF OfType
  <2>8. ItemsInv'
    BY <1>4, <2>3, <2>7 DEF Inv, ItemsInv, Fails, tableVars
  <2> QED
    BY <2>4, <2>5, <2>6, <2>8 DEF Inv, TypeInv
<1>5. CASE Appear
  <2>1. TypeOK'
    BY <1>0, <1>5, AppearType DEF Appear, TypeOK, formVars, requestVars, tableVars
  <2>2. AnswersOld' /\ Room'
    BY <1>5, Kept DEF Appear, requestVars
  <2>3. MenuInv'
    BY <1>0, <1>5, MenuKept DEF Appear, formVars
  <2>4. \A x : OfType(x)' <=> OfType(x)
    BY <1>0 DEF OfType
  <2>5. ItemsInv'
    BY <1>5, <2>4 DEF Inv, ItemsInv, Appear, requestVars, tableVars
  <2> QED
    BY <2>1, <2>2, <2>3, <2>5 DEF Inv, TypeInv
<1> QED
  BY <1>1, <1>2, <1>3, <1>4, <1>5

LEMMA Start == Init => Inv
<1> SUFFICES ASSUME Init
             PROVE  Inv
  OBVIOUS
<1>1. \A p \in DOMAIN Parts : \A m \in Materials(p) : Initial(Parts[p][m]) \in Triples
  <2> SUFFICES ASSUME NEW p \in DOMAIN Parts, NEW m \in Materials(p)
               PROVE  Initial(Parts[p][m]) \in Triples
    OBVIOUS
  <2>1. Parts[p] \in Seq(Triples)
    BY ConstantFacts
  <2>2. Parts[p][m] \in Triples
    BY <2>1 DEF Materials
  <2> QED
    BY <2>2 DEF Initial, Triples
<1>2. /\ on \in [DOMAIN Parts -> BOOLEAN]
      /\ DOMAIN slider = DOMAIN Parts
      /\ \A p \in DOMAIN Parts : slider[p] \in [Materials(p) -> Triples]
  BY <1>1 DEF Init, AppearanceInit
<1>3. TypeOK
  BY <1>2, ConstantFacts DEF Init, TypeOK
<1>4. AnswersOld /\ Room
  BY ConstantFacts DEF Init, AnswersOld, Room
<1>5. MenuInv /\ ItemsInv
  BY DEF Init, MenuInv, ItemsInv
<1> QED
  BY <1>3, <1>4, <1>5 DEF Inv, TypeInv

LEMMA Unchanged == ASSUME Inv, UNCHANGED vars PROVE Inv'
<1>1. itemTypes' = itemTypes /\ UNCHANGED <<menu, inputs, select, listed>>
  BY DEF vars, tableVars, formVars
<1>2. MenuInv'
  BY <1>1, MenuKept
<1>3. TypeInv'
  BY DEF Inv, TypeInv, TypeOK, AnswersOld, Room, vars, appearanceVars, formVars, requestVars, tableVars
<1>4. ItemsInv'
  BY DEF Inv, ItemsInv, OfType, vars, requestVars, tableVars
<1> QED
  BY <1>2, <1>3, <1>4 DEF Inv

LEMMA Step == Inv /\ [Next]_vars => Inv'
BY OpenStep, PlayerStep, OkStep, CloseStep, AnswerStep, TryItemTypeStep, RequestStep, Unchanged
   DEF Next, Player, Server

-----------------------------------------------------------------------------
(***************************************************************************)
(* The appearance.  The library's induction theorems take an operator; the *)
(* one stated here takes a set.                                            *)
(***************************************************************************)
LEMMA NatInduct ==
    ASSUME NEW S, 0 \in S, \A n \in Nat : n \in S => n + 1 \in S
    PROVE  Nat \subseteq S
<1> DEFINE T == Nat \ S
<1>1. SUFFICES ASSUME T # {} PROVE FALSE
  OBVIOUS
<1>2. T \subseteq Nat
  OBVIOUS
<1>3. \E t \in T : \A y \in T : ~(<<y, t>> \in OpToRel(<, Nat))
  BY <1>1, <1>2, NatLessThanWellFounded, WFMin, Zenon
<1>4. PICK t \in T : \A y \in T : ~(y < t)
  BY <1>2, <1>3 DEF OpToRel
<1>5. t # 0 /\ t - 1 \in Nat
  OBVIOUS
<1>6. t - 1 \notin T
  BY <1>4, <1>5
<1>7. t - 1 \in S /\ (t - 1) + 1 = t
  BY <1>5, <1>6
<1> QED
  BY <1>5, <1>7

LEMMA MinExists ==
    ASSUME NEW S, S \subseteq Nat, S # {}
    PROVE  Min(S) \in S
<1>1. \E t \in S : \A y \in S : ~(<<y, t>> \in OpToRel(<, Nat))
  BY NatLessThanWellFounded, WFMin, Zenon
<1>2. PICK t \in S : \A y \in S : ~(y < t)
  BY <1>1 DEF OpToRel
<1>3. \A y \in S : t <= y
  BY <1>2
<1>4. \E x \in S : \A y \in S : x <= y
  BY <1>3
<1> QED
  BY <1>4 DEF Min

\* The fold over the first n parts, as the fold of the library defines it.
Folds(f, n) ==
    f = [s \in SUBSET (1..n) |->
            IF s = {} THEN Empty ELSE AddPart(f[s \ {Max(s)}], Max(s))]

LEMMA FoldsTo ==
    ASSUME NEW n \in Nat
    PROVE  \E f : Folds(f, n)
<1> DEFINE S == {k \in Nat : \E f : Folds(f, k)}
<1>1. 0 \in S
  <2> DEFINE f == [s \in SUBSET (1..0) |-> Empty]
  <2>1. \A s \in SUBSET (1..0) : s = {}
    OBVIOUS
  <2>2. f = [s \in SUBSET (1..0) |->
               IF s = {} THEN Empty ELSE AddPart(f[s \ {Max(s)}], Max(s))]
    BY <2>1
  <2> HIDE DEF f
  <2> QED
    BY <2>2 DEF Folds
<1>2. ASSUME NEW k \in Nat, k \in S
      PROVE  k + 1 \in S
  <2>1. PICK f : Folds(f, k)
    BY <1>2
  <2> DEFINE e(s) == IF s = {} THEN Empty ELSE AddPart(f[s \ {Max(s)}], Max(s))
             g == [s \in SUBSET (1..(k + 1)) |-> e(s)]
  <2>2. f = [s \in SUBSET (1..k) |-> e(s)]
    BY <2>1 DEF Folds
  <2> HIDE DEF e
  <2>3. \A s \in SUBSET (1..k) : f[s] = e(s) /\ s \in SUBSET (1..(k + 1))
    BY <2>2
  <2>4. \A s \in SUBSET (1..k) : f[s] = g[s]
    BY <2>3
  <2>5. ASSUME NEW s \in SUBSET (1..(k + 1)), s # {}
        PROVE  s \ {Max(s)} \in SUBSET (1..k)
    <3>0. k + 1 \in Nat /\ s \subseteq 1..(k + 1)
      OBVIOUS
    <3> HIDE DEF g, S
    <3>1. Max(s) \in s
      BY <2>5, <3>0, MaxExists
    <3>2. CASE k + 1 \in s
      <4>1. \A x \in s : k + 1 >= x
        OBVIOUS
      <4>2. \E x \in s : \A y \in s : x >= y
        BY <3>2, <4>1
      <4>3. \A y \in s : Max(s) >= y
        BY <4>2 DEF Max
      <4>4. Max(s) = k + 1
        <5>1. Max(s) \in 1..(k + 1) /\ Max(s) >= k + 1
          BY <3>0, <3>1, <3>2, <4>3
        <5> QED
          BY <5>1
      <4> QED
        BY <3>0, <4>4
    <3>3. CASE k + 1 \notin s
      <4>1. s \subseteq 1..k
        BY <3>0, <3>3
      <4> QED
        BY <4>1
    <3> QED
      BY <3>2, <3>3
  <2>6. ASSUME NEW s \in SUBSET (1..(k + 1))
        PROVE  e(s) = IF s = {} THEN Empty ELSE AddPart(g[s \ {Max(s)}], Max(s))
    <3>1. CASE s = {}
      BY <3>1 DEF e
    <3>2. CASE s # {}
      <4> HIDE DEF g
      <4>1. f[s \ {Max(s)}] = g[s \ {Max(s)}]
        BY <2>4, <2>5, <3>2
      <4> QED
        BY <3>2, <4>1 DEF e
    <3> QED
      BY <3>1, <3>2
  <2>7. g = [s \in SUBSET (1..(k + 1)) |->
               IF s = {} THEN Empty ELSE AddPart(g[s \ {Max(s)}], Max(s))]
    BY <2>6
  <2>8. Folds(g, k + 1)
    <3> HIDE DEF g
    <3> QED
      BY <2>7 DEF Folds
  <2>9. \E h : Folds(h, k + 1)
    <3> HIDE DEF g
    <3> QED
      BY <2>8
  <2> QED
    BY <2>9
<1>3. Nat \subseteq S
  <2> HIDE DEF S
  <2> QED
    BY <1>1, <1>2, NatInduct
<1> QED
  BY <1>3

\* The data of the first parts, one part at a time.
LEMMA DataUnfolds ==
    \E f : /\ f[0] = Empty
           /\ \A k \in 1..Len(Parts) : f[k] = AddPart(f[k - 1], k)
           /\ Data = f[Len(Parts)]
<1> DEFINE n == Len(Parts)
           F == CHOOSE f : Folds(f, n)
           f == [k \in 0..n |-> F[1..k]]
<1>0. n \in Nat /\ DOMAIN Parts = 1..n
  BY ConstantFacts
<1>1. Folds(F, n)
  <2>1. \E h : Folds(h, n)
    BY <1>0, FoldsTo
  <2> QED
    BY <2>1, Zenon
<1> HIDE DEF F, n
<1>2. Data = F[1..n]
  <2>1. DOMAIN [i \in DOMAIN Parts |-> i] = 1..n
    BY <1>0
  <2> DEFINE I == [i \in DOMAIN Parts |-> i]
             H(h) == h = [s \in SUBSET (1..n) |->
                            IF s = {} THEN Empty ELSE AddPart(h[s \ {Max(s)}], I[Max(s)])]
  <2>2. Data = (CHOOSE h : H(h))[1..n]
    BY <2>1, Zenon DEF Data, FoldLeftDomain, FoldLeft, MapThenFoldSet
  <2>3. ASSUME NEW h PROVE H(h) <=> Folds(h, n)
    <3>1. ASSUME NEW s \in SUBSET (1..n), s # {}
          PROVE  I[Max(s)] = Max(s)
      <4>1. Max(s) \in s
        BY <1>0, <3>1, MaxExists
      <4> QED
        BY <1>0, <4>1
    <3> HIDE DEF I
    <3>2. ASSUME NEW s \in SUBSET (1..n)
          PROVE  (IF s = {} THEN Empty ELSE AddPart(h[s \ {Max(s)}], I[Max(s)]))
                  = (IF s = {} THEN Empty ELSE AddPart(h[s \ {Max(s)}], Max(s)))
      BY <3>1
    <3>3. [s \in SUBSET (1..n) |-> IF s = {} THEN Empty ELSE AddPart(h[s \ {Max(s)}], I[Max(s)])]
          = [s \in SUBSET (1..n) |-> IF s = {} THEN Empty ELSE AddPart(h[s \ {Max(s)}], Max(s))]
      BY <3>2
    <3> QED
      BY <3>3, Zenon DEF Folds
  <2> HIDE DEF H
  <2>4. (CHOOSE h : H(h)) = (CHOOSE h : Folds(h, n))
    BY <2>3
  <2> QED
    BY <2>2, <2>4 DEF F
<1>3. \A s \in SUBSET (1..n) : F[s] = IF s = {} THEN Empty ELSE AddPart(F[s \ {Max(s)}], Max(s))
  BY <1>1 DEF Folds
<1>4. f[0] = Empty
  <2>1. 1..0 = {} /\ {} \in SUBSET (1..n)
    OBVIOUS
  <2>2. F[{}] = Empty
    BY <1>3, <2>1
  <2> QED
    BY <1>0, <2>1, <2>2
<1>5. ASSUME NEW k \in 1..n
      PROVE  f[k] = AddPart(f[k - 1], k)
  <2>0. n \in Nat
    BY <1>0
  <2>1. 1..k # {} /\ 1..k \in SUBSET (1..n) /\ k - 1 \in 0..n /\ k \in 1..k /\ k \in 0..n
    BY <2>0
  <2>2. Max(1..k) = k
    <3>1. \A y \in 1..k : k >= y
      BY <1>0
    <3>2. \E x \in 1..k : \A y \in 1..k : x >= y
      BY <2>1, <3>1
    <3>3. Max(1..k) \in 1..k /\ \A y \in 1..k : Max(1..k) >= y
      BY <3>2 DEF Max
    <3> QED
      BY <1>0, <2>1, <3>3
  <2>3. (1..k) \ {k} = 1..(k - 1)
    BY <1>0
  <2>4. F[1..k] = AddPart(F[1..(k - 1)], k)
    BY <1>3, <2>1, <2>2, <2>3
  <2> QED
    BY <2>1, <2>4
<1>6. Data = f[n]
  BY <1>0, <1>2
<1> HIDE DEF f
<1> QED
  BY <1>4, <1>5, <1>6 DEF n

\* The appearance put together from the first k parts: the style's numbers are
\* below the next one and none stands for two colours, and each material of a
\* part that is on has the number of an entry with the colour its sliders show.
Numbered(d) ==
    /\ d.next \in Nat
    /\ \A e \in d.style : e.number \in Nat /\ e.number < d.next
    /\ \A e, x \in d.style : e.number = x.number => e.color = x.color

Shows(d, p, m, number) ==
    \E e \in d.style : e.number = number /\ e.color = slider[p][m]

DataInv(d, k) ==
    /\ Numbered(d)
    /\ DOMAIN d.numbers = {p \in 1..k : on[p]}
    /\ \A p \in DOMAIN d.numbers : \A m \in Materials(p) : Shows(d, p, m, d.numbers[p][m])

\* Materials of one part get different numbers, all below the next part's.
LEMMA Ranks ==
    ASSUME NEW d, NEW p \in DOMAIN Parts
    PROVE  /\ Cardinality(Fresh(d, p)) \in Nat
           /\ \A m \in Fresh(d, p) :
                 Rank(d, p, m) \in Nat /\ Rank(d, p, m) < Cardinality(Fresh(d, p))
           /\ \A l, m \in Fresh(d, p) : l < m => Rank(d, p, l) < Rank(d, p, m)
<1> DEFINE F == Fresh(d, p)
           Below(m) == {l \in F : l < m}
<1>1. F \subseteq Nat /\ IsFiniteSet(F)
  <2>1. Parts[p] \in Seq(Triples)
    BY ConstantFacts
  <2>2. Materials(p) = 1..Len(Parts[p]) /\ Len(Parts[p]) \in Nat
    BY <2>1 DEF Materials
  <2>3. IsFiniteSet(Materials(p))
    BY <2>2, FS_Interval
  <2>4. F \subseteq Materials(p)
    BY DEF Fresh
  <2> QED
    BY <2>2, <2>3, <2>4, FS_Subset
<1> HIDE DEF F
<1>2. \A m : Below(m) \subseteq F /\ IsFiniteSet(Below(m))
  BY <1>1, FS_Subset
<1>3. \A m \in F : m \notin Below(m) /\ Below(m) # F
  BY <1>1
<1>4. ASSUME NEW m \in F
      PROVE  Cardinality(Below(m)) \in Nat /\ Cardinality(Below(m)) < Cardinality(F)
  <2>1. Below(m) \subseteq F /\ Below(m) # F
    BY <1>2, <1>3
  <2> HIDE DEF Below
  <2> QED
    BY <1>1, <1>2, <2>1, FS_Subset, FS_CardinalityType
<1>5. ASSUME NEW l \in F, NEW m \in F, l < m
      PROVE  Cardinality(Below(l)) < Cardinality(Below(m))
  <2>0. l \in Nat /\ m \in Nat
    BY <1>1
  <2>1. Below(l) \subseteq Below(m) /\ l \in Below(m) /\ l \notin Below(l)
    <3>1. \A q \in Below(l) : q \in F /\ q < m
      BY <1>1, <1>5, <2>0
    <3>2. Below(l) \subseteq Below(m)
      BY <3>1
    <3>3. l \in Below(m) /\ ~(l < l)
      BY <1>5, <2>0
    <3> QED
      BY <3>2, <3>3
  <2>2. Below(l) # Below(m) /\ IsFiniteSet(Below(m))
    BY <1>2, <2>1
  <2> HIDE DEF Below
  <2> QED
    BY <2>1, <2>2, FS_Subset, FS_CardinalityType
<1>6. Cardinality(F) \in Nat
  BY <1>1, FS_CardinalityType
<1> QED
  BY <1>4, <1>5, <1>6 DEF Rank, F

LEMMA AddPartInv ==
    ASSUME NEW p \in DOMAIN Parts, NEW d, DataInv(d, p - 1)
    PROVE  DataInv(AddPart(d, p), p)
<1> DEFINE F == Fresh(d, p)
           x == AddPart(d, p)
<1>0. p \in Nat /\ p \in 1..p /\ p \notin 1..(p - 1) /\ \A q : q \in 1..p <=> q \in 1..(p - 1) \/ q = p
  BY ConstantFacts
<1>1. CASE ~on[p]
  <2>1. {q \in 1..p : on[q]} = {q \in 1..(p - 1) : on[q]}
    BY <1>0, <1>1
  <2> QED
    BY <1>1, <2>1 DEF AddPart, DataInv
<1>2. CASE on[p]
  <2>1. /\ x.style = d.style \cup NewColors(d, p)
        /\ x.next = d.next + Cardinality(F)
        /\ x.numbers = [q \in DOMAIN d.numbers \cup {p} |->
                          IF q = p THEN [m \in Materials(p) |-> Number(d, p, m)] ELSE d.numbers[q]]
    BY <1>2 DEF AddPart
  <2>2. d.next \in Nat /\ Cardinality(F) \in Nat
    BY Ranks DEF DataInv, Numbered
  <2>3. ASSUME NEW m \in F
        PROVE  NewNumber(d, p, m) \in Nat /\ NewNumber(d, p, m) >= d.next /\ NewNumber(d, p, m) < x.next
    BY <2>1, <2>2, Ranks DEF NewNumber
  <2>4. ASSUME NEW l \in F, NEW m \in F, NewNumber(d, p, l) = NewNumber(d, p, m)
        PROVE  l = m
    <3>1. l \in Nat /\ m \in Nat
      <4>1. Parts[p] \in Seq(Triples)
        BY ConstantFacts
      <4> QED
        BY <4>1 DEF Fresh, Materials
    <3>2. Rank(d, p, l) = Rank(d, p, m)
      BY <2>2, <2>4, Ranks DEF NewNumber
    <3> QED
      BY <3>1, <3>2, Ranks
  <2>5. \A e \in NewColors(d, p) : \E m \in F :
           e.number = NewNumber(d, p, m) /\ e.color = slider[p][m]
    BY DEF NewColors
  <2>6. \A m \in F : \E e \in NewColors(d, p) :
           e.number = NewNumber(d, p, m) /\ e.color = slider[p][m]
    <3>1. ASSUME NEW m \in F
          PROVE  \E e \in NewColors(d, p) :
                    e.number = NewNumber(d, p, m) /\ e.color = slider[p][m]
      <4>1. [color |-> slider[p][m], number |-> NewNumber(d, p, m)] \in NewColors(d, p)
        BY Zenon DEF NewColors
      <4> QED
        BY <4>1
    <3> QED
      BY <3>1
  <2>7. \A e \in d.style : e.number \in Nat /\ e.number < d.next
    BY DEF DataInv, Numbered
  <2>8. Numbered(x)
    <3>1. x.next \in Nat
      BY <2>1, <2>2
    <3>2. ASSUME NEW e \in x.style
          PROVE  e.number \in Nat /\ e.number < x.next
      <4>1. CASE e \in d.style
        BY <2>1, <2>2, <2>7, <4>1
      <4>2. CASE e \in NewColors(d, p)
        BY <2>3, <2>5, <4>2
      <4> HIDE DEF x
      <4> QED
        BY <2>1, <4>1, <4>2
    <3>3. ASSUME NEW e \in x.style, NEW y \in x.style, e.number = y.number
          PROVE  e.color = y.color
      <4>1. CASE e \in d.style /\ y \in d.style
        BY <3>3, <4>1 DEF DataInv, Numbered
      <4>2. CASE e \in d.style /\ y \in NewColors(d, p)
        BY <2>2, <2>3, <2>5, <2>7, <3>3, <4>2
      <4>3. CASE e \in NewColors(d, p) /\ y \in d.style
        BY <2>2, <2>3, <2>5, <2>7, <3>3, <4>3
      <4>4. CASE e \in NewColors(d, p) /\ y \in NewColors(d, p)
        BY <2>4, <2>5, <3>3, <4>4
      <4> HIDE DEF x
      <4> QED
        BY <2>1, <4>1, <4>2, <4>3, <4>4
    <3> HIDE DEF x
    <3> QED
      BY <3>1, <3>2, <3>3 DEF Numbered
  <2> HIDE DEF x
  <2>9. DOMAIN x.numbers = {q \in 1..p : on[q]}
    BY <1>0, <1>2, <2>1 DEF DataInv
  <2>10. ASSUME NEW q \in DOMAIN x.numbers, NEW m \in Materials(q)
         PROVE  Shows(x, q, m, x.numbers[q][m])
    <3>1. CASE q = p
      <4>1. x.numbers[q][m] = Number(d, p, m)
        BY <2>1, <3>1
      <4>2. CASE m \in F
        BY <2>1, <2>6, <3>1, <4>1, <4>2 DEF Number, Shows
      <4>3. CASE m \notin F
        <5>1. Same(d, p, m) # {} /\ Same(d, p, m) \subseteq Nat
          BY <2>7, <3>1, <4>3 DEF Fresh, Same
        <5>2. Min(Same(d, p, m)) \in Same(d, p, m)
          BY <5>1, MinExists
        <5>3. Number(d, p, m) \in Same(d, p, m)
          BY <4>3, <5>2 DEF Number
        <5>4. \E e \in d.style : e.number = Number(d, p, m) /\ e.color = slider[p][m]
          BY <5>3 DEF Same
        <5> QED
          BY <2>1, <3>1, <4>1, <5>4 DEF Shows
      <4> QED
        BY <4>2, <4>3
    <3>2. CASE q # p
      <4>1. q \in DOMAIN d.numbers /\ x.numbers[q] = d.numbers[q]
        BY <2>1, <2>10, <3>2
      <4>2. Shows(d, q, m, d.numbers[q][m])
        BY <2>10, <4>1 DEF DataInv
      <4> QED
        BY <2>1, <4>1, <4>2 DEF Shows
    <3> QED
      BY <3>1, <3>2
  <2> QED
    BY <2>8, <2>9, <2>10 DEF DataInv, x
<1> QED
  BY <1>1, <1>2

LEMMA DataHolds ==
    DataResolves
<1> DEFINE n == Len(Parts)
<1>0. n \in Nat /\ DOMAIN Parts = 1..n
  BY ConstantFacts
<1> HIDE DEF n
<1>1. PICK f : /\ f[0] = Empty
               /\ \A k \in 1..n : f[k] = AddPart(f[k - 1], k)
               /\ Data = f[n]
  BY DataUnfolds DEF n
<1> DEFINE S == {k \in Nat : k <= n => DataInv(f[k], k)}
<1>2. 0 \in S
  <2>1. DataInv(Empty, 0)
    BY DEF DataInv, Numbered, Empty
  <2> QED
    BY <1>1, <2>1
<1>3. ASSUME NEW k \in Nat, k \in S
      PROVE  k + 1 \in S
  <2>1. CASE k + 1 <= n
    <3>1. k + 1 \in DOMAIN Parts /\ f[k + 1] = AddPart(f[k], k + 1) /\ (k + 1) - 1 = k
      BY <1>0, <1>1, <2>1
    <3>2. DataInv(f[k], k)
      BY <1>0, <1>3, <2>1
    <3>3. DataInv(AddPart(f[k], k + 1), k + 1)
      BY <3>1, <3>2, AddPartInv
    <3> QED
      BY <3>1, <3>3
  <2> QED
    BY <2>1
<1>4. DataInv(Data, n)
  <2>1. n \in S
    <3> HIDE DEF S
    <3> QED
      BY <1>0, <1>2, <1>3, NatInduct
  <2> QED
    BY <1>0, <1>1, <2>1
<1>5. DOMAIN Data.numbers = {p \in DOMAIN Parts : on[p]}
  BY <1>0, <1>4 DEF DataInv
<1>6. ASSUME NEW p \in DOMAIN Data.numbers, NEW m \in Materials(p)
      PROVE  /\ \E e \in Data.style : e.number = Data.numbers[p][m]
             /\ \A e \in Data.style : e.number = Data.numbers[p][m] => e.color = slider[p][m]
  BY <1>4 DEF DataInv, Numbered, Shows
<1> QED
  BY <1>5, <1>6 DEF DataResolves

-----------------------------------------------------------------------------
(***************************************************************************)
(* The theorems.                                                           *)
(***************************************************************************)

\* The fields of both forms keep their types, and the page never lists more
\* types than the table has (items.js).
THEOREM TypeCorrect == Spec => []TypeOK
<1>1. Inv => TypeOK
  BY DEF Inv, TypeInv
<1> QED
  BY <1>1, Start, Step, PTL DEF Spec

\* Each stored item has the keys of a stored type and names it, however many
\* answers rendered the menu in between (items.js, update, registerOkButton).
THEOREM ItemOfTypeCorrect == Spec => []ItemOfType
<1>1. Inv => ItemOfType
  BY DEF Inv, ItemsInv, OfType, ItemOfType
<1> QED
  BY <1>1, Start, Step, PTL DEF Spec

\* A new type is stored with the properties its menu lists (items.js, reset).
THEOREM PropertiesAsShownCorrect == Spec => []PropertiesAsShown
<1>1. Init => PropertiesAsShown
  BY DEF Init, PropertiesAsShown
<1>2. PropertiesAsShown /\ [Next]_vars => PropertiesAsShown'
  <2> SUFFICES ASSUME PropertiesAsShown, [Next]_vars
               PROVE  PropertiesAsShown'
    OBVIOUS
  <2>1. CASE menu' = "types" /\ menu' # menu
    BY <2>1 DEF Next, Player, Server, Open, Close, SelectChange, New, Reset, AddProperty, Back,
       CreateItemType, OnClose, Update, Ok, Appear, SelectItemTypes, TryItemType, TryNewItem,
       OnItemTypes, OnNewType, Fails, PropertiesAsShown, vars, formVars
  <2>2. CASE menu' = menu
    BY <2>2 DEF Next, Player, Server, Open, Close, SelectChange, New, Reset, AddProperty, Back,
       CreateItemType, OnClose, Update, Ok, Appear, SelectItemTypes, TryItemType, TryNewItem,
       OnItemTypes, OnNewType, Fails, PropertiesAsShown, vars, formVars
  <2> QED
    BY <2>1, <2>2 DEF PropertiesAsShown
<1> QED
  BY <1>1, <1>2, PTL DEF Spec

\* While the link closes there is a menu to close (items.js, onOpenClick).
THEOREM CloseHasMenuCorrect == Spec => []CloseHasMenu
<1>1. Init => CloseHasMenu
  BY DEF Init, CloseHasMenu
<1>2. CloseHasMenu /\ [Next]_vars => CloseHasMenu'
  BY DEF Next, Player, Server, Open, Close, SelectChange, New, AddProperty, Back,
     CreateItemType, OnClose, Update, Ok, OkAnchor, Appear, SelectItemTypes, TryItemType,
     TryNewItem, OnItemTypes, OnNewType, Fails, CloseHasMenu, vars, formVars
<1> QED
  BY <1>1, <1>2, PTL DEF Spec

\* The appearance of a new item has exactly the parts that are on, and each of
\* their materials the number of one colour, the one its sliders show
\* (components.appearance.js, Model.data).
THEOREM DataResolvesCorrect == Spec => []DataResolves
BY DataHolds, PTL
=============================================================================
