------------------------------- MODULE ItemForm -------------------------------
(***************************************************************************)
(* The form of the console page that makes items and item types            *)
(* (src/Server/Plugins/Web/items.js), under the appearance component, and  *)
(* the server's tables of both.                                            *)
(*                                                                         *)
(* Two menus share one place in the page: "items", where a type is chosen  *)
(* and its properties are filled in, and "types", where a new type is put  *)
(* together.  The link above them opens and closes.  The types are asked   *)
(* for whenever a menu is opened, so several requests are on their way and *)
(* the HTTP server's threads answer them in any order; an answer opens the *)
(* items menu, whatever is open when it comes.                             *)
(*                                                                         *)
(* A stored type is its name and its keys, which are its properties and    *)
(* "name".  A stored item is the type it names, the keys it has and its    *)
(* appearance.  What the player types in is not told apart.                *)
(***************************************************************************)
EXTENDS AppearanceForm

CONSTANTS
    Names,          \* names of types
    Properties,     \* names of properties
    NoName,         \* no type is chosen
    None,           \* no request of a kind is under way
    Typed,          \* a value the player typed in
    MaxTypes,       \* bound: rows of ITEMTYPES
    MaxAsked,       \* bound: requests for the types when the player acts
    MaxFailures     \* bound: requests that get no usable answer

\* What the two values stand for; no proof needs it.
ASSUME NamesAssumption == NoName \notin Names /\ Typed \notin Names

ASSUME ItemAssumption ==
       MaxTypes \in Nat /\ MaxAsked \in Nat /\ MaxFailures \in Nat

VARIABLES
    anchor,         \* what a click on the link does: "open" or "close"
    menu,           \* the menu in the page: "none", "items" or "types"
    listed,         \* this.itemTypes: how many rows it has
    select,         \* the option the items menu shows, NoName when it is not open
    inputs,         \* selectedItemTypeInputs: keys that have an input
    prototype,      \* currentItemPrototype: its keys
    shown,          \* the list in the types menu, {} when it is not open
    asked,          \* requests for the types on their way to the server
    answers,        \* their answers under way, by number of rows
    creating,       \* the request for a new type, and its stage
    posting,        \* the item on its way to the server
    itemTypes,      \* table ITEMTYPES
    item,           \* the row of ITEMS inserted last
    failures

formVars == <<anchor, menu, listed, select, inputs, prototype, shown>>
requestVars == <<asked, answers, creating, posting>>
tableVars == <<itemTypes, item>>
vars == <<appearanceVars, formVars, requestVars, tableVars, failures>>

Init ==
    /\ AppearanceInit
    /\ anchor = "open" /\ menu = "none" /\ listed = 0 /\ select = NoName
    /\ inputs = {} /\ prototype = {} /\ shown = {}
    /\ asked = 0 /\ answers = [k \in 1..MaxTypes |-> 0]
    /\ creating = None /\ posting = None
    /\ itemTypes = <<>> /\ item = None /\ failures = 0

-----------------------------------------------------------------------------
\* The menus.

\* The row of the first k that getSelection finds for a name: the last one.
Selection(n, k) ==
    itemTypes[SelectLastInSeq(SubSeq(itemTypes, 1, k), LAMBDA t : t.name = n)]
SelectionKeys(n, k) == IF n = NoName THEN {} ELSE Selection(n, k).keys

First(k) == IF k = 0 THEN NoName ELSE itemTypes[1].name

\* The menu is rendered twice.  The first time the selection is still that of
\* the menu that is taken away; the second time it is the first option.
UpdateInputs_Once(k) ==
    IF select # NoName THEN SelectionKeys(select, k) ELSE inputs
UpdateInputs(k) == SelectionKeys(First(k), k)

Update(k) ==
    /\ menu' = "items" /\ shown' = {}
    /\ select' = First(k)
    /\ inputs' = UpdateInputs(k)

Outstanding == asked + FoldFunction(LAMBDA n, sum : n + sum, 0, answers)
MayAsk == Outstanding < MaxAsked

Open ==
    /\ anchor = "open" /\ MayAsk
    /\ anchor' = "close"
    /\ asked' = asked + 1
    /\ Update(listed)
    /\ UNCHANGED <<appearanceVars, listed, prototype, answers, creating, posting, tableVars, failures>>

\* The link while it closes, or Cancel in the items menu.
Close ==
    /\ anchor = "close" \/ menu = "items"
    /\ menu' = "none" /\ select' = NoName /\ shown' = {}
    /\ anchor' = "open"
    /\ UNCHANGED <<appearanceVars, listed, inputs, prototype, requestVars, tableVars, failures>>

SelectChange(n) ==
    /\ menu = "items"
    /\ \E i \in 1..listed : itemTypes[i].name = n
    /\ select' = n
    /\ inputs' = SelectionKeys(n, listed)
    /\ UNCHANGED <<appearanceVars, anchor, menu, listed, prototype, shown, requestVars, tableVars, failures>>

\* The New button: onTransition, which is reset of the types menu.
Reset_Keeps == prototype
Reset == {}

New ==
    /\ menu = "items"
    /\ menu' = "types" /\ select' = NoName
    /\ prototype' = Reset /\ shown' = {}
    /\ UNCHANGED <<appearanceVars, anchor, listed, inputs, requestVars, tableVars, failures>>

AddProperty(p) ==
    /\ menu = "types"
    /\ prototype' = prototype \cup {p}
    /\ shown' = shown \cup {p}
    /\ UNCHANGED <<appearanceVars, anchor, menu, listed, select, inputs, requestVars, tableVars, failures>>

\* onClose of the types menu: ask for the types, and the items menu.
OnClose ==
    /\ asked' = asked + 1
    /\ Update(listed)
    /\ UNCHANGED <<appearanceVars, anchor, listed, answers, posting, tableVars, failures>>

Back ==
    /\ menu = "types" /\ MayAsk
    /\ OnClose
    /\ UNCHANGED <<prototype, creating>>

CreateItemType(n) ==
    /\ menu = "types" /\ MayAsk
    /\ creating = None /\ Len(itemTypes) < MaxTypes
    /\ prototype' = prototype \cup {"name"}
    /\ creating' = [stage |-> "sent", type |-> [name |-> n, keys |-> prototype \cup {"name"}]]
    /\ OnClose

\* The inputs are copied into the item last: one for a property called type or
\* data takes the place of the item's type or of its appearance.
NewItem ==
    [keys |-> inputs,
     type |-> IF "type" \in inputs THEN Typed ELSE select,
     data |-> IF "data" \in inputs THEN Typed ELSE Data]

OkAnchor_Close == anchor
OkAnchor == "open"

Ok ==
    /\ menu = "items" /\ posting = None
    /\ posting' = NewItem
    /\ menu' = "none" /\ select' = NoName
    /\ anchor' = OkAnchor
    /\ UNCHANGED <<appearanceVars, listed, inputs, prototype, shown, asked, answers, creating, tableVars, failures>>

-----------------------------------------------------------------------------
\* The server, one thread per request.  An empty table is answered with an
\* empty body, for which the page does nothing.

SelectItemTypes ==
    /\ asked > 0
    /\ asked' = asked - 1
    /\ answers' = [k \in DOMAIN answers |->
                      IF k = Len(itemTypes) THEN answers[k] + 1 ELSE answers[k]]
    /\ UNCHANGED <<appearanceVars, formVars, creating, posting, tableVars, failures>>

TryItemType ==
    /\ creating # None /\ creating.stage = "sent"
    /\ itemTypes' = Append(itemTypes, creating.type)
    /\ creating' = [creating EXCEPT !.stage = "stored"]
    /\ UNCHANGED <<appearanceVars, formVars, asked, answers, posting, item, failures>>

TryNewItem ==
    /\ posting # None
    /\ item' = posting
    /\ posting' = None
    /\ UNCHANGED <<appearanceVars, formVars, asked, answers, creating, itemTypes, failures>>

-----------------------------------------------------------------------------
\* The answers.

LoadItemTypes_Append(k) == listed + k
LoadItemTypes(k) == k

OnItemTypes(k) ==
    /\ answers[k] > 0
    /\ answers' = [answers EXCEPT ![k] = @ - 1]
    /\ listed' = LoadItemTypes(k)
    /\ Update(k)
    /\ UNCHANGED <<appearanceVars, anchor, prototype, asked, creating, posting, tableVars, failures>>

OnComplete_Nothing == asked
OnComplete == asked + 1

OnNewType ==
    /\ creating # None /\ creating.stage = "stored"
    /\ creating' = None
    /\ asked' = OnComplete
    /\ UNCHANGED <<appearanceVars, formVars, answers, posting, tableVars, failures>>

\* A request or its answer is lost; none of them has a handler for that.
Fails ==
    /\ failures < MaxFailures
    /\ failures' = failures + 1
    /\ \/ asked > 0 /\ asked' = asked - 1 /\ UNCHANGED <<answers, creating, posting>>
       \/ \E k \in DOMAIN answers :
             /\ answers[k] > 0 /\ answers' = [answers EXCEPT ![k] = @ - 1]
             /\ UNCHANGED <<asked, creating, posting>>
       \/ creating # None /\ creating' = None /\ UNCHANGED <<asked, answers, posting>>
       \/ posting # None /\ posting' = None /\ UNCHANGED <<asked, answers, creating>>
    /\ UNCHANGED <<appearanceVars, formVars, tableVars>>

\* The appearance component stands beside the menus.
Appear ==
    /\ \E p \in DOMAIN Parts :
          \/ Toggle(p)
          \/ \E m \in Materials(p), c \in Colors : Slide(p, m, c)
    /\ UNCHANGED <<formVars, requestVars, tableVars, failures>>

Player ==
    \/ Open \/ Close \/ New \/ Back \/ Ok \/ Appear
    \/ \E n \in Names : SelectChange(n) \/ CreateItemType(n)
    \/ \E p \in Properties : AddProperty(p)
Server == SelectItemTypes \/ TryItemType \/ TryNewItem
Next ==
    \/ Player \/ Server \/ OnNewType \/ Fails
    \/ \E k \in DOMAIN answers : OnItemTypes(k)

Spec == Init /\ [][Next]_vars

\* The HTTP server answers and the answers are handled.
Fairness ==
    /\ WF_vars(SelectItemTypes) /\ WF_vars(TryItemType) /\ WF_vars(TryNewItem)
    /\ WF_vars(OnNewType)
    /\ \A k \in 1..MaxTypes : WF_vars(OnItemTypes(k))
FairSpec == Spec /\ Fairness

-----------------------------------------------------------------------------
Keys == Properties \cup {"name"}
ItemType == [name : Names, keys : SUBSET Keys]

\* Types of the variables (items.js, the fields of both forms).
TypeOK ==
    /\ on \in [DOMAIN Parts -> BOOLEAN]
    /\ DOMAIN slider = DOMAIN Parts
    /\ \A p \in DOMAIN Parts : slider[p] \in [Materials(p) -> Triples]
    /\ anchor \in {"open", "close"} /\ menu \in {"none", "items", "types"}
    /\ itemTypes \in Seq(ItemType) /\ Len(itemTypes) <= MaxTypes
    /\ listed \in 0..Len(itemTypes)
    /\ select \in Names \cup {NoName} /\ inputs \subseteq Keys
    /\ prototype \subseteq Keys /\ shown \subseteq Properties
    /\ asked \in Nat /\ answers \in [1..MaxTypes -> Nat]
    /\ \/ creating = None
       \/ creating \in [stage : {"sent", "stored"}, type : ItemType]
    /\ failures \in 0..MaxFailures

\* Each stored item has exactly the keys of one of the stored types and names
\* it (unless a property called type hides its name), or it has neither type
\* nor keys, which is what Ok makes of a form that has no types to show.  The
\* inputs are those of the option the menu shows, whatever answer rendered it
\* and whatever was selected before (items.js, update, registerOkButton).
ItemOfType ==
    item # None =>
        \/ item.keys = {} /\ item.type = NoName
        \/ \E i \in DOMAIN itemTypes :
              /\ item.keys = itemTypes[i].keys
              /\ item.type = IF "type" \in item.keys THEN Typed ELSE itemTypes[i].name

\* The properties a new type would be stored with are those its menu lists,
\* however the menus were opened, left and overrun by answers (items.js, reset,
\* registerAddPropertyButton).
PropertiesAsShown == menu = "types" => prototype = shown

\* While the link closes there is a menu to close, so that a click on it never
\* goes by without effect (items.js, onOpenClick, onCloseClick).
CloseHasMenu == anchor = "close" => menu # "none"

\* A type the server has stored comes to be listed, whether or not the answer
\* to the request that follows its creation was overtaken by the insertion
\* (items.js, onComplete; app.js, createForms).
NewTypeIsListed ==
    \A i \in 1..MaxTypes :
        <>(Len(itemTypes) >= i) => <>(listed >= i \/ failures > 0)
=============================================================================
