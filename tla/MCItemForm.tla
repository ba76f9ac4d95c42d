------------------------------ MODULE MCItemForm ------------------------------
(***************************************************************************)
(* ItemForm for TLC.  Every setting of the toggles and sliders is reached  *)
(* before the form opens; the form itself only reads the appearance when   *)
(* it posts, so it is opened with one setting, every part switched on and  *)
(* no slider moved.  The first type is a sword without properties, the     *)
(* second a sword or an axe with one.  One item is stored.                 *)
(***************************************************************************)
EXTENDS ItemForm

\* A part of one material and a part of two.
TwoParts == << <<<<0, 0, 1>>>>, <<<<0, 0, 1>>, <<0, 1, 1>>>> >>
TwoColors == {<<0, 1, 1>>, <<1, 1, 1>>}

Sword == [name |-> "sword", keys |-> {"name"}]

Unopened == anchor = "open" /\ menu = "none" /\ asked = 0 /\ itemTypes = <<>> /\ failures = 0
Untouched == \A p \in DOMAIN Parts : \A m \in Materials(p) : slider[p][m] = Initial(Parts[p][m])
MCNext ==
    /\ Next
    /\ item # None => posting' = None
    /\ creating = None /\ creating' # None =>
          IF itemTypes = <<>> THEN creating'.type = Sword ELSE creating'.type.keys # {"name"}
    /\ IF Unopened THEN anchor' = "close" => Untouched /\ \A p \in DOMAIN Parts : on[p]
                   ELSE UNCHANGED appearanceVars
MCSpec == Init /\ [][MCNext]_vars /\ Fairness
=============================================================================
