---------------------------- MODULE AppearanceForm ----------------------------
(***************************************************************************)
(* The appearance component of the console page                            *)
(* (src/Server/Plugins/Web/app/components.appearance.js): toggles and      *)
(* sliders for every part of appearance.xml, and the appearance that is    *)
(* put together from them for a new item.                                  *)
(*                                                                         *)
(* A part is the sequence of the colours of its materials in the default   *)
(* style.  A colour is a triple of levels.  The parts stand in the order   *)
(* in which Model visits them, slots and meshes flattened.  The page tells *)
(* parts apart by their text; no two parts of appearance.xml are equal, so *)
(* a part is its place here.                                               *)
(***************************************************************************)
EXTENDS Naturals, FiniteSets, SequencesExt

CONSTANTS
    Levels,     \* what one slider can show
    Colors,     \* colours a player sets the sliders to
    Parts       \* the parts of appearance.xml, their materials' colours

Triples == Levels \X Levels \X Levels

ASSUME AppearanceAssumption ==
    Colors \subseteq Triples /\ Parts \in Seq(Seq(Triples))

VARIABLES
    on,         \* states.on of every part
    slider      \* what the sliders of every material show

appearanceVars == <<on, slider>>

Materials(p) == DOMAIN Parts[p]

\* The page's template gives the third slider the level of the second.
Initial(c) == <<c[1], c[2], c[2]>>

AppearanceInit ==
    /\ on = [p \in DOMAIN Parts |-> FALSE]
    /\ slider = [p \in DOMAIN Parts |-> [m \in Materials(p) |-> Initial(Parts[p][m])]]

Toggle(p) ==
    /\ on' = [on EXCEPT ![p] = ~@]
    /\ UNCHANGED slider

Slide(p, m, c) ==
    /\ slider' = [slider EXCEPT ![p][m] = c]
    /\ UNCHANGED on

-----------------------------------------------------------------------------
\* The appearance: a style, which is a set of numbered colours, and, for each
\* part that is on, the number of each of its materials.  next is the number
\* the next colour gets, so that the style's numbers follow its order.

Empty == [style |-> {}, next |-> 0, numbers |-> [p \in {} |-> <<>>]]

\* The numbers of the style's entries that have the colour of material m.
Same(d, p, m) == {e.number : e \in {x \in d.style : x.color = slider[p][m]}}

\* The materials of part p whose colour the style has not got.
Fresh(d, p) == {m \in Materials(p) : Same(d, p, m) = {}}

Rank(d, p, m) == Cardinality({l \in Fresh(d, p) : l < m})
NewNumber_PerPart(d, p, m) == Rank(d, p, m)
NewNumber(d, p, m) == d.next + Rank(d, p, m)

NewColors(d, p) ==
    {[color |-> slider[p][m], number |-> NewNumber(d, p, m)] : m \in Fresh(d, p)}

\* A colour the style has is used again, by its first entry; the others get
\* numbers of their own, after all the part's materials have been compared.
Number(d, p, m) ==
    IF m \in Fresh(d, p) THEN NewNumber(d, p, m) ELSE Min(Same(d, p, m))

AddPart(d, p) ==
    IF ~on[p] THEN d
    ELSE [style   |-> d.style \cup NewColors(d, p),
          next    |-> d.next + Cardinality(Fresh(d, p)),
          numbers |-> [q \in DOMAIN d.numbers \cup {p} |->
                          IF q = p THEN [m \in Materials(p) |-> Number(d, p, m)]
                                   ELSE d.numbers[q]]]

Data == FoldLeftDomain(AddPart, Empty, Parts)

\* The appearance of a new item has exactly the parts that are on, and the
\* number of each of their materials stands for one colour of the style, the
\* one its sliders show: no two colours share a number, although colours are
\* shared between parts (components.appearance.js, data).
DataResolves ==
    LET data == Data IN
    /\ DOMAIN data.numbers = {p \in DOMAIN Parts : on[p]}
    /\ \A p \in DOMAIN data.numbers : \A m \in Materials(p) :
          /\ \E e \in data.style : e.number = data.numbers[p][m]
          /\ \A e \in data.style :
                e.number = data.numbers[p][m] => e.color = slider[p][m]
=============================================================================
