------------------------------ MODULE WorldView ------------------------------
(***************************************************************************)
(* What the world synchronisation promises a player, with no network in    *)
(* it.  The server issues session ids and retires them; every client that  *)
(* is present in the world shows a set of ids.  A client may be late in    *)
(* both directions, but it never shows an id that was not issued, and it   *)
(* never stops showing an id that is still live.  WorldSync implements     *)
(* this module.                                                            *)
(***************************************************************************)
EXTENDS Naturals

CONSTANTS Clients,   \* the game clients
          MaxId      \* how many session ids the server may issue

VARIABLES lastId,    \* the id issued last
          live,      \* the ids of the entities the server holds
          present,   \* the clients that are in the world
          view       \* view[c]: the ids client c shows

vars == <<lastId, live, present, view>>

Init == /\ lastId = 0
        /\ live = {}
        /\ present = {}
        /\ view = [c \in Clients |-> {}]

\* The server accepts a connection and issues the next id.
Issue == /\ lastId < MaxId
         /\ lastId' = lastId + 1
         /\ live' = live \cup {lastId + 1}
         /\ UNCHANGED <<present, view>>

\* The server retires the entity of a connection that ended.
Retire(i) == /\ i \in live
             /\ live' = live \ {i}
             /\ UNCHANGED <<lastId, present, view>>

Enter(c) == /\ c \notin present
            /\ present' = present \cup {c}
            /\ UNCHANGED <<lastId, live, view>>

\* A client that leaves shows nothing any more.
Leave(c) == /\ present' = present \ {c}
            /\ view' = [view EXCEPT ![c] = {}]
            /\ UNCHANGED <<lastId, live>>

\* A frame of client c starts to show issued ids, live or no longer live.
Show(c) == /\ c \in present
           /\ \E S \in SUBSET (1..lastId) :
                 view' = [view EXCEPT ![c] = @ \cup S]
           /\ UNCHANGED <<lastId, live, present>>

\* A frame of client c stops showing ids, and only ids that are not live.
Hide(c) == /\ c \in present
           /\ \E S \in SUBSET view[c] :
                 /\ S \cap live = {}
                 /\ view' = [view EXCEPT ![c] = @ \ S]
           /\ UNCHANGED <<lastId, live, present>>

Next == \/ Issue
        \/ \E i \in live : Retire(i)
        \/ \E c \in Clients : Enter(c) \/ Leave(c) \/ Show(c) \/ Hide(c)

Spec == Init /\ [][Next]_vars
=============================================================================
