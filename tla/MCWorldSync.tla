----------------------------- MODULE MCWorldSync -----------------------------
(***************************************************************************)
(* WorldSync for TLC.  Only the clients in Observers come to run a world;  *)
(* the others connect, have an entity on the server, and leave.  What one  *)
(* world sees of the others is their entities, so one observer among       *)
(* several clients meets everything that can happen to a client, except    *)
(* that another one moves: for that two of them observe.                   *)
(***************************************************************************)
EXTENDS WorldSync, TLC

CONSTANTS Observers,      \* bound: the clients whose worlds run
          ObserversStay,  \* bound: whether they stay connected for good
          Late            \* bound: bystanders that come to the observers' worlds
                          \* when the others have left and nobody moves, and stay

Bystanders == Clients \ Observers

\* A bystander connects, is accepted, leaves, and its connection ends.  Its
\* login packet is not handled: the reply would concern nobody else.
MCNext == /\ Next
          /\ \A c \in Bystanders :
                <<phase'[c], handler'[c]>> \in
                   {<<"menu", "none">>, <<"login", "none">>, <<"login", "open">>,
                    <<"gone", "open">>, <<"gone", "ended">>}
          /\ \A c \in Bystanders : handler'[c] = "open" => c2s'[c] # <<>>
          /\ \A c \in Late, b \in Bystanders \ Late, o \in Observers :
                phase'[c] # "menu" => phase'[b] = "gone" /\ own'[o] # 0
          /\ \A c \in Late, o \in Observers :
                phase'[c] # "menu" => phase'[c] # "gone" /\ PathsUnderWay(o)' = 0
          /\ ObserversStay => \A c \in Observers :
                phase'[c] # "gone" /\ handler'[c] # "ended"
MCSpec == Init /\ [][MCNext]_vars

\* Of the bystanders nothing is asked that MCNext does not let them do.
MCFairSpec ==
    /\ MCSpec
    /\ \A c \in Observers : FairClient(c)
    /\ \A c \in Bystanders : WF_vars(Accept(c) \/ ReadClosed(c))

\* Bystanders are alike when none of them is late.
BystanderSymmetry == Permutations(Bystanders)
=============================================================================
