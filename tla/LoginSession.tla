----------------------------- MODULE LoginSession -----------------------------
(***************************************************************************)
(* What the login promises the two ends of one connection, with no network *)
(* and no threads in it.  The server lets in one user at most and stays    *)
(* with him; the client, which may send the form as often as it likes and  *)
(* may be late, learns who it is once, and is never anybody else.          *)
(* NativeLogin implements this module.                                     *)
(***************************************************************************)
CONSTANTS Users,   \* accounts of the table LOGIN; each is its own userid
          NoUser   \* userid 0

VARIABLES admitted,   \* the user the server has let in, or NoUser
          believed    \* the user the client takes itself for, or NoUser

vars == <<admitted, believed>>

Init == admitted = NoUser /\ believed = NoUser

\* The server finds the account and its password.
Admit(u) ==
    /\ admitted = NoUser
    /\ admitted' = u
    /\ UNCHANGED believed

\* The client hears of it.
Learn ==
    /\ believed = NoUser
    /\ believed' = admitted
    /\ UNCHANGED admitted

Next == Learn \/ \E u \in Users : Admit(u)

Spec == Init /\ [][Next]_vars
=============================================================================
