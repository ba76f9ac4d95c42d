----------------------------- MODULE PacketChannel -----------------------------
(***************************************************************************)
(* What the handlers of one end may rely on: they are called with the      *)
(* packets of the other end, each once and in the order they were sent,    *)
(* until the connection tears.  Nothing is promised after that, but what   *)
(* has been handled stays handled.                                         *)
(***************************************************************************)
EXTENDS Naturals, Sequences

VARIABLES
    count,      \* packets sent, numbered from 1
    handled,    \* the packets handled
    torn        \* a packet boundary has been lost

vars == <<count, handled, torn>>

Init == count = 0 /\ handled = <<>> /\ torn = FALSE

Send == count' = count + 1 /\ UNCHANGED <<handled, torn>>

Handle ==
    /\ ~torn /\ Len(handled) < count
    /\ handled' = Append(handled, Len(handled) + 1)
    /\ UNCHANGED <<count, torn>>

Tear == torn' = TRUE /\ UNCHANGED <<count, handled>>

\* What is read may be handled once more while it tears, and at will after.
Astray ==
    /\ torn'
    /\ handled' \in Seq(Nat) /\ Len(handled') = Len(handled) + 1
    /\ handled = SubSeq(handled', 1, Len(handled))
    /\ UNCHANGED count

Next == Send \/ Handle \/ Tear \/ Astray
Spec == Init /\ [][Next]_vars
=============================================================================
