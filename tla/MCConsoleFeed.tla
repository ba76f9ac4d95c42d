---------------------------- MODULE MCConsoleFeed ----------------------------
(***************************************************************************)
(* ConsoleFeed for TLC.  Between the two last statements of one request    *)
(* the table grows by a page at most: beyond that FutureOffset wraps       *)
(* around, which the run console_wrap shows for the code's page size.      *)
(* Before the login the table grows as it likes, so that the page meets    *)
(* every number of rows.                                                   *)
(***************************************************************************)
EXTENDS ConsoleFeed

CONSTANT MaxNew      \* bound: rows that come in after the login

Slow == \A s \in Slots : req'[s].stage = "max" => rows' - req'[s].max <= PageSize
SlowSpec == Init /\ [][Next /\ Slow]_vars

MCNext ==
    /\ Next /\ Slow
    /\ poller' # "off" => rows' - first' <= MaxNew
MCSpec == Init /\ [][MCNext]_vars
MCFairSpec == MCSpec /\ Fairness
=============================================================================
