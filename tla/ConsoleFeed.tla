----------------------------- MODULE ConsoleFeed -----------------------------
(***************************************************************************)
(* The console of the web page and the table it is read from.              *)
(*                                                                         *)
(* Every packet the game server logs and every message a player sends      *)
(* becomes a row of the CONSOLE table; nobody deletes rows, so the ids are *)
(* 1..rows.  The page (app.js) shows the newest rows after the login,      *)
(* older ones with the More button, and polls for new ones, which the New  *)
(* button fetches.  The threads of the HTTP server answer its requests     *)
(* with several statements each (LoginServer.cpp, Database.cpp), and rows  *)
(* are inserted between any two of these.                                  *)
(*                                                                         *)
(* A page has one request of each kind under way at most, except for New,  *)
(* which can be pressed again before its answer: News holds a slot for     *)
(* each of these.  One page is modelled; it logs in once.  The rows New    *)
(* puts above the others are looked at where the server selects them, and  *)
(* not kept.                                                               *)
(***************************************************************************)
EXTENDS Integers, FiniteSets

CONSTANTS MaxRows,      \* bound: rows the table may come to have
          FirstRows,    \* the rows it may have when the page logs in
          PageSize,     \* rows a page shows, 10 in the code
          Word,         \* 2^32: what a UInt32 counts modulo
          News,         \* the slots for requests of the New button
          MaxFailures   \* bound: requests that get no usable answer

ASSUME ConsoleAssumption ==
    /\ MaxRows \in Nat
    /\ FirstRows \subseteq 0..MaxRows
    /\ Word \in Nat /\ Word > 2 * MaxRows
    /\ PageSize \in 1..(Word - 1)
    /\ News \cap {"console", "more", "max"} = {}
    /\ MaxFailures \in Nat

Slots == {"console", "more", "max"} \cup News

VARIABLES
    rows,      \* SELECT MAX(ID) FROM CONSOLE
    req,       \* req[s]: the request in slot s, and how far the server is
    failures,  \* how many requests have failed
    first,     \* the newest row when the page logged in
    older,     \* the rows of console and more, from the top down
    dbMax,     \* app.updater.db.max
    poller,    \* app.updater: off, waiting for its timeout, asking, or dead
    newShown,  \* the New button is visible and has its handler
    upTo,      \* app.news.nextData.upper
    more,      \* the More button: off, idle, busy, hidden, or dead
    cursor     \* app.more.queue's page: what the next request sends

feedVars == <<older, dbMax, poller, newShown, upTo, more, cursor>>
vars == <<rows, req, failures, first, feedVars>>

NoRequest == [stage |-> "none", upper |-> 0, offset |-> 0, nRows |-> 0,
              max |-> 0, page |-> {}]
Ids == 0..(Word - 1)
Request == [stage : {"none", "sent", "bounds", "max", "answered"}, upper : Ids,
            offset : Ids, nRows : Ids, max : Ids, page : SUBSET (1..MaxRows)]
Cursor == [upper : Ids, offset : Ids]

(***************************************************************************)
(* Types; the numbers a request carries fit a UInt32.                      *)
(***************************************************************************)
TypeOK ==
    /\ rows \in 0..MaxRows
    /\ req \in [Slots -> Request]
    /\ failures \in 0..MaxFailures
    /\ first \in 0..MaxRows
    /\ older \subseteq 1..rows
    /\ dbMax \in 0..rows
    /\ poller \in {"off", "waiting", "asking", "dead"}
    /\ newShown \in BOOLEAN
    /\ upTo \in 0..rows
    /\ more \in {"off", "idle", "busy", "hidden", "dead"}
    /\ cursor \in Cursor

Init ==
    /\ rows \in FirstRows
    /\ req = [s \in Slots |-> NoRequest]
    /\ failures = 0
    /\ first = rows
    /\ older = {}
    /\ dbMax = 0
    /\ poller = "off"
    /\ newShown = FALSE
    /\ upTo = 0
    /\ more = "off"
    /\ cursor = [upper |-> 0, offset |-> 0]

-----------------------------------------------------------------------------
(***************************************************************************)
(* The table and the threads of the HTTP server.                           *)
(***************************************************************************)

\* Console::Print from the game's reactor thread: a packet or a message.
Insert ==
    /\ rows < MaxRows
    /\ rows' = rows + 1
    /\ UNCHANGED <<req, failures, first, feedVars>>

ServerOnly == UNCHANGED <<rows, failures, first, feedVars>>

\* From the greatest id to the upper bound the page sent with new; for more,
\* the offset grows by what was inserted since the page before.
NewRows_Swapped(max, upper) == upper - max
NewRows_Long(max, upper) == (max - upper) + 1
NewRows(max, upper) == max - upper
MoreOffset(r) == r.offset + (rows - r.upper)

\* LoginHTTPRequest::Console: the first of its statements.
ReadBounds(s) ==
    /\ s # "max"
    /\ req[s].stage = "sent"
    /\ LET r == req[s]
           bounded == r.upper # 0 /\ rows # 0
           n == IF bounded /\ s \in News THEN NewRows(rows, r.upper) ELSE PageSize
           o == IF ~bounded THEN r.offset
                ELSE IF s \in News THEN 0 ELSE MoreOffset(r)
       IN  req' = [req EXCEPT ![s] = [r EXCEPT !.stage = "bounds", !.nRows = n,
                                               !.offset = o]]
    /\ ServerOnly

\* Select::TryConsole: its own reading of the greatest id.  An empty table
\* or an offset beyond it is answered with {}.
ReadMax(s) ==
    /\ req[s].stage = "bounds"
    /\ req' = [req EXCEPT ![s].max = rows,
                          ![s].stage = IF rows = 0 \/ rows - req[s].offset < 0
                                       THEN "answered" ELSE "max"]
    /\ ServerOnly

\* ORDER BY ID DESC LIMIT n OFFSET o
Rows(n, o) == {i \in 1..rows : i <= rows - o /\ i > rows - o - n}
Lowest(S) == CHOOSE i \in S : \A j \in S : i <= j

\* The rows, the offset for the request that continues them, and {} for none.
FutureOffset_Short(max, page) == (max - Lowest(page)) % Word
FutureOffset_Long(max, page) == ((max - Lowest(page)) + 2) % Word
FutureOffset(max, page) == ((max - Lowest(page)) + 1) % Word

SelectRows(s) ==
    /\ req[s].stage = "max"
    /\ LET r == req[s]
           page == Rows(r.nRows, r.offset)
       IN  req' = [req EXCEPT ![s] =
                     [r EXCEPT !.stage = "answered", !.page = page,
                               !.upper = r.max,
                               !.offset = IF page = {} THEN 0
                                          ELSE FutureOffset(r.max, page)]]
    /\ ServerOnly

\* LoginHTTPRequest::MaxConsoleID.
MaxConsoleID ==
    /\ req["max"].stage = "sent"
    /\ rows # 0
    /\ req' = [req EXCEPT !["max"].max = rows, !["max"].stage = "answered"]
    /\ ServerOnly

-----------------------------------------------------------------------------
(***************************************************************************)
(* The page.                                                               *)
(***************************************************************************)

Send(s, upper, offset) ==
    req' = [req EXCEPT ![s] = [NoRequest EXCEPT !.stage = "sent", !.upper = upper,
                                                !.offset = offset]]
Answer(s) == req[s].stage = "answered" /\ req' = [req EXCEPT ![s] = NoRequest]

\* app.login: once the login is answered, the console is asked for.
Login ==
    /\ poller = "off"
    /\ req["console"].stage = "none"
    /\ Send("console", 0, 0)
    /\ first' = rows
    /\ UNCHANGED <<rows, failures, feedVars>>

\* app.more.update: at the end of the table the button goes.
NextPage(r) ==
    IF r.page # {} /\ r.offset >= r.upper
    THEN more' = "hidden" /\ UNCHANGED cursor
    ELSE more' = "idle" /\ cursor' = [upper |-> r.upper, offset |-> r.offset]

\* The page is emptied, and the messages of the answer are put between New and More.
ShowConsole(page) == older' = page

\* app.init: what {} leaves undefined is not stored, and the next request does not send it.
OnConsole ==
    /\ Answer("console")
    /\ LET r == req["console"]
       IN  /\ ShowConsole(r.page)
           /\ dbMax' = IF r.page # {} THEN r.upper ELSE dbMax
           /\ IF r.page # {} THEN NextPage(r)
              ELSE more' = "idle" /\ cursor' = [upper |-> 0, offset |-> 0]
    /\ poller' = "waiting"
    /\ UNCHANGED <<rows, failures, first, newShown, upTo>>

\* The handler is unbound until the request is complete.
MoreButton_Bound == more
MoreButton == "busy"

ClickMore ==
    /\ more = "idle"
    /\ more' = MoreButton
    /\ Send("more", cursor.upper, cursor.offset)
    /\ UNCHANGED <<rows, failures, first, older, dbMax, poller, newShown, upTo,
                   cursor>>

OnMore ==
    /\ Answer("more")
    /\ LET r == req["more"]
       IN  /\ older' = older \cup r.page
           /\ IF r.page # {} THEN NextPage(r)
              ELSE more' = "hidden" /\ UNCHANGED cursor
    /\ UNCHANGED <<rows, failures, first, dbMax, poller, newShown, upTo>>

\* app.updater: two seconds after the last answer.
Poll ==
    /\ poller = "waiting"
    /\ poller' = "asking"
    /\ Send("max", 0, 0)
    /\ UNCHANGED <<rows, failures, first, older, dbMax, newShown, upTo, more, cursor>>

\* app.news.update runs before db.max is moved on, so that New loads from
\* the old one; while the button is shown, its bound stays.
Bound_Moved(max) == max
Bound(max) == dbMax

\* app.updater.init calls itself again after every answer.
Rearm_OnNews(max) == IF max > dbMax THEN "waiting" ELSE poller
Rearm(max) == "waiting"

NextMax_Once(max) == IF newShown THEN dbMax ELSE max
NextMax(max) == max

OnMax ==
    /\ Answer("max")
    /\ LET max == req["max"].max
       IN  IF max > dbMax /\ dbMax # 0
           THEN /\ dbMax' = NextMax(max)
                /\ newShown' = TRUE
                /\ upTo' = IF newShown THEN upTo ELSE Bound(max)
           ELSE UNCHANGED <<dbMax, newShown, upTo>>
    /\ poller' = Rearm(req["max"].max)
    /\ UNCHANGED <<rows, failures, first, older, more, cursor>>

ClickNew(s) ==
    /\ newShown
    /\ req[s].stage = "none"
    /\ newShown' = FALSE
    /\ Send(s, upTo, 0)
    /\ UNCHANGED <<rows, failures, first, older, dbMax, poller, upTo, more, cursor>>

\* The button is put back above the new rows, hidden and without a handler,
\* even when a poll has shown it again since the click.
OnNew(s) ==
    /\ Answer(s)
    /\ newShown' = FALSE
    /\ UNCHANGED <<rows, failures, first, older, dbMax, poller, upTo, more, cursor>>

\* A request fails, or, for the greatest id of an empty table, is answered
\* with nothing: done is not called, so the poller never sets its timeout
\* again and the More button gets no handler.
Fails(s) ==
    /\ req[s].stage # "none"
    /\ s # "console"
    /\ failures < MaxFailures
    /\ failures' = failures + 1
    /\ req' = [req EXCEPT ![s] = NoRequest]
    /\ poller' = IF s = "max" THEN "dead" ELSE poller
    /\ more' = IF s = "more" THEN "dead" ELSE more
    /\ UNCHANGED <<rows, first, older, dbMax, newShown, upTo, cursor>>

EmptyMax ==
    /\ req["max"].stage = "sent"
    /\ rows = 0
    /\ poller' = "dead"
    /\ req' = [req EXCEPT !["max"] = NoRequest]
    /\ UNCHANGED <<rows, failures, first, older, dbMax, newShown, upTo, more, cursor>>

-----------------------------------------------------------------------------
Server(s) == ReadBounds(s) \/ ReadMax(s) \/ SelectRows(s)

Answers == OnConsole \/ OnMore \/ OnMax \/ \E s \in News : OnNew(s)

Next ==
    \/ Insert
    \/ \E s \in Slots : Server(s) \/ Fails(s)
    \/ MaxConsoleID \/ EmptyMax
    \/ Login \/ Poll \/ ClickMore
    \/ \E s \in News : ClickNew(s)
    \/ Answers

Spec == Init /\ [][Next]_vars

(***************************************************************************)
(* The server answers, the page's timeouts and callbacks run, and a player *)
(* logs in and keeps pressing More as long as it is there.                 *)
(***************************************************************************)
Fairness ==
    /\ \A s \in Slots : WF_vars(Server(s))
    /\ WF_vars(MaxConsoleID) /\ WF_vars(EmptyMax)
    /\ WF_vars(OnConsole) /\ WF_vars(OnMore) /\ WF_vars(OnMax)
    /\ \A s \in News : WF_vars(OnNew(s))
    /\ WF_vars(Login) /\ WF_vars(Poll) /\ WF_vars(ClickMore)

FairSpec == Spec /\ Fairness

-----------------------------------------------------------------------------
(***************************************************************************)
(* Properties.                                                             *)
(***************************************************************************)

\* The id from which the next page goes down: one below the last page.
NextId == (cursor.upper - cursor.offset)

(***************************************************************************)
(* However many rows come in between the clicks and between the statements *)
(* of a request, More skips none: what lies above the next page and was    *)
(* there at the login is on the page, and when the button is gone so is    *)
(* everything else.                                                        *)
(***************************************************************************)
MoreLeavesNoGap ==
    /\ more \in {"idle", "busy", "dead"} /\ dbMax # 0 =>
          \A i \in (NextId + 1)..first : i \in older
    /\ more = "hidden" => 1..first \subseteq older

(***************************************************************************)
(* A click of More cannot ask for a page twice: while a request is under   *)
(* way the button does nothing.                                            *)
(***************************************************************************)
OneMore == more = "idle" => req["more"].stage = "none"

(***************************************************************************)
(* The New button shows only while there is something new: a row that came *)
(* in after the bound its request will send.                               *)
(***************************************************************************)
NewIsNews == newShown => upTo < dbMax /\ upTo # 0

(***************************************************************************)
(* Neither the poller nor the More button waits for an answer that is not  *)
(* on its way, and unless a request fails neither stops for good, but the  *)
(* poller of a page that found no row at its login.                        *)
(***************************************************************************)
NothingHangs ==
    /\ poller = "asking" => req["max"].stage # "none"
    /\ more = "busy" => req["more"].stage # "none"
    /\ failures = 0 => more # "dead" /\ (poller = "dead" => dbMax = 0)

(***************************************************************************)
(* What New returns is never empty and lies above the bound, whatever came *)
(* in since; it is everything above the bound unless a row came in between *)
(* the statements of the request.                                          *)
(***************************************************************************)
NewLoadsNews ==
    [][\A s \in News : SelectRows(s) =>
          LET r == req[s] IN
          /\ req'[s].page # {} /\ req'[s].page \subseteq (r.upper + 1)..rows
          /\ r.upper + r.nRows = rows => req'[s].page = (r.upper + 1)..rows]_vars

(***************************************************************************)
(* What was in the table at the login comes to be shown, unless a request  *)
(* fails: nothing sends one again.                                         *)
(***************************************************************************)
AllOlderShown ==
    \A i \in 1..MaxRows :
        (poller # "off" /\ i <= first) ~> (i \in older \/ failures > 0)

(***************************************************************************)
(* A page that found a row at its login gets to know of every later one,   *)
(* unless a request fails.                                                 *)
(***************************************************************************)
PollCatchesUp ==
    \A i \in 1..MaxRows : (dbMax # 0 /\ i <= rows) ~> (i <= dbMax \/ failures > 0)

(***************************************************************************)
(* "Load from maxID to upperID": New returns every row above the bound.    *)
(***************************************************************************)
NewLoadsToUpper ==
    [][\A s \in News : SelectRows(s) =>
          (req[s].max > 0 => (req[s].upper + 1)..req[s].max \subseteq req'[s].page)]_vars

(***************************************************************************)
(* "Next row to select is non-existent": More is hidden at the end only.   *)
(***************************************************************************)
HiddenAtEnd == more = "hidden" => 1 \in older
=============================================================================
