--------------------------- MODULE ConsoleFeedProofs ---------------------------
(***************************************************************************)
(* Theorems about ConsoleFeed, for a table of any size, pages of any size, *)
(* any number of requests of the New button and any number of failures.    *)
(* That More leaves no gap is proved for a table that grows by a page at   *)
(* most between the two last statements of a request (SlowSpec): without   *)
(* that an offset wraps around, and it does not hold (run console_wrap).   *)
(***************************************************************************)
EXTENDS MCConsoleFeed, TLAPS

Pages == {"console", "more"}

\* Which requests can be under way, by the state of the page.
Control ==
    /\ req["console"].stage # "none" => poller = "off"
    /\ req["max"].stage # "none" <=> poller = "asking"
    /\ req["more"].stage # "none" <=> more = "busy"
    /\ poller = "off" <=> more = "off"
    /\ poller = "off" => ~newShown /\ dbMax = 0

\* What the numbers of the page and of a request are at each stage of it.
Bounds ==
    /\ first <= rows
    /\ cursor.offset <= cursor.upper /\ cursor.upper <= rows
    /\ \A s \in Slots : req[s].upper <= rows /\ req[s].max <= rows /\ req[s].page \subseteq 1..rows
    /\ req["console"].stage = "sent" => req["console"].upper = 0 /\ req["console"].offset = 0
    /\ req["console"].stage \in {"bounds", "max"} => req["console"].offset = 0
    /\ req["more"].stage = "sent" =>
          req["more"].upper = cursor.upper /\ req["more"].offset = cursor.offset
    /\ \A s \in Pages : req[s].stage \in {"bounds", "max"} =>
          req[s].nRows = PageSize /\ req[s].offset <= rows
    /\ \A s \in Pages : req[s].stage = "max" => req[s].max > 0
    /\ \A s \in Slots : req[s].stage # "answered" => req[s].page = {}

\* No offset has wrapped around, nor will.
Recent ==
    /\ \A s \in Pages : req[s].stage = "max" => rows - req[s].max <= PageSize
    /\ \A s \in Pages : req[s].stage = "answered" => req[s].offset <= req[s].upper

\* The page of an answered request, and the request that continues it, leave
\* no row out from the given one down.
Follows(r, top) ==
    /\ r.page # {}
    /\ \A i \in (r.upper - r.offset + 1)..top : i \in r.page

\* What is still to be asked for lies below what is shown, at every stage of
\* the request that asks for it.
Gap ==
    /\ dbMax = 0 /\ more # "off" => first = 0
    /\ dbMax # 0 /\ more \in {"idle", "busy", "dead"} =>
          NextId > 0 /\ \A i \in (NextId + 1)..first : i \in older
    /\ more = "hidden" => \A i \in 1..first : i \in older
    /\ dbMax # 0 /\ req["more"].stage \in {"bounds", "max"} =>
          rows - req["more"].offset >= NextId
    /\ dbMax # 0 /\ req["more"].stage = "answered" => Follows(req["more"], NextId)
    /\ req["console"].stage = "answered" =>
          IF req["console"].page = {} THEN first = 0
          ELSE req["console"].upper > 0 /\ Follows(req["console"], first)
    /\ req["console"].stage = "max" => first <= req["console"].max

\* Without a failure only a poller that asked an empty table has stopped.
Alive == failures = 0 => more # "dead" /\ (poller = "dead" => dbMax = 0)

\* A request of New asks for rows above its bound, as many as there were when
\* its first statement counted them.
NewsAsked ==
    \A s \in News :
        /\ req[s].stage \in {"sent", "bounds", "max"} =>
              req[s].upper # 0 /\ req[s].upper < rows
        /\ req[s].stage \in {"bounds", "max"} =>
              req[s].offset = 0 /\ req[s].nRows > 0 /\ req[s].upper + req[s].nRows <= rows

Inv == TypeOK /\ Control /\ Bounds /\ NewIsNews /\ Alive /\ NewsAsked
SlowInv == Inv /\ Recent /\ Gap

-----------------------------------------------------------------------------
LEMMA Remainder ==
    ASSUME NEW x \in Int
    PROVE  x % Word \in Ids /\ (x \in Ids => x % Word = x)
BY ConsoleAssumption DEF Ids

LEMMA SlotFacts ==
    /\ "console" \in Slots /\ "more" \in Slots /\ "max" \in Slots
    /\ News \subseteq Slots
    /\ \A s \in News : s # "console" /\ s # "more" /\ s # "max"
    /\ 0 \in Ids /\ 0..MaxRows \subseteq Ids /\ PageSize \in Ids /\ PageSize > 0
    /\ MaxRows \in Nat /\ MaxFailures \in Nat /\ Word \in Nat
    /\ NoRequest \in Request
BY ConsoleAssumption DEF Slots, Ids, NoRequest, Request

\* A page of n rows, n > 0, is an interval whose lowest row is 1 or more.
LEMMA PageFacts ==
    ASSUME rows \in Nat, NEW n \in Nat, NEW o \in Nat, n > 0, o < rows
    PROVE  LET page == Rows(n, o) IN
           /\ page # {} /\ Lowest(page) \in page
           /\ \A i \in Lowest(page)..(rows - o) : i \in page
           /\ Lowest(page) = 1 \/ Lowest(page) = rows - o - n + 1
<1> DEFINE page == Rows(n, o)
           lo == IF rows - o - n + 1 >= 1 THEN rows - o - n + 1 ELSE 1
<1>1. lo \in page /\ (\A i \in page : lo <= i) /\ lo \in Nat /\ \A i \in page : i \in Nat
  BY DEF Rows
<1>2. Lowest(page) \in page /\ \A i \in page : Lowest(page) <= i
  BY <1>1 DEF Lowest
<1>3. Lowest(page) = lo
  BY <1>1, <1>2
<1>4. \A i \in lo..(rows - o) : i \in page
  BY DEF Rows
<1> QED
  BY <1>2, <1>3, <1>4

\* What the future offset is when the table has grown by a page at most.
LEMMA OffsetFacts ==
    ASSUME TypeOK, NEW o \in Nat, NEW max \in 1..rows, rows - max <= PageSize, o < rows
    PROVE  LET page == Rows(PageSize, o)
           IN  /\ FutureOffset(max, page) = max - Lowest(page) + 1
               /\ FutureOffset(max, page) \in 0..max
<1> DEFINE page == Rows(PageSize, o)
<1>1. rows \in Nat /\ rows <= MaxRows /\ PageSize \in Nat /\ PageSize > 0
  BY SlotFacts, ConsoleAssumption DEF TypeOK
<1>2. Lowest(page) \in page /\ (Lowest(page) = 1 \/ Lowest(page) = rows - o - PageSize + 1)
  BY <1>1, PageFacts
<1>3. Lowest(page) \in 1..rows
  BY <1>1, <1>2 DEF Rows
<1>4. (max - Lowest(page)) + 1 \in 0..max
  BY <1>1, <1>2, <1>3
<1>5. (max - Lowest(page)) + 1 \in Ids
  BY <1>1, <1>4, ConsoleAssumption DEF Ids
<1> QED
  BY <1>4, <1>5, Remainder DEF FutureOffset

-----------------------------------------------------------------------------
(***************************************************************************)
(* Types.                                                                  *)
(***************************************************************************)
LEMMA RequestFields ==
    ASSUME TypeOK, NEW s \in Slots
    PROVE  /\ req[s] \in Request
           /\ req[s].stage \in {"none", "sent", "bounds", "max", "answered"}
           /\ req[s].upper \in Ids /\ req[s].offset \in Ids /\ req[s].nRows \in Ids
           /\ req[s].max \in Ids /\ req[s].page \subseteq 1..MaxRows
BY DEF TypeOK, Request

LEMMA InsertType ==
    ASSUME TypeOK, Insert
    PROVE  TypeOK'
BY ConsoleAssumption DEF TypeOK, Insert, feedVars

LEMMA ReadBoundsType ==
    ASSUME TypeOK, Bounds, NEW s \in Slots, ReadBounds(s)
    PROVE  TypeOK'
<1> DEFINE r == req[s]
           bounded == r.upper # 0 /\ rows # 0
           n == IF bounded /\ s \in News THEN NewRows(rows, r.upper) ELSE PageSize
           o == IF ~bounded THEN r.offset
                ELSE IF s \in News THEN 0 ELSE MoreOffset(r)
<1>1. r \in Request /\ r.upper \in Ids /\ r.offset \in Ids /\ r.upper <= rows
  BY RequestFields DEF Bounds
<1>2. rows \in Nat /\ rows <= MaxRows /\ rows \in Ids
  BY SlotFacts, ConsoleAssumption DEF TypeOK
<1>3. n \in Ids
  BY <1>1, <1>2, SlotFacts DEF NewRows, Ids
<1>4. o \in Ids
  <2>1. CASE bounded /\ s \notin News
    <3>1. s \in {"console", "more"} /\ r.stage = "sent"
      BY <2>1 DEF ReadBounds, Slots
    <3>2. r.offset <= r.upper
      BY <2>1, <3>1 DEF Bounds
    <3> QED
      BY <1>1, <1>2, <2>1, <3>2, SlotFacts DEF MoreOffset, Ids
  <2> QED
    BY <1>1, <2>1, SlotFacts
<1>5. [r EXCEPT !.stage = "bounds", !.nRows = n, !.offset = o] \in Request
  BY <1>1, <1>3, <1>4 DEF Request
<1>6. req' = [req EXCEPT ![s] = [r EXCEPT !.stage = "bounds", !.nRows = n, !.offset = o]]
  BY DEF ReadBounds
<1>7. req' \in [Slots -> Request]
  BY <1>5, <1>6 DEF TypeOK
<1> QED
  BY <1>7 DEF TypeOK, ReadBounds, ServerOnly, feedVars

LEMMA ReadMaxType ==
    ASSUME TypeOK, NEW s \in Slots, ReadMax(s)
    PROVE  TypeOK'
<1> DEFINE st == IF rows = 0 \/ rows - req[s].offset < 0 THEN "answered" ELSE "max"
<1>1. req' = [req EXCEPT ![s] = [req[s] EXCEPT !.max = rows, !.stage = st]]
  BY DEF ReadMax, TypeOK
<1>2. rows \in Ids
  BY SlotFacts DEF TypeOK
<1>3. [req[s] EXCEPT !.max = rows, !.stage = st] \in Request
  BY <1>2, RequestFields DEF Request
<1>4. req' \in [Slots -> Request]
  BY <1>1, <1>3 DEF TypeOK
<1> QED
  BY <1>4 DEF TypeOK, ReadMax, ServerOnly, feedVars

LEMMA SelectRowsType ==
    ASSUME TypeOK, NEW s \in Slots, SelectRows(s)
    PROVE  TypeOK'
<1> DEFINE r == req[s]
           page == Rows(r.nRows, r.offset)
           o == IF page = {} THEN 0 ELSE FutureOffset(r.max, page)
<1>1. r \in Request /\ r.max \in Int /\ r.max \in Ids /\ r.nRows \in Nat /\ r.offset \in Nat
  BY RequestFields DEF Ids
<1>2. page \subseteq 1..MaxRows /\ rows \in Nat
  BY <1>1, SlotFacts DEF Rows, TypeOK
<1>3. o \in Ids
  <2>1. CASE page = {}
    BY <2>1, SlotFacts
  <2>2. CASE page # {}
    <3>1. r.nRows > 0 /\ r.offset < rows
      BY <1>1, <1>2, <2>2 DEF Rows
    <3>2. Lowest(page) \in page
      BY <1>1, <1>2, <3>1, PageFacts
    <3>3. (r.max - Lowest(page)) + 1 \in Int
      BY <1>1, <1>2, <3>2
    <3> QED
      BY <2>2, <3>3, Remainder DEF FutureOffset
  <2> QED
    BY <2>1, <2>2
<1>4. [r EXCEPT !.stage = "answered", !.page = page, !.upper = r.max, !.offset = o] \in Request
  BY <1>1, <1>2, <1>3 DEF Request
<1>5. req' = [req EXCEPT ![s] = [r EXCEPT !.stage = "answered", !.page = page,
                                          !.upper = r.max, !.offset = o]]
  BY DEF SelectRows
<1>6. req' \in [Slots -> Request]
  BY <1>4, <1>5 DEF TypeOK
<1> QED
  BY <1>6 DEF TypeOK, SelectRows, ServerOnly, feedVars

LEMMA MaxConsoleIDType ==
    ASSUME TypeOK, MaxConsoleID
    PROVE  TypeOK'
<1>1. req' = [req EXCEPT !["max"] = [req["max"] EXCEPT !.max = rows, !.stage = "answered"]]
  BY SlotFacts DEF MaxConsoleID, TypeOK
<1>2. [req["max"] EXCEPT !.max = rows, !.stage = "answered"] \in Request
  BY SlotFacts, RequestFields DEF Request, TypeOK
<1>3. req' \in [Slots -> Request]
  BY <1>1, <1>2 DEF TypeOK
<1> QED
  BY <1>3 DEF TypeOK, MaxConsoleID, ServerOnly, feedVars

LEMMA SendType ==
    ASSUME TypeOK, NEW s \in Slots, NEW u \in Ids, NEW o \in Ids, Send(s, u, o)
    PROVE  req' \in [Slots -> Request]
<1>1. [NoRequest EXCEPT !.stage = "sent", !.upper = u, !.offset = o] \in Request
  BY SlotFacts DEF Request
<1> QED
  BY <1>1 DEF Send, TypeOK

LEMMA AnswerType ==
    ASSUME TypeOK, NEW s \in Slots, req' = [req EXCEPT ![s] = NoRequest]
    PROVE  req' \in [Slots -> Request]
BY SlotFacts DEF TypeOK

LEMMA NextPageType ==
    ASSUME TypeOK, NEW s \in Slots, NextPage(req[s])
    PROVE  more' \in {"idle", "hidden"} /\ cursor' \in Cursor
BY RequestFields DEF NextPage, TypeOK, Cursor

LEMMA OnConsoleType ==
    ASSUME TypeOK, Bounds, OnConsole
    PROVE  TypeOK'
<1>1. req' \in [Slots -> Request]
  BY AnswerType, SlotFacts DEF OnConsole, ShowConsole, Answer
<1>2. cursor' \in Cursor /\ more' \in {"idle", "hidden"}
  BY NextPageType, SlotFacts DEF OnConsole, ShowConsole, Cursor
<1>3. req["console"].page \subseteq 1..rows /\ req["console"].upper \in 0..rows
  BY RequestFields, SlotFacts DEF Bounds, Ids, TypeOK
<1> QED
  BY <1>1, <1>2, <1>3 DEF OnConsole, ShowConsole, TypeOK

LEMMA OnMoreType ==
    ASSUME TypeOK, Bounds, OnMore
    PROVE  TypeOK'
<1>1. req' \in [Slots -> Request]
  BY AnswerType, SlotFacts DEF OnMore, Answer
<1>2. cursor' \in Cursor /\ more' \in {"idle", "hidden"}
  BY NextPageType, SlotFacts DEF OnMore, TypeOK
<1>3. req["more"].page \subseteq 1..rows
  BY SlotFacts DEF Bounds
<1> QED
  BY <1>1, <1>2, <1>3 DEF OnMore, TypeOK

LEMMA OnMaxType ==
    ASSUME TypeOK, Bounds, OnMax
    PROVE  TypeOK'
<1>1. req' \in [Slots -> Request]
  BY AnswerType, SlotFacts DEF OnMax, Answer
<1>2. req["max"].max \in 0..rows
  BY RequestFields, SlotFacts DEF Bounds, Ids, TypeOK
<1>3. dbMax' \in 0..rows /\ newShown' \in BOOLEAN /\ upTo' \in 0..rows
  BY <1>2 DEF OnMax, NextMax, Bound, TypeOK
<1> QED
  BY <1>1, <1>3 DEF OnMax, Rearm, TypeOK

LEMMA SentType ==
    ASSUME TypeOK, Login \/ Poll \/ ClickMore \/ \E s \in News : ClickNew(s)
    PROVE  TypeOK'
<1>1. cursor.upper \in Ids /\ cursor.offset \in Ids /\ upTo \in Ids
  BY SlotFacts DEF TypeOK, Cursor
<1>2. req' \in [Slots -> Request]
  BY <1>1, SendType, SlotFacts DEF Login, Poll, ClickMore, ClickNew
<1>3. CASE Login
  BY <1>2, <1>3 DEF Login, TypeOK, feedVars
<1>4. CASE Poll
  BY <1>2, <1>4 DEF Poll, TypeOK
<1>5. CASE ClickMore
  BY <1>2, <1>5 DEF ClickMore, MoreButton, TypeOK
<1>6. CASE \E s \in News : ClickNew(s)
  BY <1>2, <1>6 DEF ClickNew, TypeOK
<1> QED
  BY <1>3, <1>4, <1>5, <1>6

LEMMA EndedType ==
    ASSUME TypeOK, EmptyMax \/ (\E s \in News : OnNew(s)) \/ (\E s \in Slots : Fails(s))
    PROVE  TypeOK'
<1>1. req' \in [Slots -> Request]
  BY AnswerType, SlotFacts DEF EmptyMax, OnNew, Answer, Fails
<1>2. CASE EmptyMax
  BY <1>1, <1>2 DEF EmptyMax, TypeOK
<1>3. CASE \E s \in News : OnNew(s)
  BY <1>1, <1>3 DEF OnNew, TypeOK
<1>4. CASE \E s \in Slots : Fails(s)
  <2>1. failures' \in 0..MaxFailures
    BY <1>4, SlotFacts DEF Fails, TypeOK
  <2> QED
    BY <1>1, <1>4, <2>1 DEF Fails, TypeOK
<1> QED
  BY <1>2, <1>3, <1>4

LEMMA TypeStep ==
    ASSUME TypeOK, Bounds, [Next]_vars
    PROVE  TypeOK'
<1>1. CASE UNCHANGED vars
  BY <1>1 DEF vars, feedVars, TypeOK
<1>2. CASE Next
  BY <1>2, InsertType, ReadBoundsType, ReadMaxType, SelectRowsType, MaxConsoleIDType,
     OnConsoleType, OnMoreType, OnMaxType, SentType, EndedType DEF Next, Server, Answers
<1> QED
  BY <1>1, <1>2

-----------------------------------------------------------------------------
(***************************************************************************)
(* Which requests can be under way.                                        *)
(***************************************************************************)

\* What a server step does to the stages.
LEMMA ServerStages ==
    ASSUME TypeOK, NEW s \in Slots, Server(s)
    PROVE  /\ req[s].stage # "none" /\ req'[s].stage # "none"
           /\ \A u \in Slots : u # s => req'[u] = req[u]
           /\ UNCHANGED <<rows, failures, first, feedVars>>
<1>1. req[s] \in Request /\ req \in [Slots -> Request]
  BY RequestFields DEF TypeOK
<1>2. CASE ReadBounds(s)
  <2> DEFINE n == IF (req[s].upper # 0 /\ rows # 0) /\ s \in News
                  THEN NewRows(rows, req[s].upper) ELSE PageSize
             o == IF ~(req[s].upper # 0 /\ rows # 0) THEN req[s].offset
                  ELSE IF s \in News THEN 0 ELSE MoreOffset(req[s])
             q == [req[s] EXCEPT !.stage = "bounds", !.nRows = n, !.offset = o]
  <2>1. req' = [req EXCEPT ![s] = q] /\ req[s].stage = "sent" /\ ServerOnly
    BY <1>2 DEF ReadBounds
  <2>2. q.stage = "bounds"
    BY <1>1 DEF Request
  <2> HIDE DEF q
  <2> QED
    BY <1>1, <2>1, <2>2 DEF ServerOnly
<1>3. CASE ReadMax(s)
  BY <1>1, <1>3 DEF ReadMax, ServerOnly, Request
<1>4. CASE SelectRows(s)
  <2> DEFINE page == Rows(req[s].nRows, req[s].offset)
             o == IF page = {} THEN 0 ELSE FutureOffset(req[s].max, page)
             q == [req[s] EXCEPT !.stage = "answered", !.page = page,
                                 !.upper = req[s].max, !.offset = o]
  <2>1. req' = [req EXCEPT ![s] = q] /\ req[s].stage = "max" /\ ServerOnly
    BY <1>4 DEF SelectRows
  <2>2. q.stage = "answered"
    BY <1>1 DEF Request
  <2> HIDE DEF q
  <2> QED
    BY <1>1, <2>1, <2>2 DEF ServerOnly
<1> QED
  BY <1>2, <1>3, <1>4 DEF Server

LEMMA ControlStep ==
    ASSUME TypeOK, Control, [Next]_vars
    PROVE  Control'
<1> USE SlotFacts
<1>1. CASE Insert
  BY <1>1 DEF Insert, Control, feedVars
<1>2. ASSUME NEW s \in Slots, Server(s) PROVE Control'
  <2>1. \A u \in Slots : req[u].stage = "none" <=> req'[u].stage = "none"
    BY <1>2, ServerStages
  <2> QED
    BY <1>2, <2>1, ServerStages DEF Control, feedVars
<1>3. CASE MaxConsoleID
  BY <1>3 DEF MaxConsoleID, Control, ServerOnly, feedVars, TypeOK
<1>4. CASE Login
  BY <1>4 DEF Login, Send, Control, feedVars, TypeOK
<1>5. CASE Poll
  BY <1>5 DEF Poll, Send, Control, TypeOK
<1>6. CASE ClickMore
  BY <1>6 DEF ClickMore, MoreButton, Send, Control, TypeOK
<1>7. ASSUME NEW s \in News, ClickNew(s) PROVE Control'
  BY <1>7 DEF ClickNew, Send, Control, TypeOK
<1>8. CASE OnConsole
  <2>1. req' = [req EXCEPT !["console"] = NoRequest] /\ req["console"].stage = "answered"
        /\ poller' = "waiting" /\ more' \in {"idle", "hidden"}
    BY <1>8 DEF OnConsole, ShowConsole, Answer, NextPage
  <2> QED
    BY <2>1 DEF Control, TypeOK, NoRequest
<1>9. CASE OnMore
  <2>1. req' = [req EXCEPT !["more"] = NoRequest] /\ req["more"].stage = "answered"
        /\ more' \in {"idle", "hidden"} /\ UNCHANGED <<poller, newShown, dbMax>>
    BY <1>9 DEF OnMore, Answer, NextPage
  <2> QED
    BY <2>1 DEF Control, TypeOK, NoRequest
<1>10. CASE OnMax
  <2>1. req' = [req EXCEPT !["max"] = NoRequest] /\ req["max"].stage = "answered"
        /\ poller' = "waiting" /\ more' = more
    BY <1>10 DEF OnMax, Rearm, Answer
  <2> QED
    BY <2>1 DEF Control, TypeOK, NoRequest
<1>11. ASSUME NEW s \in News, OnNew(s) PROVE Control'
  BY <1>11 DEF OnNew, Answer, Control, TypeOK, NoRequest
<1>12. ASSUME NEW s \in Slots, Fails(s) PROVE Control'
  BY <1>12 DEF Fails, Control, TypeOK, NoRequest
<1>13. CASE EmptyMax
  BY <1>13 DEF EmptyMax, Control, TypeOK, NoRequest
<1>14. CASE UNCHANGED vars
  BY <1>14 DEF vars, feedVars, Control
<1> QED
  BY <1>1, <1>2, <1>3, <1>4, <1>5, <1>6, <1>7, <1>8, <1>9, <1>10, <1>11, <1>12, <1>13, <1>14
     DEF Next, Answers

-----------------------------------------------------------------------------
(***************************************************************************)
(* The numbers of each stage.                                              *)
(***************************************************************************)
LEMMA ReadBoundsFields ==
    ASSUME TypeOK, Control, Bounds, NEW s \in Slots, ReadBounds(s)
    PROVE  /\ req' = [req EXCEPT ![s] = req'[s]]
           /\ req'[s].stage = "bounds" /\ req[s].stage = "sent"
           /\ req'[s].upper = req[s].upper /\ req'[s].max = req[s].max
           /\ req'[s].page = req[s].page
           /\ s \in Pages => req'[s].nRows = PageSize /\ req'[s].offset <= rows
           /\ s = "console" => req'[s].offset = 0
           /\ s = "more" /\ dbMax # 0 /\ req[s].upper > 0 /\ rows > 0 =>
                 rows - req'[s].offset = req[s].upper - req[s].offset
<1> DEFINE r == req[s]
           bounded == r.upper # 0 /\ rows # 0
           n == IF bounded /\ s \in News THEN NewRows(rows, r.upper) ELSE PageSize
           o == IF ~bounded THEN r.offset
                ELSE IF s \in News THEN 0 ELSE MoreOffset(r)
<1>1. req' = [req EXCEPT ![s] = [r EXCEPT !.stage = "bounds", !.nRows = n, !.offset = o]]
      /\ r.stage = "sent"
  BY DEF ReadBounds
<1>2. r \in Request /\ r.upper \in Nat /\ r.offset \in Nat /\ r.upper <= rows /\ rows \in Nat
      /\ cursor.upper \in Nat /\ cursor.offset \in Nat
  BY RequestFields, SlotFacts DEF Bounds, TypeOK, Ids, Cursor
<1>3. req'[s] = [r EXCEPT !.stage = "bounds", !.nRows = n, !.offset = o]
  BY <1>1 DEF TypeOK
<1>4. /\ req'[s].stage = "bounds" /\ req'[s].upper = r.upper /\ req'[s].max = r.max
      /\ req'[s].page = r.page /\ req'[s].nRows = n /\ req'[s].offset = o
  BY <1>2, <1>3 DEF Request
<1>5. req' = [req EXCEPT ![s] = req'[s]]
  BY <1>1, <1>3
<1>6. CASE s \in News
  BY <1>1, <1>4, <1>5, <1>6, SlotFacts DEF Pages
<1>7. CASE s = "console"
  <2>1. r.upper = 0 /\ r.offset = 0
    BY <1>1, <1>7 DEF Bounds
  <2> QED
    BY <1>1, <1>2, <1>4, <1>5, <1>7, <2>1, SlotFacts
<1>8. CASE s = "more"
  <2>1. r.offset <= r.upper
    BY <1>1, <1>8 DEF Bounds
  <2> QED
    BY <1>1, <1>2, <1>4, <1>5, <1>8, <2>1, SlotFacts DEF MoreOffset
<1> QED
  BY <1>6, <1>7, <1>8 DEF Slots, ReadBounds

LEMMA ReadMaxFields ==
    ASSUME TypeOK, NEW s \in Slots, ReadMax(s)
    PROVE  /\ req' = [req EXCEPT ![s] = req'[s]]
           /\ req[s].stage = "bounds" /\ req'[s].max = rows
           /\ req'[s].upper = req[s].upper /\ req'[s].offset = req[s].offset
           /\ req'[s].nRows = req[s].nRows /\ req'[s].page = req[s].page
           /\ \/ req'[s].stage = "max" /\ rows > 0 /\ req[s].offset <= rows
              \/ /\ req'[s].stage = "answered"
                 /\ rows = 0 \/ req[s].offset > rows
<1> DEFINE st == IF rows = 0 \/ rows - req[s].offset < 0 THEN "answered" ELSE "max"
<1>1. req' = [req EXCEPT ![s] = [req[s] EXCEPT !.max = rows, !.stage = st]]
  BY DEF ReadMax, TypeOK
<1>2. req'[s] = [req[s] EXCEPT !.max = rows, !.stage = st]
  BY <1>1 DEF TypeOK
<1>3. /\ req'[s].max = rows /\ req'[s].stage = st
      /\ req'[s].upper = req[s].upper /\ req'[s].offset = req[s].offset
      /\ req'[s].nRows = req[s].nRows /\ req'[s].page = req[s].page
  BY <1>2, RequestFields DEF Request
<1>4. rows \in Nat /\ req[s].offset \in Nat
  BY RequestFields, SlotFacts DEF TypeOK, Ids
<1>5. req' = [req EXCEPT ![s] = req'[s]]
  BY <1>1, <1>2
<1>6. req[s].stage = "bounds"
  BY DEF ReadMax
<1>7. CASE rows = 0 \/ rows - req[s].offset < 0
  BY <1>3, <1>4, <1>5, <1>6, <1>7
<1>8. CASE ~(rows = 0 \/ rows - req[s].offset < 0)
  BY <1>3, <1>4, <1>5, <1>6, <1>8
<1> QED
  BY <1>7, <1>8

LEMMA SelectRowsFields ==
    ASSUME TypeOK, NEW s \in Slots, SelectRows(s)
    PROVE  /\ req' = [req EXCEPT ![s] = req'[s]]
           /\ req[s].stage = "max" /\ req'[s].stage = "answered"
           /\ req'[s].upper = req[s].max /\ req'[s].max = req[s].max
           /\ req'[s].page = Rows(req[s].nRows, req[s].offset)
           /\ req'[s].page \subseteq 1..rows
           /\ req'[s].offset = IF req'[s].page = {} THEN 0
                               ELSE FutureOffset(req[s].max, req'[s].page)
<1> DEFINE r == req[s]
           page == Rows(r.nRows, r.offset)
           o == IF page = {} THEN 0 ELSE FutureOffset(r.max, page)
<1>1. req' = [req EXCEPT ![s] = [r EXCEPT !.stage = "answered", !.page = page,
                                          !.upper = r.max, !.offset = o]]
      /\ r.stage = "max"
  BY DEF SelectRows
<1>2. req'[s] = [r EXCEPT !.stage = "answered", !.page = page, !.upper = r.max, !.offset = o]
  BY <1>1 DEF TypeOK
<1>3. /\ req'[s].stage = "answered" /\ req'[s].page = page /\ req'[s].upper = r.max
      /\ req'[s].offset = o /\ req'[s].max = r.max
  BY <1>2, RequestFields DEF Request
<1>4. page \subseteq 1..rows
  BY DEF Rows
<1> QED
  BY <1>1, <1>2, <1>3, <1>4

LEMMA NumberTypes ==
    ASSUME TypeOK
    PROVE  /\ rows \in Nat /\ first \in Nat /\ dbMax \in Nat /\ upTo \in Nat
           /\ cursor.upper \in Nat /\ cursor.offset \in Nat
           /\ \A s \in Slots : req[s].upper \in Nat /\ req[s].offset \in Nat
                               /\ req[s].nRows \in Nat /\ req[s].max \in Nat
           /\ PageSize \in Nat /\ PageSize > 0 /\ NextId \in Int
<1>1. \A s \in Slots : req[s].upper \in Nat /\ req[s].offset \in Nat
                       /\ req[s].nRows \in Nat /\ req[s].max \in Nat
  BY RequestFields DEF Ids
<1>2. cursor.upper \in Nat /\ cursor.offset \in Nat
  BY DEF TypeOK, Cursor, Ids
<1> QED
  BY <1>1, <1>2, SlotFacts, ConsoleAssumption DEF TypeOK, NextId

\* A page that has been selected while the table grew by a page at most.
LEMMA SelectedPage ==
    ASSUME TypeOK, Bounds, Recent, NEW s \in Pages, SelectRows(s)
    PROVE  /\ req'[s].offset \in 0..req'[s].upper
           /\ req'[s].page = {} <=> req[s].offset >= rows
           /\ req'[s].page # {} =>
                 \A i \in (req'[s].upper - req'[s].offset + 1)..(rows - req[s].offset) :
                    i \in req'[s].page
<1> DEFINE o == req[s].offset
           page == Rows(PageSize, o)
<1>1. s \in Slots
  BY SlotFacts DEF Pages
<1>2. rows \in Nat /\ o \in Nat /\ PageSize \in Nat /\ PageSize > 0 /\ req[s].max \in Nat
  BY <1>1, NumberTypes
<1>0. req[s].stage = "max" /\ req[s].nRows = PageSize
  BY <1>1, SelectRowsFields DEF Bounds
<1>3. req'[s].page = page /\ req'[s].upper = req[s].max
      /\ req'[s].offset = IF page = {} THEN 0 ELSE FutureOffset(req[s].max, page)
  BY <1>0, <1>1, SelectRowsFields
<1>4. req[s].max \in 1..rows /\ rows - req[s].max <= PageSize
  BY <1>0, <1>1, <1>2 DEF Bounds, Recent
<1>5. CASE o >= rows
  <2>1. page = {}
    BY <1>2, <1>5 DEF Rows
  <2> QED
    BY <1>2, <1>3, <1>5, <2>1
<1>6. CASE o < rows
  <2>1. /\ FutureOffset(req[s].max, page) = req[s].max - Lowest(page) + 1
        /\ FutureOffset(req[s].max, page) \in 0..req[s].max
    BY <1>2, <1>4, <1>6, OffsetFacts
  <2>2. page # {} /\ Lowest(page) \in page /\ \A i \in Lowest(page)..(rows - o) : i \in page
    BY <1>2, <1>6, PageFacts
  <2>3. Lowest(page) \in Nat
    BY <2>2 DEF Rows
  <2>4. req'[s].upper - req'[s].offset + 1 = Lowest(page)
    BY <1>2, <1>3, <2>1, <2>2, <2>3
  <2> QED
    BY <1>2, <1>3, <1>6, <2>1, <2>2, <2>4
<1> QED
  BY <1>2, <1>5, <1>6

LEMMA ServerBounds ==
    ASSUME TypeOK, Control, Bounds, NEW s \in Slots, Server(s)
    PROVE  Bounds'
<1> USE SlotFacts DEF Pages
<1>0. UNCHANGED <<rows, failures, first, feedVars>>
  BY ServerStages
<1>1. \A u \in Slots : u # s => req'[u] = req[u]
  BY ServerStages
<1>2. CASE ReadBounds(s)
  BY <1>0, <1>1, <1>2, ReadBoundsFields DEF Bounds, feedVars
<1>3. CASE ReadMax(s)
  <2>1. rows \in Nat
    BY NumberTypes
  <2> QED
    BY <1>0, <1>1, <1>3, <2>1, ReadMaxFields, NumberTypes DEF Bounds, feedVars
<1>4. CASE SelectRows(s)
  BY <1>0, <1>1, <1>4, SelectRowsFields DEF Bounds, feedVars
<1> QED
  BY <1>2, <1>3, <1>4 DEF Server

\* The request of one slot is over, or is sent.
LEMMA Cleared ==
    ASSUME TypeOK, NEW s \in Slots, req' = [req EXCEPT ![s] = NoRequest]
    PROVE  /\ req'[s].stage = "none" /\ req'[s].upper = 0 /\ req'[s].max = 0 /\ req'[s].page = {}
           /\ \A u \in Slots : u # s => req'[u] = req[u]
BY DEF TypeOK, NoRequest

LEMMA Sent ==
    ASSUME TypeOK, NEW s \in Slots, NEW u, NEW o, Send(s, u, o)
    PROVE  /\ req'[s].stage = "sent" /\ req'[s].upper = u /\ req'[s].offset = o
           /\ req'[s].max = 0 /\ req'[s].page = {}
           /\ \A v \in Slots : v # s => req'[v] = req[v]
BY DEF TypeOK, Send, NoRequest

LEMMA ClearedBounds ==
    ASSUME TypeOK, Bounds, NEW s \in Slots, req' = [req EXCEPT ![s] = NoRequest],
           UNCHANGED <<rows, first>>,
           cursor'.offset <= cursor'.upper, cursor'.upper <= rows,
           cursor' = cursor \/ s = "more" \/ req["more"].stage = "none"
    PROVE  Bounds'
<1>1. rows \in Nat
  BY NumberTypes
<1>2. /\ req'[s].stage = "none" /\ req'[s].upper = 0 /\ req'[s].max = 0 /\ req'[s].page = {}
      /\ \A u \in Slots : u # s => req'[u] = req[u]
  BY Cleared
<1>3. Pages \subseteq Slots /\ "more" \in Slots /\ "console" \in Slots
  BY SlotFacts DEF Pages
<1>4. \A u \in Slots : /\ req'[u].upper <= rows /\ req'[u].max <= rows
                       /\ req'[u].page \subseteq 1..rows
                       /\ req'[u].stage # "answered" => req'[u].page = {}
  BY <1>1, <1>2 DEF Bounds
<1>5. \A u \in Pages : req'[u].stage = "none" \/ req'[u] = req[u]
  BY <1>2, <1>3
<1>6. req'["more"].stage = "sent" => cursor' = cursor
  BY <1>2, <1>3
<1>7. first <= rows
  BY DEF Bounds
<1>8. \A u \in Pages :
         /\ req'[u].stage \in {"bounds", "max"} => req'[u].nRows = PageSize /\ req'[u].offset <= rows
         /\ req'[u].stage = "max" => req'[u].max > 0
  BY <1>5 DEF Bounds
<1>9. "console" \in Pages /\ "more" \in Pages
  BY DEF Pages
<1> QED
  BY <1>4, <1>5, <1>6, <1>7, <1>8, <1>9 DEF Bounds

LEMMA SentBounds ==
    ASSUME TypeOK, Bounds, NEW s \in Slots, NEW u \in 0..rows, NEW o \in Nat, Send(s, u, o),
           rows' = rows, first' \in 0..rows, cursor' = cursor,
           s = "console" => u = 0 /\ o = 0,
           s = "more" => u = cursor.upper /\ o = cursor.offset
    PROVE  Bounds'
<1>1. rows \in Nat
  BY NumberTypes
<1>2. /\ req'[s].stage = "sent" /\ req'[s].upper = u /\ req'[s].offset = o
      /\ req'[s].max = 0 /\ req'[s].page = {}
      /\ \A v \in Slots : v # s => req'[v] = req[v]
  BY Sent
<1>3. \A v \in Slots : /\ req'[v].upper <= rows /\ req'[v].max <= rows
                       /\ req'[v].page \subseteq 1..rows
                       /\ req'[v].stage # "answered" => req'[v].page = {}
  BY <1>1, <1>2 DEF Bounds
<1>4. Pages \subseteq Slots /\ "console" \in Pages /\ "more" \in Pages
  BY SlotFacts DEF Pages
<1>5. \A v \in Pages : \/ req'[v] = req[v]
                       \/ v = s /\ req'[v].stage = "sent"
  BY <1>2, <1>4
<1>6. \A v \in Pages :
         /\ req'[v].stage \in {"bounds", "max"} => req'[v].nRows = PageSize /\ req'[v].offset <= rows
         /\ req'[v].stage = "max" => req'[v].max > 0
  BY <1>5 DEF Bounds
<1> QED
  BY <1>2, <1>3, <1>4, <1>5, <1>6 DEF Bounds

\* The cursor is moved only to a page that there is.
LEMMA CursorMoves ==
    ASSUME NEW r, r.page # {}, r.offset \in Nat, r.upper \in Nat, r.upper <= rows,
           cursor.offset <= cursor.upper, cursor.upper <= rows, NextPage(r)
    PROVE  cursor'.offset <= cursor'.upper /\ cursor'.upper <= rows
<1>1. CASE r.offset >= r.upper
  BY <1>1 DEF NextPage
<1>2. CASE ~(r.offset >= r.upper)
  <2>1. cursor' = [upper |-> r.upper, offset |-> r.offset]
    BY <1>2 DEF NextPage
  <2>2. cursor'.upper = r.upper /\ cursor'.offset = r.offset
    BY <2>1
  <2> QED
    BY <1>2, <2>2
<1> QED
  BY <1>1, <1>2

LEMMA BoundsStep ==
    ASSUME TypeOK, Control, Bounds, [Next]_vars
    PROVE  Bounds'
<1> USE SlotFacts
<1>0. /\ rows \in Nat /\ upTo \in 0..rows
      /\ cursor.upper \in 0..rows /\ cursor.offset \in Nat /\ cursor.offset <= cursor.upper
  BY NumberTypes DEF Bounds, TypeOK
<1>1. CASE Insert
  <2>1. rows' = rows + 1 /\ UNCHANGED <<req, first, cursor>>
    BY <1>1 DEF Insert, feedVars
  <2>2. \A s \in Slots : /\ req[s].page \subseteq 1..rows'
                         /\ req[s].upper <= rows' /\ req[s].max <= rows'
    BY <1>0, <2>1, NumberTypes DEF Bounds
  <2>3. first <= rows' /\ cursor.upper <= rows'
    BY <1>0, <2>1, NumberTypes DEF Bounds
  <2>4. \A s \in Pages : /\ s \in Slots
                         /\ req[s].offset <= rows => req[s].offset <= rows'
    BY <1>0, <1>1, <2>1, NumberTypes DEF Pages
  <2>5. \A s \in Slots : req'[s] = req[s]
    BY <2>1
  <2>6. first' = first /\ cursor' = cursor
    BY <2>1
  <2>7. \A s \in Pages :
           /\ req'[s].stage \in {"bounds", "max"} => req'[s].nRows = PageSize /\ req'[s].offset <= rows'
           /\ req'[s].stage = "max" => req'[s].max > 0
    BY <2>4, <2>5 DEF Bounds
  <2>8. \A s \in Slots : /\ req'[s].upper <= rows' /\ req'[s].max <= rows'
                         /\ req'[s].page \subseteq 1..rows'
                         /\ req'[s].stage # "answered" => req'[s].page = {}
    BY <2>2, <2>5 DEF Bounds
  <2> QED
    BY <2>3, <2>5, <2>6, <2>7, <2>8 DEF Bounds
<1>2. ASSUME NEW s \in Slots, Server(s) PROVE Bounds'
  BY <1>2, ServerBounds
<1>3. CASE MaxConsoleID
  <2>1. req' = [req EXCEPT !["max"] = [req["max"] EXCEPT !.max = rows, !.stage = "answered"]]
    BY <1>3 DEF MaxConsoleID, TypeOK
  <2>2. /\ req'["max"].max = rows /\ req'["max"].page = req["max"].page
        /\ req'["max"].upper = req["max"].upper /\ req'["max"].stage = "answered"
        /\ \A u \in Slots : u # "max" => req'[u] = req[u]
    BY <2>1, RequestFields DEF TypeOK, Request
  <2>3. UNCHANGED <<rows, first, cursor>>
    BY <1>3 DEF MaxConsoleID, ServerOnly, feedVars
  <2>4. \A u \in Pages : u \in Slots /\ req'[u] = req[u]
    BY <2>2 DEF Pages
  <2>5. req["max"].stage = "sent" /\ req["max"].page = {}
    BY <1>3 DEF MaxConsoleID, Bounds
  <2>6. \A u \in Slots : /\ req'[u].upper <= rows /\ req'[u].max <= rows
                         /\ req'[u].page \subseteq 1..rows
                         /\ req'[u].stage # "answered" => req'[u].page = {}
    BY <1>0, <2>2, <2>5 DEF Bounds
  <2>7. req'["console"] = req["console"] /\ req'["more"] = req["more"]
    BY <2>4 DEF Pages
  <2> QED
    BY <2>3, <2>4, <2>6, <2>7 DEF Bounds
<1>4. CASE Login
  BY <1>0, <1>4, SentBounds DEF Login, feedVars
<1>5. CASE Poll
  BY <1>0, <1>5, SentBounds, NumberTypes DEF Poll, Bounds
<1>6. CASE ClickMore
  BY <1>0, <1>6, SentBounds, NumberTypes DEF ClickMore, Bounds
<1>7. ASSUME NEW s \in News, ClickNew(s) PROVE Bounds'
  BY <1>0, <1>7, SentBounds, NumberTypes DEF ClickNew, Bounds
<1>8. CASE OnConsole
  <2> DEFINE r == req["console"]
  <2>0. r.offset \in Nat /\ r.upper \in Nat /\ r.upper <= rows
    BY NumberTypes DEF Bounds
  <2>1. cursor'.offset <= cursor'.upper /\ cursor'.upper <= rows
    <3>1. CASE r.page = {}
      BY <1>0, <1>8, <3>1 DEF OnConsole, ShowConsole
    <3>2. CASE r.page # {}
      BY <1>8, <3>2, <2>0, <1>0, CursorMoves DEF OnConsole, ShowConsole
    <3> QED
      BY <3>1, <3>2
  <2>2. req["more"].stage = "none"
    BY <1>8 DEF OnConsole, ShowConsole, Answer, Control
  <2> QED
    BY <1>8, <2>1, <2>2, ClearedBounds DEF OnConsole, ShowConsole, Answer
<1>9. CASE OnMore
  <2> DEFINE r == req["more"]
  <2>0. r.offset \in Nat /\ r.upper \in Nat /\ r.upper <= rows
    BY NumberTypes DEF Bounds
  <2>1. cursor'.offset <= cursor'.upper /\ cursor'.upper <= rows
    <3>1. CASE r.page = {}
      BY <1>0, <1>9, <3>1 DEF OnMore
    <3>2. CASE r.page # {}
      BY <1>9, <3>2, <2>0, <1>0, CursorMoves DEF OnMore
    <3> QED
      BY <3>1, <3>2
  <2> QED
    BY <1>9, <2>1, ClearedBounds DEF OnMore, Answer
<1>a. ASSUME NEW s \in Slots, req' = [req EXCEPT ![s] = NoRequest],
             UNCHANGED <<rows, first, cursor>>
      PROVE  Bounds'
  <2>1. cursor' = cursor /\ cursor'.offset <= cursor'.upper /\ cursor'.upper <= rows
    BY <1>0, <1>a
  <2> QED
    BY <1>a, <2>1, ClearedBounds
<1>10. CASE OnMax
  BY <1>10, <1>a DEF OnMax, Answer
<1>11. ASSUME NEW s \in News, OnNew(s) PROVE Bounds'
  BY <1>11, <1>a DEF OnNew, Answer
<1>12. ASSUME NEW s \in Slots, Fails(s) PROVE Bounds'
  BY <1>12, <1>a DEF Fails
<1>13. CASE EmptyMax
  BY <1>13, <1>a DEF EmptyMax
<1>14. CASE UNCHANGED vars
  BY <1>14 DEF vars, feedVars, Bounds
<1> QED
  BY <1>1, <1>2, <1>3, <1>4, <1>5, <1>6, <1>7, <1>8, <1>9, <1>10, <1>11, <1>12, <1>13, <1>14
     DEF Next, Answers

-----------------------------------------------------------------------------
(***************************************************************************)
(* The New button, and the rows that are left out.                         *)
(***************************************************************************)
LEMMA NewsStep ==
    ASSUME TypeOK, Control, NewIsNews, [Next]_vars
    PROVE  NewIsNews'
<1> USE SlotFacts DEF NewIsNews
<1>0. dbMax \in Nat /\ upTo \in Nat /\ \A s \in Slots : req[s].max \in Nat
  BY NumberTypes
<1>1. CASE OnMax
  <2> DEFINE max == req["max"].max
  <2>0. max \in Nat
    BY <1>0
  <2>1. CASE max > dbMax /\ dbMax # 0
    <3>1. dbMax' = max /\ upTo' = IF newShown THEN upTo ELSE dbMax
      BY <1>1, <2>1 DEF OnMax, NextMax, Bound
    <3> QED
      BY <1>0, <2>0, <2>1, <3>1
  <2>2. CASE ~(max > dbMax /\ dbMax # 0)
    BY <1>1, <2>2 DEF OnMax
  <2> QED
    BY <2>1, <2>2
<1>2. CASE OnConsole
  BY <1>2 DEF OnConsole, ShowConsole, Answer, Control
<1>3. CASE UNCHANGED <<newShown, upTo, dbMax>>
  BY <1>3
<1>4. CASE newShown' = FALSE
  BY <1>4
<1>5. ASSUME NEW s \in Slots, Server(s) PROVE UNCHANGED <<newShown, upTo, dbMax>>
  BY <1>5, ServerStages DEF feedVars
<1> QED
  BY <1>1, <1>2, <1>3, <1>4, <1>5 DEF Next, Answers, Insert, MaxConsoleID, Fails, EmptyMax,
     Login, Poll, ClickMore, ClickNew, OnMore, OnNew, ServerOnly, feedVars, vars

\* A request that is answered for "more" leads on from the cursor.
LEMMA ServerGap ==
    ASSUME TypeOK, Control, Bounds, Recent, Gap, NEW s \in Slots, Server(s)
    PROVE  Gap'
<1> USE SlotFacts, NumberTypes DEF Pages
<1>0. UNCHANGED <<rows, failures, first, feedVars>> /\ NextId' = NextId
  BY ServerStages DEF feedVars, NextId
<1>1. \A u \in Slots : u # s => req'[u] = req[u]
  BY ServerStages
<1>2. CASE s \notin Pages
  BY <1>0, <1>1, <1>2 DEF Gap, Follows, feedVars
<1>3. CASE s = "more"
  <2>0. more = "busy" /\ req["more"].stage # "none" /\ req'["console"] = req["console"]
    BY <1>1, <1>3, ServerStages DEF Control
  <2> SUFFICES ASSUME dbMax # 0
               PROVE  /\ req'["more"].stage \in {"bounds", "max"} =>
                            rows - req'["more"].offset >= NextId
                      /\ req'["more"].stage = "answered" => Follows(req'["more"], NextId)
    BY <1>0, <2>0 DEF Gap, Follows, feedVars
  <2>1. NextId > 0
    BY <2>0 DEF Gap
  <2>2. CASE ReadBounds("more")
    <3>1. req["more"].upper = cursor.upper /\ req["more"].offset = cursor.offset
      BY <2>2 DEF ReadBounds, Bounds
    <3>2. cursor.upper > 0 /\ rows > 0
      BY <2>1 DEF NextId, Bounds
    <3> QED
      BY <2>2, <3>1, <3>2, ReadBoundsFields DEF NextId
  <2>3. CASE ReadMax("more")
    <3>1. rows - req["more"].offset >= NextId
      BY <2>3 DEF ReadMax, Gap
    <3> QED
      BY <2>1, <2>3, <3>1, ReadMaxFields
  <2>4. CASE SelectRows("more")
    <3>1. rows - req["more"].offset >= NextId
      BY <2>4 DEF SelectRows, Gap
    <3>2. req'["more"].offset \in Nat /\ req'["more"].upper \in Nat /\ req'["more"].stage = "answered"
      BY <2>4, SelectedPage, SelectRowsFields
    <3> QED
      BY <2>1, <2>4, <3>1, <3>2, SelectedPage DEF Follows
  <2> QED
    BY <1>3, <2>2, <2>3, <2>4 DEF Server
<1>4. CASE s = "console"
  <2>0. more = "off" /\ dbMax = 0 /\ req'["more"] = req["more"]
    BY <1>1, <1>4, ServerStages DEF Control
  <2> SUFFICES /\ req'["console"].stage = "answered" =>
                     IF req'["console"].page = {} THEN first = 0
                     ELSE req'["console"].upper > 0 /\ Follows(req'["console"], first)
               /\ req'["console"].stage = "max" => first <= req'["console"].max
    BY <1>0, <2>0 DEF Gap, Follows, feedVars
  <2>2. CASE ReadBounds("console")
    BY <2>2, ReadBoundsFields
  <2>3. CASE ReadMax("console")
    <3>1. req["console"].offset = 0
      BY <2>3 DEF ReadMax, Bounds
    <3>2. first <= rows
      BY DEF Bounds
    <3>3. req["console"].page = {}
      BY <2>3 DEF ReadMax, Bounds
    <3> QED
      BY <2>3, <3>1, <3>2, <3>3, ReadMaxFields
  <2>4. CASE SelectRows("console")
    <3>1. req["console"].offset = 0 /\ req["console"].max > 0 /\ req["console"].max <= rows
          /\ first <= rows
      BY <2>4 DEF SelectRows, Bounds
    <3>2. req'["console"].offset \in Nat /\ req'["console"].upper = req["console"].max
      BY <2>4, SelectedPage, SelectRowsFields
    <3> QED
      BY <2>4, <3>1, <3>2, SelectedPage, SelectRowsFields DEF Follows
  <2> QED
    BY <1>4, <2>2, <2>3, <2>4 DEF Server
<1> QED
  BY <1>2, <1>3, <1>4

LEMMA GapStep ==
    ASSUME TypeOK, Control, Bounds, Recent, Gap, [Next]_vars
    PROVE  Gap'
<1> USE SlotFacts, NumberTypes DEF Pages
<1>1. CASE Insert
  BY <1>1 DEF Insert, Gap, Follows, NextId, feedVars
<1>2. ASSUME NEW s \in Slots, Server(s) PROVE Gap'
  BY <1>2, ServerGap
<1>a. ASSUME NEW s \in Slots, s \notin Pages, \A u \in Slots : u # s => req'[u] = req[u],
             UNCHANGED <<rows, first, older, more, cursor>>, dbMax' = 0 <=> dbMax = 0
      PROVE  Gap'
  BY <1>a DEF Gap, Follows, NextId
<1>3. CASE MaxConsoleID
  BY <1>3, <1>a DEF MaxConsoleID, ServerOnly, feedVars, TypeOK
<1>4. CASE Login
  BY <1>4, Sent DEF Login, Gap, Follows, NextId, Control, feedVars
<1>5. CASE Poll
  BY <1>5, <1>a, Sent DEF Poll
<1>6. CASE ClickMore
  BY <1>6, Sent DEF ClickMore, MoreButton, Gap, Follows, NextId
<1>7. ASSUME NEW s \in News, ClickNew(s) PROVE Gap'
  BY <1>7, <1>a, Sent DEF ClickNew
<1>8. CASE OnConsole
  <2> DEFINE r == req["console"]
  <2>0. /\ poller = "off" /\ dbMax = 0 /\ req["more"].stage = "none"
        /\ r.stage = "answered" /\ UNCHANGED <<rows, first>>
        /\ \A u \in Slots : u # "console" => req'[u] = req[u]
        /\ req'["console"].stage = "none" /\ older' = r.page
        /\ dbMax' = IF r.page # {} THEN r.upper ELSE dbMax
    BY <1>8, Cleared DEF OnConsole, ShowConsole, Answer, Control
  <2>1. CASE r.page = {}
    <3>1. more' = "idle" /\ dbMax' = 0 /\ first = 0
      BY <1>8, <2>0, <2>1 DEF OnConsole, ShowConsole, Gap
    <3> QED
      BY <2>0, <3>1 DEF Gap
  <2>2. CASE r.page # {}
    <3>1. r.upper > 0 /\ Follows(r, first) /\ r.offset <= r.upper /\ NextPage(r) /\ dbMax' = r.upper
      BY <1>8, <2>0, <2>2 DEF OnConsole, ShowConsole, Gap, Bounds, Recent, Pages
    <3>2. CASE r.offset >= r.upper
      <4>1. more' = "hidden"
        BY <2>2, <3>1, <3>2 DEF NextPage
      <4>2. r.upper - r.offset + 1 = 1
        BY <3>1, <3>2
      <4> QED
        BY <2>0, <3>1, <4>1, <4>2 DEF Gap, Follows
    <3>3. CASE ~(r.offset >= r.upper)
      <4>1. more' = "idle" /\ NextId' = r.upper - r.offset
        BY <2>2, <3>1, <3>3 DEF NextPage, NextId
      <4> QED
        BY <2>0, <3>1, <3>3, <4>1 DEF Gap, Follows
    <3> QED
      BY <3>2, <3>3
  <2> QED
    BY <2>1, <2>2
<1>9. CASE OnMore
  <2> DEFINE r == req["more"]
  <2>0. /\ more = "busy" /\ poller # "off" /\ req["console"].stage = "none"
        /\ r.stage = "answered" /\ UNCHANGED <<rows, first, dbMax>>
        /\ \A u \in Slots : u # "more" => req'[u] = req[u]
        /\ req'["more"].stage = "none" /\ older' = older \cup r.page
    BY <1>9, Cleared DEF OnMore, Answer, Control
  <2>1. CASE dbMax = 0
    <3>1. first = 0
      BY <2>0, <2>1 DEF Gap
    <3> QED
      BY <2>0, <2>1, <3>1 DEF Gap
  <2>2. CASE dbMax # 0
    <3>1. Follows(r, NextId) /\ r.offset <= r.upper /\ \A i \in (NextId + 1)..first : i \in older
      BY <2>0, <2>2 DEF Gap, Bounds, Recent
    <3>2. \A i \in (r.upper - r.offset + 1)..first : i \in older'
      <4> TAKE i \in (r.upper - r.offset + 1)..first
      <4>1. i \in (r.upper - r.offset + 1)..NextId \/ i \in (NextId + 1)..first
        OBVIOUS
      <4> QED
        BY <2>0, <3>1, <4>1 DEF Follows
    <3>3. NextPage(r)
      BY <1>9, <3>1 DEF OnMore, Follows
    <3>4. CASE r.offset >= r.upper
      <4>1. more' = "hidden" /\ r.upper - r.offset + 1 = 1
        BY <3>1, <3>3, <3>4 DEF NextPage, Follows
      <4> QED
        BY <2>0, <2>2, <3>2, <4>1 DEF Gap
    <3>5. CASE ~(r.offset >= r.upper)
      <4>1. more' = "idle" /\ NextId' = r.upper - r.offset
        BY <3>3, <3>5 DEF NextPage, NextId
      <4> QED
        BY <2>0, <2>2, <3>2, <3>5, <4>1 DEF Gap
    <3> QED
      BY <3>4, <3>5
  <2> QED
    BY <2>1, <2>2
<1>10. CASE OnMax
  <2>1. dbMax' = 0 <=> dbMax = 0
    BY <1>10 DEF OnMax, NextMax
  <2> QED
    BY <1>10, <1>a, <2>1, Cleared DEF OnMax, Answer
<1>11. ASSUME NEW s \in News, OnNew(s) PROVE Gap'
  BY <1>11, <1>a, Cleared DEF OnNew, Answer
<1>12. ASSUME NEW s \in Slots, Fails(s) PROVE Gap'
  <2>1. CASE s = "more"
    <3>1. more = "busy" /\ more' = "dead"
      BY <1>12, <2>1 DEF Fails, Control
    <3> QED
      BY <1>12, <2>1, <3>1, Cleared, ZenonT(60) DEF Fails, Gap, Follows, NextId
  <2>2. CASE s # "more"
    BY <1>12, <1>a, <2>2, Cleared DEF Fails
  <2> QED
    BY <2>1, <2>2
<1>13. CASE EmptyMax
  BY <1>13, <1>a, Cleared DEF EmptyMax
<1>14. CASE UNCHANGED vars
  BY <1>14 DEF vars, feedVars, Gap, Follows, NextId
<1> QED
  BY <1>1, <1>2, <1>3, <1>4, <1>5, <1>6, <1>7, <1>8, <1>9, <1>10, <1>11, <1>12, <1>13, <1>14
     DEF Next, Answers

LEMMA RecentStep ==
    ASSUME TypeOK, Control, Bounds, Recent, [Next /\ Slow]_vars
    PROVE  Recent'
<1> USE SlotFacts DEF Pages
<1>0. Pages \subseteq Slots /\ rows \in Nat /\ \A s \in Slots : req[s].max \in Nat
  BY NumberTypes
<1>1. CASE Insert /\ Slow
  <2>1. UNCHANGED req /\ \A s \in Pages : req[s].stage = "max" => rows' - req[s].max <= PageSize
    BY <1>0, <1>1 DEF Insert, Slow
  <2> QED
    BY <2>1 DEF Recent
<1>2. ASSUME NEW s \in Slots, Server(s) PROVE Recent'
  <2>1. rows' = rows /\ \A u \in Slots : u # s => req'[u] = req[u]
    BY <1>2, ServerStages
  <2>2. ASSUME s \in Pages
        PROVE  /\ req'[s].stage = "max" => rows - req'[s].max <= PageSize
               /\ req'[s].stage = "answered" => req'[s].offset <= req'[s].upper
    <3>1. CASE ReadBounds(s)
      BY <3>1, ReadBoundsFields
    <3>2. CASE ReadMax(s)
      <4>1. req[s].offset \in Nat /\ req[s].offset <= rows /\ req[s].upper \in Nat
        BY <2>2, <3>2, ReadMaxFields, NumberTypes DEF Bounds
      <4> QED
        BY <1>0, <3>2, <4>1, ReadMaxFields, NumberTypes
    <3>3. CASE SelectRows(s)
      BY <2>2, <3>3, SelectedPage, SelectRowsFields
    <3> QED
      BY <1>2, <3>1, <3>2, <3>3 DEF Server
  <2>3. \A u \in Pages : u = s \/ req'[u] = req[u]
    BY <1>0, <2>1
  <2> QED
    BY <2>1, <2>2, <2>3 DEF Recent
<1>3. ASSUME NEW s \in Slots, rows' = rows, req' = [req EXCEPT ![s] = NoRequest]
      PROVE  Recent'
  <2>1. \A u \in Pages : req'[u] = req[u] \/ req'[u].stage = "none"
    BY <1>0, <1>3, Cleared
  <2> QED
    BY <1>3, <2>1 DEF Recent
<1>4. ASSUME NEW s \in Slots, NEW u, NEW o, rows' = rows, Send(s, u, o)
      PROVE  Recent'
  BY <1>0, <1>4, Sent DEF Recent
<1>5. CASE Login \/ Poll \/ ClickMore \/ \E s \in News : ClickNew(s)
  BY <1>4, <1>5 DEF Login, Poll, ClickMore, ClickNew
<1>6. CASE OnConsole \/ OnMore \/ OnMax \/ EmptyMax
  BY <1>3, <1>6 DEF OnConsole, ShowConsole, OnMore, OnMax, EmptyMax, Answer
<1>7. CASE (\E s \in News : OnNew(s)) \/ \E s \in Slots : Fails(s)
  BY <1>3, <1>7 DEF OnNew, Fails, Answer
<1>8. CASE MaxConsoleID
  BY <1>0, <1>8 DEF MaxConsoleID, ServerOnly, Recent, TypeOK
<1>9. CASE UNCHANGED vars
  BY <1>9 DEF vars, Recent
<1> QED
  BY <1>1, <1>2, <1>5, <1>6, <1>7, <1>8, <1>9 DEF Next, Answers

-----------------------------------------------------------------------------
(***************************************************************************)
(* Who has stopped, and what New asks for.                                 *)
(***************************************************************************)
LEMMA AliveStep ==
    ASSUME TypeOK, Control, Alive, [Next]_vars
    PROVE  Alive'
<1> USE SlotFacts DEF Alive
<1>1. CASE UNCHANGED <<failures, more, poller, dbMax>>
  BY <1>1
<1>2. ASSUME NEW s \in Slots, Server(s) PROVE UNCHANGED <<failures, more, poller, dbMax>>
  BY <1>2, ServerStages DEF feedVars
<1>3. CASE OnConsole
  <2>1. poller' = "waiting" /\ more' # "dead"
    BY <1>3 DEF OnConsole, ShowConsole, NextPage
  <2> QED
    BY <2>1
<1>4. CASE OnMore
  <2>1. more' # "dead" /\ UNCHANGED <<failures, poller, dbMax>>
    BY <1>4 DEF OnMore, NextPage
  <2> QED
    BY <2>1
<1>5. CASE ClickMore \/ Poll \/ OnMax
  BY <1>5 DEF ClickMore, MoreButton, Poll, OnMax, Rearm
<1>6. ASSUME NEW s \in Slots, Fails(s) PROVE Alive'
  BY <1>6 DEF Fails, TypeOK
<1>7. CASE EmptyMax
  BY <1>7 DEF EmptyMax, TypeOK
<1> QED
  BY <1>1, <1>2, <1>3, <1>4, <1>5, <1>6, <1>7 DEF Next, Answers, Insert, MaxConsoleID, Login,
     ClickNew, OnNew, ServerOnly, feedVars, vars

LEMMA NewsAskedStep ==
    ASSUME TypeOK, Bounds, NewIsNews, NewsAsked, [Next]_vars
    PROVE  NewsAsked'
<1> USE SlotFacts
<1>0. /\ rows \in Nat /\ upTo \in Nat /\ dbMax \in Nat
      /\ \A s \in Slots : req[s].upper \in Nat /\ req[s].nRows \in Nat
  BY NumberTypes
<1>1. CASE Insert
  BY <1>0, <1>1 DEF Insert, NewsAsked
<1>2. ASSUME NEW s \in Slots, Server(s) PROVE NewsAsked'
  <2>1. rows' = rows /\ \A u \in Slots : u # s => req'[u] = req[u]
    BY <1>2, ServerStages
  <2>2. CASE s \notin News
    <3>1. \A u \in News : req'[u] = req[u]
      BY <2>1, <2>2
    <3> QED
      BY <2>1, <3>1 DEF NewsAsked
  <2>3. ASSUME s \in News
        PROVE  /\ req'[s].stage \in {"sent", "bounds", "max"} =>
                     req'[s].upper # 0 /\ req'[s].upper < rows
               /\ req'[s].stage \in {"bounds", "max"} =>
                     /\ req'[s].offset = 0 /\ req'[s].nRows > 0
                     /\ req'[s].upper + req'[s].nRows <= rows
    <3>1. CASE ReadBounds(s)
      <4>1. req[s].stage = "sent" /\ req[s].upper # 0 /\ req[s].upper < rows
        BY <2>3, <3>1 DEF ReadBounds, NewsAsked
      <4>a. req[s].upper # 0 /\ rows # 0 /\ s \in Slots /\ req \in [Slots -> Request]
        BY <1>0, <2>3, <4>1 DEF TypeOK
      <4>b. req' = [req EXCEPT ![s] = [req[s] EXCEPT !.stage = "bounds",
                                          !.nRows = rows - req[s].upper, !.offset = 0]]
        BY <2>3, <3>1, <4>a DEF ReadBounds, NewRows
      <4>2. req'[s] = [req[s] EXCEPT !.stage = "bounds", !.nRows = rows - req[s].upper,
                                     !.offset = 0]
        BY <4>a, <4>b
      <4>3. /\ req'[s].nRows = rows - req[s].upper /\ req'[s].offset = 0
            /\ req'[s].upper = req[s].upper
        BY <4>2, RequestFields DEF Request
      <4> QED
        BY <1>0, <4>1, <4>3
    <3>2. CASE ReadMax(s)
      BY <2>3, <3>2, ReadMaxFields DEF NewsAsked
    <3>3. CASE SelectRows(s)
      BY <3>3, SelectRowsFields
    <3> QED
      BY <1>2, <3>1, <3>2, <3>3 DEF Server
  <2>4. \A u \in News : u = s \/ req'[u] = req[u]
    BY <2>1
  <2> QED
    BY <2>1, <2>2, <2>3, <2>4 DEF NewsAsked
<1>3. ASSUME NEW s \in Slots, rows' = rows, req' = [req EXCEPT ![s] = NoRequest]
      PROVE  NewsAsked'
  <2>1. \A v \in News : req'[v] = req[v] \/ req'[v].stage = "none"
    BY <1>3, Cleared
  <2> QED
    BY <1>3, <2>1 DEF NewsAsked
<1>4. ASSUME NEW s \in Slots, s \notin News, NEW u, NEW o, rows' = rows, Send(s, u, o)
      PROVE  NewsAsked'
  <2>1. \A v \in News : req'[v] = req[v]
    BY <1>4, Sent
  <2> QED
    BY <1>4, <2>1 DEF NewsAsked
<1>5. CASE Login \/ Poll \/ ClickMore
  <2>1. "console" \notin News /\ "max" \notin News /\ "more" \notin News
    OBVIOUS
  <2> QED
    BY <1>4, <1>5, <2>1 DEF Login, Poll, ClickMore
<1>6. ASSUME NEW s \in News, ClickNew(s) PROVE NewsAsked'
  <2>1. Send(s, upTo, 0) /\ rows' = rows /\ upTo # 0 /\ upTo < rows
    BY <1>0, <1>6 DEF ClickNew, NewIsNews, TypeOK
  <2>2. /\ req'[s].stage = "sent" /\ req'[s].upper = upTo
        /\ \A v \in Slots : v # s => req'[v] = req[v]
    BY <2>1, Sent
  <2>3. \A v \in News : v = s \/ req'[v] = req[v]
    BY <2>2
  <2> QED
    BY <2>1, <2>2, <2>3 DEF NewsAsked
<1>7. CASE OnConsole \/ OnMore \/ OnMax \/ EmptyMax
  BY <1>3, <1>7 DEF OnConsole, ShowConsole, OnMore, OnMax, EmptyMax, Answer
<1>8. CASE (\E s \in News : OnNew(s)) \/ \E s \in Slots : Fails(s)
  BY <1>3, <1>8 DEF OnNew, Fails, Answer
<1>9. CASE MaxConsoleID
  <2>1. rows' = rows /\ \A v \in News : req'[v] = req[v]
    BY <1>9 DEF MaxConsoleID, ServerOnly, TypeOK
  <2> QED
    BY <2>1 DEF NewsAsked
<1>10. CASE UNCHANGED vars
  BY <1>10 DEF vars, NewsAsked
<1> QED
  BY <1>1, <1>2, <1>5, <1>6, <1>7, <1>8, <1>9, <1>10 DEF Next, Answers

-----------------------------------------------------------------------------
(***************************************************************************)
(* The invariant, and the theorems.                                        *)
(***************************************************************************)
LEMMA Start == Init => SlowInv
<1> SUFFICES ASSUME Init
             PROVE  SlowInv
  OBVIOUS
<1>1. rows \in 0..MaxRows
  BY ConsoleAssumption DEF Init
<1>2. \A s \in Slots : req[s] = NoRequest
  BY DEF Init
<1>3. TypeOK
  <2>1. req \in [Slots -> Request] /\ cursor \in Cursor
    BY SlotFacts DEF Init, Cursor
  <2>2. /\ failures = 0 /\ first = rows /\ older = {} /\ dbMax = 0 /\ poller = "off"
        /\ newShown = FALSE /\ upTo = 0 /\ more = "off"
    BY DEF Init
  <2>3. rows \in Nat /\ MaxFailures \in Nat
    BY <1>1, SlotFacts
  <2>4. /\ failures \in 0..MaxFailures /\ first \in 0..MaxRows /\ older \subseteq 1..rows
        /\ dbMax \in 0..rows /\ upTo \in 0..rows
    BY <1>1, <2>2, <2>3
  <2>5. newShown \in BOOLEAN
    BY <2>2
  <2> QED
    BY <1>1, <2>1, <2>2, <2>4, <2>5 DEF TypeOK
<1>4. Control
  BY <1>2, SlotFacts DEF Init, Control, NoRequest
<1>5. Bounds
  BY <1>1, <1>2, SlotFacts DEF Init, Bounds, NoRequest, Pages
<1>6. Recent /\ Gap
  BY <1>2, SlotFacts DEF Init, Recent, Gap, NoRequest, Pages
<1>7. NewIsNews /\ Alive /\ NewsAsked
  BY <1>2, SlotFacts DEF Init, NewIsNews, Alive, NewsAsked, NoRequest
<1> QED
  BY <1>3, <1>4, <1>5, <1>6, <1>7 DEF Inv, SlowInv

LEMMA Step == Inv /\ [Next]_vars => Inv'
<1> SUFFICES ASSUME Inv, [Next]_vars
             PROVE  Inv'
  OBVIOUS
<1> QED
  BY TypeStep, ControlStep, BoundsStep, NewsStep, AliveStep, NewsAskedStep DEF Inv

LEMMA SlowStep == SlowInv /\ [Next /\ Slow]_vars => SlowInv'
<1> SUFFICES ASSUME SlowInv, [Next /\ Slow]_vars
             PROVE  SlowInv'
  OBVIOUS
<1>1. [Next]_vars
  OBVIOUS
<1> QED
  BY <1>1, Step, RecentStep, GapStep DEF Inv, SlowInv

THEOREM Invariant == Spec => []Inv
<1>1. Init => Inv
  BY Start DEF SlowInv
<1> QED
  BY <1>1, Step, PTL DEF Spec

\* The numbers of the page and of its requests fit a UInt32, even when an
\* offset wraps around, and the page only knows of rows the table has (app.js;
\* LoginServer.cpp:297-340).
THEOREM TypeCorrect == Spec => []TypeOK
<1>1. Inv => TypeOK
  BY DEF Inv
<1> QED
  BY <1>1, Invariant, PTL

\* More asks for one page at a time (app.js, more).
THEOREM OneMoreCorrect == Spec => []OneMore
<1>1. Inv => OneMore
  BY DEF Inv, Control, OneMore
<1> QED
  BY <1>1, Invariant, PTL

\* The New button announces a row above its bound (app.js, news.update).
THEOREM NewIsNewsCorrect == Spec => []NewIsNews
<1>1. Inv => NewIsNews
  BY DEF Inv
<1> QED
  BY <1>1, Invariant, PTL

\* Nobody on the page waits for an answer that is not on its way, and only a
\* failure stops More, or the poller of a page that has shown a row (app.js,
\* updater, more.onClick).
THEOREM NothingHangsCorrect == Spec => []NothingHangs
<1>1. Inv => NothingHangs
  BY DEF Inv, Control, Alive, NothingHangs
<1> QED
  BY <1>1, Invariant, PTL

\* New returns rows, all of them above its bound, and all there are when none
\* came in between its statements (LoginServer.cpp:297-340; Database.cpp:79-105).
THEOREM NewLoadsNewsCorrect == Spec => NewLoadsNews
<1>1. ASSUME Inv, NEW s \in News, SelectRows(s)
      PROVE  LET r == req[s] IN
             /\ req'[s].page # {} /\ req'[s].page \subseteq (r.upper + 1)..rows
             /\ r.upper + r.nRows = rows => req'[s].page = (r.upper + 1)..rows
  <2>1. s \in Slots /\ TypeOK /\ NewsAsked
    BY <1>1, SlotFacts DEF Inv
  <2>2. rows \in Nat /\ req[s].upper \in Nat /\ req[s].nRows \in Nat
    BY <2>1, NumberTypes
  <2>3. req[s].stage = "max" /\ req'[s].page = Rows(req[s].nRows, req[s].offset)
    BY <1>1, <2>1, SelectRowsFields
  <2>4. req[s].offset = 0 /\ req[s].nRows > 0 /\ req[s].upper + req[s].nRows <= rows
    BY <2>1, <2>3 DEF NewsAsked
  <2>5. req'[s].page = {i \in 1..rows : i > rows - req[s].nRows}
    BY <2>2, <2>3, <2>4 DEF Rows
  <2>6. rows \in req'[s].page
    BY <2>2, <2>4, <2>5
  <2>7. \A i \in req'[s].page : i \in (req[s].upper + 1)..rows
    BY <2>2, <2>4, <2>5
  <2>8. req[s].upper + req[s].nRows = rows =>
           \A i \in (req[s].upper + 1)..rows : i \in req'[s].page
    BY <2>2, <2>4, <2>5
  <2> QED
    BY <2>6, <2>7, <2>8
<1>2. Inv /\ [Next]_vars => [\A s \in News : SelectRows(s) =>
          LET r == req[s] IN
          /\ req'[s].page # {} /\ req'[s].page \subseteq (r.upper + 1)..rows
          /\ r.upper + r.nRows = rows => req'[s].page = (r.upper + 1)..rows]_vars
  BY <1>1
<1> QED
  BY <1>2, Invariant, PTL DEF Spec, NewLoadsNews

\* More skips no row, whatever comes in between its clicks and between the
\* statements of its requests, for pages of any size (app.js, more.update;
\* LoginServer.cpp:308-330; Database.cpp:79-105).
THEOREM MoreLeavesNoGapCorrect == SlowSpec => []MoreLeavesNoGap
<1>1. SlowInv => MoreLeavesNoGap
  BY DEF SlowInv, Gap, MoreLeavesNoGap
<1>2. Init => SlowInv
  BY Start
<1> QED
  BY <1>1, <1>2, SlowStep, PTL DEF SlowSpec

\* What is left of "next row to select is non-existent" (app.js:604): as long
\* as no offset wraps around, More is hidden only when the oldest row is shown,
\* on a page that found a row at its login.
THEOREM HiddenAtEndWhenSlow == SlowSpec => [](first > 0 => HiddenAtEnd)
<1>1. SlowInv => (first > 0 => HiddenAtEnd)
  <2> SUFFICES ASSUME SlowInv, first > 0, more = "hidden"
               PROVE  1 \in older
    BY DEF HiddenAtEnd
  <2>1. first \in Nat
    BY NumberTypes DEF SlowInv, Inv
  <2>2. \A i \in 1..first : i \in older
    BY DEF SlowInv, Gap
  <2> QED
    BY <2>1, <2>2
<1>2. Init => SlowInv
  BY Start
<1> QED
  BY <1>1, <1>2, SlowStep, PTL DEF SlowSpec
=============================================================================
