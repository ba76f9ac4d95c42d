----------------------------- MODULE NativeLogin -----------------------------
(***************************************************************************)
(* The native client: its main thread, which runs the scenes, its network  *)
(* thread, the mutexes between them, and the login they carry out with the *)
(* server (Client.cpp, LoginScene.cpp, LoginControls.cpp, Receive.cpp).    *)
(*                                                                         *)
(* A step takes one mutex, or does what is done under those it holds.  A   *)
(* use of one mutex that takes no other is one step.  Packets are whole.   *)
(* The mutexes of ClientSender and ClientReceiver are left out: one thread *)
(* uses each of them.  An account and its password are one value; the      *)
(* server knows those of Users.                                            *)
(***************************************************************************)
EXTENDS Naturals, Sequences

CONSTANTS Users,     \* accounts of the table LOGIN; each is its own userid
          Strangers, \* accounts that are not in it
          NoUser,    \* userid 0
          MaxTries   \* bound: presses of the Connect button

ASSUME NativeLoginAssumption ==
    /\ Users \cup Strangers # {}
    /\ Users \cap Strangers = {}
    /\ NoUser \notin Users
    /\ MaxTries \in Nat

Accounts == Users \cup Strangers
NotLoggedIn == 0
LoggedIn == 2

Threads == {"main", "net"}
Mutexes == {"client",   \* Client::mutex, held by the network thread in a loop
            "clients",  \* Client::ClientsMutex
            "player"}   \* the mutex of the player's entity
Free == "free"

VARIABLES
    owner,      \* owner[m]: the thread that holds mutex m, or Free
    \* the main thread
    main,       \* what it does next
    scene,      \* currentScene
    open,       \* window.isOpen()
    typed,      \* the account of the login form
    tries,
    \* the network thread
    net,        \* what it does next
    \* the client, shared by the two
    connected,  \* isConnected
    user,       \* the player's state, userid and account
    sendQueue,
    \* the connection and the server's player
    up, down,
    server,     \* "none" before the connection, "up", "closed" by the server,
                \* "left" by the client
    served      \* userid and account of the server's player

mainVars == <<main, scene, open, typed, tries>>
wireVars == <<up, down, server, served>>
vars == <<owner, mainVars, net, connected, user, sendQueue, wireVars>>

LoginData == [op : {"LoginData"}, userid : Users \cup {NoUser}, name : Accounts]
LoginReply == [op : {"LoginReply"}, userid : Users \cup {NoUser}, name : Accounts]
CreateEntityData == [op |-> "CreateEntityData"]

\* Client::connect takes two mutexes, in this order.
ConnectLocks_Swapped == <<"player", "client">>
ConnectLocks == <<"client", "player">>

\* Which thread holds a mutex follows from where the threads are.
Held ==
    /\ owner["client"] = "net" <=>
          net \in {"receive", "reply", "handle", "flush", "send"}
    /\ owner["clients"] = "net" <=> net = "handle"
    /\ owner["player"] = "net" <=> net = "send"
    /\ \A m \in Mutexes :
          owner[m] = "main" <=> main = "connecting" /\ m = ConnectLocks[1]

(***************************************************************************)
(* Types, and who holds what: a thread that left a function without giving *)
(* its mutexes back would break Held.                                      *)
(***************************************************************************)
TypeOK ==
    /\ owner \in [Mutexes -> Threads \cup {Free}]
    /\ main \in {"frame", "connect", "connecting", "find", "login", "look",
                 "check", "clear", "join", "done"}
    /\ scene \in {"login", "world"}
    /\ open \in BOOLEAN
    /\ typed \in Accounts
    /\ tries \in 0..MaxTries
    /\ net \in {"off", "top", "receive", "reply", "handle", "flush", "send", "done"}
    /\ connected \in BOOLEAN
    /\ user \in [state : {NotLoggedIn, LoggedIn}, userid : Users \cup {NoUser},
                 name : Accounts]
    /\ sendQueue \in Seq(LoginData)
    /\ up \in Seq(LoginData)
    /\ down \in Seq(LoginReply \cup {CreateEntityData})
    /\ server \in {"none", "up", "closed", "left"}
    /\ served \in [userid : Users \cup {NoUser}, name : Accounts]
    /\ Held

\* An account name is typed before it is used; until then it is arbitrary.
Init ==
    /\ owner = [m \in Mutexes |-> Free]
    /\ main = "frame"
    /\ scene = "login"
    /\ open = TRUE
    /\ typed = CHOOSE a \in Accounts : TRUE
    /\ tries = 0
    /\ net = "off"
    /\ connected = FALSE
    /\ user = [state |-> NotLoggedIn, userid |-> NoUser, name |-> typed]
    /\ sendQueue = <<>>
    /\ up = <<>> /\ down = <<>>
    /\ server = "none"
    /\ served = [userid |-> NoUser, name |-> typed]

Take(t, m) == owner[m] = Free /\ owner' = [owner EXCEPT ![m] = t]
Uses(m) == owner[m] = Free /\ UNCHANGED owner
Releases(M) == owner' = [m \in Mutexes |-> IF m \in M THEN Free ELSE owner[m]]

-----------------------------------------------------------------------------
(***************************************************************************)
(* The main thread: events, the user interface, then isLoggedIn; when the  *)
(* window is closed, Client::Clear.                                        *)
(***************************************************************************)

\* Nothing for the user interface in this frame.
Quiet ==
    /\ main = "frame"
    /\ main' = "look"
    /\ UNCHANGED <<owner, scene, open, typed, tries, net, connected, user,
                   sendQueue, wireVars>>

\* The event comes before the rest of the frame, which goes on.
CloseWindow ==
    /\ main = "frame" /\ open
    /\ open' = FALSE
    /\ UNCHANGED <<owner, main, scene, typed, tries, net, connected, user,
                   sendQueue, wireVars>>

\* The button of the login form; Client::Get uses ClientsMutex.
OnConnect ==
    /\ main = "frame" /\ scene = "login"
    /\ tries < MaxTries
    /\ Uses("clients")
    /\ tries' = tries + 1
    /\ typed' \in Accounts
    /\ main' = "connect"
    /\ UNCHANGED <<scene, open, net, connected, user, sendQueue, wireVars>>

ConnectLock ==
    /\ main = "connect"
    /\ Take("main", ConnectLocks[1])
    /\ main' = "connecting"
    /\ UNCHANGED <<scene, open, typed, tries, net, connected, user, sendQueue,
                   wireVars>>

\* The second mutex, then the connection, the start of the thread, and the
\* release of both.  A connection that times out counts as made.
Connect ==
    /\ main = "connecting"
    /\ owner[ConnectLocks[2]] = Free
    /\ Releases({ConnectLocks[1]})
    /\ \/ /\ connected
          /\ main' = "find"
          /\ UNCHANGED <<connected, net, server>>
       \/ /\ ~ connected
          /\ connected' = TRUE
          /\ net' = "top"
          /\ server' \in {"up", "closed"}
          /\ main' = "find"
       \/ /\ ~ connected
          /\ main' = "look"
          /\ UNCHANGED <<connected, net, server>>
    /\ UNCHANGED <<scene, open, typed, tries, user, sendQueue, up, down, served>>

\* Client::Get, before the player's mutex is taken.
Get ==
    /\ Uses("clients")
    /\ \/ main = "find" /\ main' = "login"
       \/ main = "look" /\ main' = "check"
    /\ UNCHANGED <<scene, open, typed, tries, net, connected, user, sendQueue,
                   wireVars>>

\* The form is accepted until there is a result, however often it was sent.
MayLogin_Always == TRUE
MayLogin == user.state = NotLoggedIn

TryLogin ==
    /\ main = "login"
    /\ Uses("player")
    /\ main' = "look"
    /\ IF MayLogin
       THEN /\ user' = [state |-> NotLoggedIn, userid |-> NoUser, name |-> typed]
            /\ sendQueue' = Append(sendQueue, [op |-> "LoginData",
                                               userid |-> NoUser, name |-> typed])
       ELSE UNCHANGED <<user, sendQueue>>
    /\ UNCHANGED <<scene, open, typed, tries, net, connected, wireVars>>

\* A scene ends its frame with the player's mutex: the login scene to see
\* whether to go on, which it does when the form has faded, and the world
\* to copy the player's queues.
Check ==
    /\ main = "check"
    /\ Uses("player")
    /\ \/ UNCHANGED scene
       \/ scene = "login" /\ user.state = LoggedIn /\ scene' = "world"
    /\ main' = IF open THEN "frame" ELSE "clear"
    /\ UNCHANGED <<open, typed, tries, net, connected, user, sendQueue, wireVars>>

\* Clear destroys the client, whose destructor disconnects and waits.
Disconnected_Kept == connected
Disconnected == FALSE

Disconnect ==
    /\ main = "clear"
    /\ Uses("client")
    /\ connected' = Disconnected
    /\ server' = IF server = "up" THEN "left" ELSE server
    /\ main' = "join"
    /\ UNCHANGED <<scene, open, typed, tries, net, user, sendQueue, up, down, served>>

Join ==
    /\ main = "join"
    /\ net \in {"off", "done"}
    /\ main' = "done"
    /\ UNCHANGED <<owner, scene, open, typed, tries, net, connected, user,
                   sendQueue, wireVars>>

-----------------------------------------------------------------------------
(***************************************************************************)
(* The network thread: one turn of Client::run.                            *)
(***************************************************************************)

Turn ==
    /\ net = "top"
    /\ IF connected THEN Take("net", "client") /\ net' = "receive"
                    ELSE Uses("client") /\ net' = "done"
    /\ UNCHANGED <<mainVars, connected, user, sendQueue, wireVars>>

\* The socket does not block.  A packet without a receiver is dropped.
Receive ==
    /\ net = "receive"
    /\ \/ /\ net' = "flush"
          /\ UNCHANGED down
       \/ /\ down # <<>> /\ Head(down).op = "CreateEntityData"
          /\ down' = Tail(down)
          /\ net' = "flush"
       \/ /\ down # <<>> /\ Head(down).op = "LoginReply"
          /\ net' = "reply"
          /\ UNCHANGED down
    /\ UNCHANGED <<owner, mainVars, connected, user, sendQueue, up, server, served>>

FindClient ==
    /\ net = "reply"
    /\ Take("net", "clients")
    /\ net' = "handle"
    /\ UNCHANGED <<mainVars, connected, user, sendQueue, wireVars>>

\* The reply says nothing of success: its state is replaced.
Replied_First(p) == IF user.state = LoggedIn THEN user
                    ELSE [state |-> LoggedIn, userid |-> p.userid, name |-> p.name]
Replied_AsSent(p) == [state |-> 1, userid |-> p.userid, name |-> p.name]
Replied(p) == [state |-> LoggedIn, userid |-> p.userid, name |-> p.name]

OnLoginReply ==
    /\ net = "handle"
    /\ owner["player"] = Free
    /\ Releases({"clients"})
    /\ user' = Replied(Head(down))
    /\ down' = Tail(down)
    /\ net' = "flush"
    /\ UNCHANGED <<mainVars, connected, sendQueue, up, server, served>>

Flush ==
    /\ net = "flush"
    /\ Take("net", "player")
    /\ net' = "send"
    /\ UNCHANGED <<mainVars, connected, user, sendQueue, wireVars>>

\* Both mutexes are held until everything is sent: what the socket does not
\* take is tried again.
Send ==
    /\ net = "send" /\ sendQueue # <<>>
    /\ server = "up"
    /\ up' = Append(up, Head(sendQueue))
    /\ sendQueue' = Tail(sendQueue)
    /\ UNCHANGED <<owner, mainVars, net, connected, user, down, server, served>>

SendFails == net = "send" /\ sendQueue # <<>> /\ UNCHANGED vars

Sent ==
    /\ net = "send" /\ sendQueue = <<>>
    /\ Releases({"player", "client"})
    /\ net' = "top"
    /\ UNCHANGED <<mainVars, connected, user, sendQueue, wireVars>>

-----------------------------------------------------------------------------
(***************************************************************************)
(* The server.                                                             *)
(***************************************************************************)

\* A login is for the userid the player has, which is 0 until one succeeds.
Expected_Any(p) == TRUE
Expected(p) == p.userid = served.userid

\* A login that fails is answered like one that succeeds; one that is not
\* expected is not answered.  What a client has sent before it left is still
\* read.
OnLoginData ==
    /\ server \in {"up", "left"} /\ up # <<>>
    /\ up' = Tail(up)
    /\ IF Expected(Head(up))
       THEN LET name == Head(up).name
                userid == IF name \in Users THEN name ELSE served.userid
            IN  /\ served' = [userid |-> userid, name |-> name]
                /\ down' = down \o <<[op |-> "LoginReply", userid |-> userid,
                                      name |-> name], CreateEntityData>>
       ELSE UNCHANGED <<served, down>>
    /\ UNCHANGED <<owner, mainVars, net, connected, user, sendQueue, server>>

\* The server stops, or the connection breaks.
ServerCloses ==
    /\ server = "up"
    /\ server' = "closed"
    /\ UNCHANGED <<owner, mainVars, net, connected, user, sendQueue, up, down, served>>

\* The end: the client has stopped.
Stopped == main = "done" /\ UNCHANGED vars

-----------------------------------------------------------------------------
Main == Quiet \/ CloseWindow \/ OnConnect \/ ConnectLock \/ Connect \/ Get
        \/ TryLogin \/ Check \/ Disconnect \/ Join
Net == Turn \/ Receive \/ FindClient \/ OnLoginReply \/ Flush \/ Send
       \/ SendFails \/ Sent

Next == Main \/ Net \/ OnLoginData \/ ServerCloses \/ Stopped

Spec == Init /\ [][Next]_vars

(***************************************************************************)
(* Both threads and the server run, and packets arrive: a turn does not    *)
(* for ever miss one.  The network thread gives its mutexes back and takes *)
(* them again at once; a thread that waits for one gets it in the end.     *)
(* Nobody has to press a button or close the window.                       *)
(***************************************************************************)
Fairness ==
    /\ WF_vars(Quiet)
    /\ SF_vars(ConnectLock)
    /\ SF_vars(Connect)
    /\ SF_vars(Get)
    /\ SF_vars(TryLogin)
    /\ SF_vars(Check)
    /\ SF_vars(Disconnect)
    /\ WF_vars(Join)
    /\ WF_vars(Net)
    /\ SF_vars(Receive /\ (net' = "reply" \/ down' # down))
    /\ WF_vars(OnLoginData)

FairSpec == Spec /\ Fairness

-----------------------------------------------------------------------------
(***************************************************************************)
(* Properties.                                                             *)
(***************************************************************************)

\* The mutex a thread waits for.
Wants(t) ==
    IF t = "main"
    THEN CASE main = "connect" -> {ConnectLocks[1]}
           [] main = "connecting" -> {ConnectLocks[2]}
           [] main \in {"find", "look"} -> {"clients"}
           [] main \in {"login", "check"} -> {"player"}
           [] main = "clear" -> {"client"}
           [] OTHER -> {}
    ELSE CASE net = "top" -> {"client"}
           [] net = "reply" -> {"clients"}
           [] net \in {"handle", "flush"} -> {"player"}
           [] OTHER -> {}

(***************************************************************************)
(* The two threads never wait for each other: the main thread connects,    *)
(* logs in, looks and disconnects while the network thread handles replies *)
(* and sends, each with up to three mutexes.                               *)
(***************************************************************************)
NoCircularWait ==
    ~ /\ \E m \in Wants("main") : owner[m] = "net"
      /\ \E m \in Wants("net") : owner[m] = "main"

(***************************************************************************)
(* When no reply is under way, a client that takes itself for logged in    *)
(* has the userid and the account the server has for it, however many      *)
(* logins were sent before the first result, and whichever of them failed  *)
(* or are still to come.                                                   *)
(***************************************************************************)
UserAgrees ==
    /\ user.state = LoggedIn
    /\ \A i \in 1..Len(down) : down[i].op # "LoginReply"
    => user.userid = served.userid /\ user.name = served.name

(***************************************************************************)
(* A user the server has let in is not replaced by a login that was sent   *)
(* before the result of the first came back.                               *)
(***************************************************************************)
UserStays == [][served.userid # NoUser => served.userid' = served.userid]_vars

(***************************************************************************)
(* While the server and the window stay, a client that has sent a login    *)
(* gets to be logged in, and is so for good.                               *)
(***************************************************************************)
LoginAnswered ==
    [](server # "closed" /\ open) => [](up # <<>> => <>[](user.state = LoggedIn))

(***************************************************************************)
(* When the window is closed, the client ends, unless the server goes      *)
(* first.                                                                  *)
(***************************************************************************)
Exits ==
    [](server # "closed") => [](~ open => <>(main = "done"))

(***************************************************************************)
(* Client.h:36: the thread separates the network traffic from the rest of  *)
(* the application.  Whatever becomes of the connection, the main thread   *)
(* gets on with its frames.                                                *)
(***************************************************************************)
MainRuns == []<>(main \in {"frame", "done"})

-----------------------------------------------------------------------------
(***************************************************************************)
(* The abstract view of the login.                                         *)
(***************************************************************************)
Session == INSTANCE LoginSession WITH admitted <- served.userid,
                                      believed <- user.userid

\* The client and the server's player keep one session between them: one user
\* is let in, and the client becomes that one and no other.
ImplementsLoginSession == Session!Spec
=============================================================================
