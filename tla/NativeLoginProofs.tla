-------------------------- MODULE NativeLoginProofs --------------------------
(***************************************************************************)
(* Theorems about NativeLogin, for any accounts and any number of tries.   *)
(***************************************************************************)
EXTENDS NativeLogin, TLAPS, SequenceTheorems

-----------------------------------------------------------------------------
LEMMA Locks ==
    /\ Mutexes = {"client", "clients", "player"}
    /\ ConnectLocks[1] = "client" /\ ConnectLocks[2] = "player"
    /\ Free \notin Threads
  BY DEF Mutexes, ConnectLocks, Free, Threads

LEMMA HeadTail ==
  ASSUME NEW S, NEW s \in Seq(S), s # <<>>
  PROVE  Head(s) \in S /\ Tail(s) \in Seq(S)
  BY HeadTailProperties

-----------------------------------------------------------------------------
(***************************************************************************)
(* Who holds which mutex.                                                  *)
(***************************************************************************)
HeldInv ==
    /\ owner \in [Mutexes -> Threads \cup {Free}]
    /\ main \in {"frame", "connect", "connecting", "find", "login", "look",
                 "check", "clear", "join", "done"}
    /\ net \in {"off", "top", "receive", "reply", "handle", "flush", "send", "done"}
    /\ Held

LEMMA HeldInit == Init => HeldInv
  BY Locks DEF Init, HeldInv, Held, Threads, Free

LEMMA HeldStep == HeldInv /\ [Next]_vars => HeldInv'
<1> SUFFICES ASSUME HeldInv, [Next]_vars PROVE HeldInv'
  OBVIOUS
<1> USE Locks DEF HeldInv, Held, Threads, Free
<1>1. CASE Quiet
  BY <1>1 DEF Quiet
<1>2. CASE CloseWindow
  BY <1>2 DEF CloseWindow
<1>3. CASE OnConnect
  BY <1>3 DEF OnConnect, Uses
<1>4. CASE ConnectLock
  BY <1>4 DEF ConnectLock, Take
<1>5. CASE Connect
  BY <1>5 DEF Connect, Releases
<1>6. CASE Get
  BY <1>6 DEF Get, Uses
<1>7. CASE TryLogin
  BY <1>7 DEF TryLogin, Uses
<1>8. CASE Check
  BY <1>8 DEF Check, Uses
<1>9. CASE Disconnect
  BY <1>9 DEF Disconnect, Uses
<1>10. CASE Join
  BY <1>10 DEF Join
<1>11. CASE Turn
  BY <1>11 DEF Turn, Take, Uses, mainVars
<1>12. CASE Receive
  BY <1>12 DEF Receive, mainVars
<1>13. CASE FindClient
  BY <1>13 DEF FindClient, Take, mainVars
<1>14. CASE OnLoginReply
  BY <1>14 DEF OnLoginReply, Releases, mainVars
<1>15. CASE Flush
  BY <1>15 DEF Flush, Take, mainVars
<1>16. CASE Send
  BY <1>16 DEF Send, mainVars
<1>17. CASE Sent
  BY <1>17 DEF Sent, Releases, mainVars
<1>18. CASE OnLoginData \/ ServerCloses
  BY <1>18 DEF OnLoginData, ServerCloses, mainVars
<1>19. CASE UNCHANGED vars
  BY <1>19 DEF vars, mainVars
<1> QED
  BY <1>1, <1>2, <1>3, <1>4, <1>5, <1>6, <1>7, <1>8, <1>9, <1>10, <1>11,
     <1>12, <1>13, <1>14, <1>15, <1>16, <1>17, <1>18, <1>19
  DEF Next, Main, Net, SendFails, Stopped

THEOREM HeldInvariant == Spec => []HeldInv
  BY HeldInit, HeldStep, PTL DEF Spec

(***************************************************************************)
(* The two threads never wait for each other: the main thread holds a      *)
(* mutex only while it connects, and this is the one the network thread    *)
(* takes first.                                                            *)
(***************************************************************************)
THEOREM NoCircularWaitCorrect == Spec => []NoCircularWait
<1>1. HeldInv => NoCircularWait
  <2> SUFFICES ASSUME HeldInv,
                      NEW m \in Wants("main"), owner[m] = "net",
                      NEW n \in Wants("net"), owner[n] = "main"
               PROVE  FALSE
    BY DEF NoCircularWait
  <2>1. n \in Mutexes
    BY Locks DEF Wants
  <2>2. main = "connecting" /\ n = "client"
    BY <2>1, Locks DEF HeldInv, Held
  <2>3. m = "player"
    BY <2>2, Locks DEF Wants
  <2>4. net = "send"
    BY <2>3 DEF HeldInv, Held
  <2> QED
    BY <2>4 DEF Wants
<1> QED
  BY <1>1, HeldInvariant, PTL

-----------------------------------------------------------------------------
(***************************************************************************)
(* The login.  Every login under way is for the userid 0.  What the client *)
(* takes over is the reply it is handling; the last reply under way tells  *)
(* what the server has.                                                    *)
(***************************************************************************)
FirstLogin == {p \in LoginData : p.userid = NoUser}
IsReply(p) == p.op = "LoginReply"
Agrees(p) == p.userid = served.userid /\ p.name = served.name

WireInv ==
    /\ typed \in Accounts
    /\ user \in [state : {NotLoggedIn, LoggedIn}, userid : Users \cup {NoUser},
                 name : Accounts]
    /\ served \in [userid : Users \cup {NoUser}, name : Accounts]
    /\ sendQueue \in Seq(FirstLogin)
    /\ up \in Seq(FirstLogin)
    /\ down \in Seq(LoginReply \cup {CreateEntityData})

ReplyInv ==
    /\ net \in {"reply", "handle"} => down # <<>> /\ IsReply(Head(down))
    /\ \A i \in 1..Len(down) :
          /\ IsReply(down[i])
          /\ \A j \in i+1..Len(down) : ~ IsReply(down[j])
          => Agrees(down[i])
    /\ (\A i \in 1..Len(down) : ~ IsReply(down[i])) /\ user.state = LoggedIn
          => Agrees(user)

LoginInv == WireInv /\ ReplyInv

LEMMA PacketFacts ==
    /\ \A p \in LoginReply : IsReply(p)
    /\ ~ IsReply(CreateEntityData)
    /\ NotLoggedIn # LoggedIn
  BY DEF LoginReply, IsReply, CreateEntityData, NotLoggedIn, LoggedIn

LEMMA LoginInit == Init => LoginInv
<1> SUFFICES ASSUME Init PROVE LoginInv
  OBVIOUS
<1>1. typed \in Accounts
  BY NativeLoginAssumption DEF Init, Accounts
<1>2. down = <<>> /\ Len(down) = 0 /\ user.state = NotLoggedIn
  BY EmptySeq DEF Init
<1> QED
  BY <1>1, <1>2, PacketFacts, EmptySeq DEF Init, LoginInv, WireInv, ReplyInv

\* What is sent says the userid is 0 still.
LEMMA TryLoginInv ==
  ASSUME LoginInv, TryLogin
  PROVE  LoginInv'
<1>1. CASE MayLogin
  <2> DEFINE p == [op |-> "LoginData", userid |-> NoUser, name |-> typed]
  <2>1. p \in FirstLogin
    BY DEF FirstLogin, LoginData, LoginInv, WireInv
  <2>2. sendQueue' = Append(sendQueue, p)
    BY <1>1 DEF TryLogin
  <2> HIDE DEF p
  <2>3. sendQueue' \in Seq(FirstLogin)
    BY <2>1, <2>2 DEF LoginInv, WireInv
  <2>4. user' = [state |-> NotLoggedIn, userid |-> NoUser, name |-> typed]
    BY <1>1 DEF TryLogin
  <2> QED
    BY <2>3, <2>4, PacketFacts
    DEF TryLogin, wireVars, LoginInv, WireInv, ReplyInv, Agrees
<1>2. CASE ~ MayLogin
  BY <1>2 DEF TryLogin, wireVars, LoginInv, WireInv, ReplyInv, Agrees
<1> QED
  BY <1>1, <1>2

\* A packet without a receiver is no reply.
LEMMA ReceiveInv ==
  ASSUME LoginInv, Receive
  PROVE  LoginInv'
<1>1. CASE down # <<>> /\ Head(down).op = "CreateEntityData" /\ down' = Tail(down)
           /\ net' = "flush"
  <2>1. /\ Tail(down) \in Seq(LoginReply \cup {CreateEntityData})
        /\ Len(down) \in Nat /\ Len(Tail(down)) = Len(down) - 1
        /\ \A i \in 1..Len(Tail(down)) : Tail(down)[i] = down[i + 1]
    BY <1>1, HeadTailProperties, LenProperties DEF LoginInv, WireInv
  <2>2. ~ IsReply(Head(down)) /\ Head(down) = down[1]
    BY <1>1 DEF IsReply
  <2>3. UNCHANGED <<mainVars, user, sendQueue, up, served>>
    BY DEF Receive
  <2>4. ASSUME NEW i \in 1..Len(down'), IsReply(down'[i]),
               \A j \in i+1..Len(down') : ~ IsReply(down'[j])
        PROVE  Agrees(down[i])'
    <3>1. i + 1 \in 1..Len(down) /\ down'[i] = down[i + 1]
      BY <1>1, <2>1
    <3>2. ASSUME NEW j \in (i + 1) + 1..Len(down)
          PROVE  ~ IsReply(down[j])
      <4>1. j - 1 \in i+1..Len(down') /\ down'[j - 1] = down[j]
        BY <1>1, <2>1
      <4> QED
        BY <4>1, <2>4
    <3> QED
      BY <2>3, <2>4, <3>1, <3>2 DEF LoginInv, ReplyInv, Agrees
  <2>5. ASSUME \A i \in 1..Len(down') : ~ IsReply(down'[i])
        PROVE  \A i \in 1..Len(down) : ~ IsReply(down[i])
    <3>1. ASSUME NEW i \in 1..Len(down), i # 1
          PROVE  ~ IsReply(down[i])
      <4>1. i - 1 \in 1..Len(down') /\ down'[i - 1] = down[i]
        BY <1>1, <2>1, <3>1
      <4> QED
        BY <4>1, <2>5
    <3> QED
      BY <2>2, <3>1
  <2> QED
    BY <1>1, <2>1, <2>3, <2>4, <2>5
    DEF mainVars, LoginInv, WireInv, ReplyInv, Agrees
<1>2. CASE down' = down /\ (net' = "reply" => down # <<>> /\ IsReply(Head(down)))
           /\ net' \in {"flush", "reply"}
  BY <1>2 DEF Receive, mainVars, LoginInv, WireInv, ReplyInv, Agrees
<1> QED
  BY <1>1, <1>2 DEF Receive, IsReply

\* The client takes over the reply; if it was the last, it agrees.
LEMMA OnLoginReplyInv ==
  ASSUME LoginInv, OnLoginReply
  PROVE  LoginInv'
<1>1. /\ down # <<>> /\ IsReply(Head(down))
      /\ user' = [state |-> LoggedIn, userid |-> Head(down).userid,
                  name |-> Head(down).name]
      /\ down' = Tail(down) /\ net' = "flush"
      /\ UNCHANGED <<mainVars, sendQueue, up, served>>
  BY DEF OnLoginReply, Replied, LoginInv, ReplyInv
<1>2. /\ Tail(down) \in Seq(LoginReply \cup {CreateEntityData})
      /\ Head(down) \in LoginReply \cup {CreateEntityData}
      /\ Len(down) \in Nat /\ Len(down) >= 1 /\ Len(Tail(down)) = Len(down) - 1
      /\ \A i \in 1..Len(Tail(down)) : Tail(down)[i] = down[i + 1]
  BY <1>1, HeadTailProperties, EmptySeq DEF LoginInv, WireInv
<1>3. Head(down) \in LoginReply /\ Head(down) = down[1]
  BY <1>1, <1>2, PacketFacts
<1>4. ASSUME NEW i \in 1..Len(down'), IsReply(down'[i]),
             \A j \in i+1..Len(down') : ~ IsReply(down'[j])
      PROVE  Agrees(down[i])'
  <2>1. i + 1 \in 1..Len(down) /\ down'[i] = down[i + 1]
    BY <1>1, <1>2
  <2>2. ASSUME NEW j \in (i + 1) + 1..Len(down)
        PROVE  ~ IsReply(down[j])
    <3>1. j - 1 \in i+1..Len(down') /\ down'[j - 1] = down[j]
      BY <1>1, <1>2
    <3> QED
      BY <3>1, <1>4
  <2> QED
    BY <1>1, <1>4, <2>1, <2>2 DEF LoginInv, ReplyInv, Agrees
<1>5. ASSUME \A i \in 1..Len(down') : ~ IsReply(down'[i])
      PROVE  Agrees(user)'
  <2>1. ASSUME NEW j \in 1+1..Len(down)
        PROVE  ~ IsReply(down[j])
    <3>1. j - 1 \in 1..Len(down') /\ down'[j - 1] = down[j]
      BY <1>1, <1>2
    <3> QED
      BY <3>1, <1>5
  <2>2. 1 \in 1..Len(down) /\ IsReply(down[1])
    BY <1>1, <1>2, <1>3
  <2>3. Agrees(down[1])
    BY <2>1, <2>2 DEF LoginInv, ReplyInv
  <2> QED
    BY <1>1, <1>3, <2>3 DEF Agrees
<1>6. WireInv'
  BY <1>1, <1>2, <1>3 DEF mainVars, LoginInv, WireInv, LoginReply
<1> QED
  BY <1>1, <1>4, <1>5, <1>6 DEF LoginInv, ReplyInv

\* A login that is answered is the last the client will hear of.
LEMMA OnLoginDataInv ==
  ASSUME LoginInv, OnLoginData
  PROVE  LoginInv'
<1>1. /\ up # <<>> /\ up' = Tail(up)
      /\ UNCHANGED <<mainVars, net, user, sendQueue>>
  BY DEF OnLoginData
<1>2. Head(up) \in FirstLogin /\ up' \in Seq(FirstLogin)
  BY <1>1, HeadTail DEF LoginInv, WireInv
<1>3. CASE ~ Expected(Head(up))
  BY <1>1, <1>2, <1>3 DEF OnLoginData, mainVars, LoginInv, WireInv, ReplyInv, Agrees
<1>4. CASE Expected(Head(up))
  <2> DEFINE name == Head(up).name
             userid == IF name \in Users THEN name ELSE served.userid
             reply == [op |-> "LoginReply", userid |-> userid, name |-> name]
             both == <<reply, CreateEntityData>>
  <2>1. served' = [userid |-> userid, name |-> name] /\ down' = down \o both
    BY <1>4 DEF OnLoginData
  <2>2. name \in Accounts /\ userid \in Users \cup {NoUser}
    BY <1>2 DEF FirstLogin, LoginData, LoginInv, WireInv
  <2>3. reply \in LoginReply
    BY <2>2 DEF LoginReply
  <2> DEFINE n == Len(down)
  <2>4. /\ both \in Seq(LoginReply \cup {CreateEntityData})
        /\ Len(both) = 2 /\ both[1] = reply /\ both[2] = CreateEntityData
    BY <2>3
  <2>5. served'.userid = reply.userid /\ served'.name = reply.name
    BY <2>1
  <2> HIDE DEF both, reply
  <2>6. /\ down' \in Seq(LoginReply \cup {CreateEntityData})
        /\ n \in Nat /\ Len(down') = n + 2
        /\ down'[n + 1] = reply /\ down'[n + 2] = CreateEntityData
    <3>1. down \in Seq(LoginReply \cup {CreateEntityData}) /\ n \in Nat
      BY LenProperties DEF LoginInv, WireInv
    <3>2. /\ down' \in Seq(LoginReply \cup {CreateEntityData})
          /\ Len(down') = n + Len(both)
          /\ \A i \in 1..Len(down) + Len(both) :
                down'[i] = IF i <= n THEN down[i] ELSE both[i - n]
      BY <3>1, <2>1, <2>4, ConcatProperties
    <3> HIDE DEF n
    <3>3. /\ n + 1 \in 1..n + 2 /\ ~ n + 1 <= n /\ (n + 1) - n = 1
          /\ n + 2 \in 1..n + 2 /\ ~ n + 2 <= n /\ (n + 2) - n = 2
      BY <3>1
    <3>4. \A i \in 1..n + 2 : down'[i] = IF i <= n THEN down[i] ELSE both[i - n]
      BY <3>2, <2>4 DEF n
    <3>5. down'[n + 1] = both[1] /\ down'[n + 2] = both[2]
      BY <3>3, <3>4
    <3> QED
      BY <3>1, <3>2, <3>5, <2>4
  <2>7. IsReply(reply) /\ ~ IsReply(CreateEntityData)
    BY <2>3, PacketFacts
  <2>8. ASSUME NEW i \in 1..Len(down'), IsReply(down'[i]),
               \A j \in i+1..Len(down') : ~ IsReply(down'[j])
        PROVE  Agrees(down[i])'
    <3>1. i = n + 1
      BY <2>6, <2>7, <2>8
    <3> QED
      BY <2>5, <2>6, <3>1 DEF Agrees
  <2>9. ~ \A i \in 1..Len(down') : ~ IsReply(down'[i])
    BY <2>6, <2>7
  <2>10. net' \in {"reply", "handle"} => down' # <<>> /\ IsReply(Head(down'))
    <3>1. net' \in {"reply", "handle"} => down # <<>> /\ IsReply(Head(down))
      BY <1>1 DEF LoginInv, ReplyInv
    <3>2. down # <<>> => down' # <<>> /\ Head(down') = Head(down)
      <4>1. SUFFICES ASSUME down # <<>> PROVE down' # <<>> /\ Head(down') = Head(down)
        OBVIOUS
      <4>2. n >= 1 /\ Len(down') = n + 2 /\ n \in Nat
        BY <4>1, <2>6, EmptySeq DEF LoginInv, WireInv
      <4>3. 1 \in 1..n + 2
        BY <4>2
      <4>4. down'[1] = down[1]
        BY <2>1, <2>4, <4>2, <4>3, ConcatProperties DEF LoginInv, WireInv
      <4> QED
        BY <4>2, <4>4, <2>6, EmptySeq
    <3> QED
      BY <3>1, <3>2
  <2>11. WireInv'
    BY <1>1, <1>2, <2>1, <2>2, <2>6 DEF mainVars, LoginInv, WireInv
  <2> QED
    BY <2>8, <2>9, <2>10, <2>11 DEF LoginInv, ReplyInv
<1> QED
  BY <1>3, <1>4

LEMMA LoginStep == LoginInv /\ [Next]_vars => LoginInv'
<1> SUFFICES ASSUME LoginInv, [Next]_vars PROVE LoginInv'
  OBVIOUS
<1>1. CASE OnConnect
  BY <1>1 DEF OnConnect, wireVars, LoginInv, WireInv, ReplyInv, Agrees
<1>2. CASE Connect
  BY <1>2 DEF Connect, LoginInv, WireInv, ReplyInv, Agrees
<1>3. CASE FindClient
  BY <1>3 DEF FindClient, mainVars, wireVars, LoginInv, WireInv, ReplyInv, Agrees
<1>4. CASE Send
  <2>1. Head(sendQueue) \in FirstLogin /\ sendQueue' \in Seq(FirstLogin)
    BY <1>4, HeadTail DEF Send, LoginInv, WireInv
  <2>2. up' \in Seq(FirstLogin)
    BY <1>4, <2>1 DEF Send, LoginInv, WireInv
  <2> QED
    BY <1>4, <2>1, <2>2 DEF Send, mainVars, LoginInv, WireInv, ReplyInv, Agrees
<1>5. CASE Quiet \/ CloseWindow \/ ConnectLock \/ Get \/ Check \/ Disconnect \/ Join
  BY <1>5
  DEF Quiet, CloseWindow, ConnectLock, Get, Check, Disconnect, Join, wireVars,
      LoginInv, WireInv, ReplyInv, Agrees
<1>6. CASE Turn \/ Flush \/ Sent
  BY <1>6
  DEF Turn, Flush, Sent, mainVars, wireVars, LoginInv, WireInv, ReplyInv, Agrees
<1>7. CASE ServerCloses \/ UNCHANGED vars
  BY <1>7
  DEF ServerCloses, vars, mainVars, wireVars, LoginInv, WireInv, ReplyInv, Agrees
<1> QED
  BY <1>1, <1>2, <1>3, <1>4, <1>5, <1>6, <1>7, TryLoginInv, ReceiveInv,
     OnLoginReplyInv, OnLoginDataInv
  DEF Next, Main, Net, SendFails, Stopped

THEOREM LoginInvariant == Spec => []LoginInv
  BY LoginInit, LoginStep, PTL DEF Spec

(***************************************************************************)
(* When no reply is under way, client and server agree on the user.        *)
(***************************************************************************)
THEOREM UserAgreesCorrect == Spec => []UserAgrees
<1>1. LoginInv => UserAgrees
  BY DEF LoginInv, ReplyInv, UserAgrees, IsReply, Agrees
<1> QED
  BY <1>1, LoginInvariant, PTL

(***************************************************************************)
(* A user the server has let in stays: what is under way is for userid 0.  *)
(***************************************************************************)
THEOREM UserStaysCorrect == Spec => UserStays
<1>1. LoginInv /\ [Next]_vars =>
         [served.userid # NoUser => served.userid' = served.userid]_vars
  <2> SUFFICES ASSUME LoginInv, [Next]_vars, served.userid # NoUser
               PROVE  served.userid' = served.userid
    OBVIOUS
  <2>1. CASE served' = served
    BY <2>1
  <2>2. CASE OnLoginData
    <3>1. Head(up) \in FirstLogin
      BY <2>2, HeadTail DEF OnLoginData, LoginInv, WireInv
    <3>2. ~ Expected(Head(up))
      BY <3>1 DEF Expected, FirstLogin
    <3> QED
      BY <2>2, <3>2 DEF OnLoginData
  <2> QED
    BY <2>1, <2>2
    DEF Next, Main, Net, vars, wireVars, Quiet, CloseWindow, OnConnect, ConnectLock,
        Connect, Get, TryLogin, Check, Disconnect, Join, Turn, Receive, FindClient,
        OnLoginReply, Flush, Send, SendFails, Sent, ServerCloses, Stopped
<1> QED
  BY <1>1, LoginInvariant, PTL DEF Spec, UserStays

-----------------------------------------------------------------------------
(***************************************************************************)
(* The types of what is left: the scene, the window and the connection.    *)
(***************************************************************************)
SceneInv ==
    /\ scene \in {"login", "world"} /\ open \in BOOLEAN /\ connected \in BOOLEAN
    /\ tries \in 0..MaxTries
    /\ server \in {"none", "up", "closed", "left"}

LEMMA SceneStep == SceneInv /\ [Next]_vars => SceneInv'
<1> SUFFICES ASSUME SceneInv, [Next]_vars PROVE SceneInv'
  OBVIOUS
<1> USE DEF SceneInv
<1>1. CASE OnConnect
  BY <1>1, NativeLoginAssumption DEF OnConnect, wireVars
<1>2. CASE Connect \/ Check \/ Disconnect \/ CloseWindow
  BY <1>2 DEF Connect, Check, Disconnect, Disconnected, CloseWindow, wireVars
<1>3. CASE Quiet \/ ConnectLock \/ Get \/ TryLogin \/ Join
  BY <1>3 DEF Quiet, ConnectLock, Get, TryLogin, Join, wireVars
<1>4. CASE Net
  BY <1>4 DEF Net, Turn, Receive, FindClient, OnLoginReply, Flush, Send, SendFails, Sent,
     mainVars, wireVars, vars
<1>5. CASE OnLoginData \/ ServerCloses \/ UNCHANGED vars
  BY <1>5 DEF OnLoginData, ServerCloses, vars, mainVars, wireVars
<1> QED
  BY <1>1, <1>2, <1>3, <1>4, <1>5 DEF Next, Main, Stopped

(***************************************************************************)
(* Every variable keeps its type, and which thread holds which mutex       *)
(* follows from where the two threads are: no function leaves with a mutex *)
(* it has taken (Client.cpp, connect, disconnect, run; LoginScene.cpp).    *)
(***************************************************************************)
THEOREM TypeCorrect == Spec => []TypeOK
<1>1. Init => SceneInv
  <2>1. 0 \in 0..MaxTries
    BY NativeLoginAssumption
  <2> QED
    BY <2>1 DEF Init, SceneInv
<1>2. FirstLogin \subseteq LoginData
  BY DEF FirstLogin
<1>3. WireInv => sendQueue \in Seq(LoginData) /\ up \in Seq(LoginData)
  BY <1>2 DEF WireInv
<1>4. HeldInv /\ LoginInv /\ SceneInv => TypeOK
  BY <1>3 DEF HeldInv, LoginInv, WireInv, SceneInv, TypeOK
<1> QED
  BY <1>1, <1>4, SceneStep, HeldInvariant, LoginInvariant, PTL DEF Spec
-----------------------------------------------------------------------------
(***************************************************************************)
(* The two ends keep one session.  Only the last reply can hold the user   *)
(* who was let in: the server answers nothing after it.  So until that     *)
(* reply is handled the client is nobody.                                  *)
(***************************************************************************)
SessionInv ==
    /\ user.userid \in {NoUser, served.userid}
    /\ user.state = NotLoggedIn => user.userid = NoUser
    /\ user.userid # NoUser => \A i \in 1..Len(down) : ~ IsReply(down[i])
    /\ \A i \in 1..Len(down) : IsReply(down[i]) =>
          /\ down[i].userid \in {NoUser, served.userid}
          /\ down[i].userid # NoUser =>
                \A j \in i+1..Len(down) : ~ IsReply(down[j])

\* A step of the session, or none.
SessionStep == Session!Next \/ UNCHANGED Session!vars

\* What holds of every packet under way and of those behind it holds of the rest.
LEMMA Shifted ==
    ASSUME LoginInv, down # <<>>, down' = Tail(down)
    PROVE  /\ Len(down) \in Nat /\ Len(down) >= 1 /\ Head(down) = down[1]
           /\ \A i \in 1..Len(down') : i + 1 \in 1..Len(down) /\ down'[i] = down[i + 1]
           /\ \A i \in 1..Len(down') : \A j \in i+1..Len(down') :
                 j + 1 \in (i + 1) + 1..Len(down)
<1>1. /\ Len(down) \in Nat /\ Len(down) >= 1 /\ Len(Tail(down)) = Len(down) - 1
      /\ \A i \in 1..Len(Tail(down)) : Tail(down)[i] = down[i + 1]
  BY HeadTailProperties, EmptySeq DEF LoginInv, WireInv
<1>2. Len(down') = Len(down) - 1 /\ \A i \in 1..Len(down') : down'[i] = down[i + 1]
  BY <1>1
<1> QED
  BY <1>1, <1>2

LEMMA TailSession ==
    ASSUME LoginInv, SessionInv, down # <<>>, down' = Tail(down), UNCHANGED served
    PROVE  \A i \in 1..Len(down') : IsReply(down'[i]) =>
              /\ down'[i].userid \in {NoUser, served'.userid}
              /\ down'[i].userid # NoUser =>
                    \A j \in i+1..Len(down') : ~ IsReply(down'[j])
<1> SUFFICES ASSUME NEW i \in 1..Len(down'), IsReply(down'[i])
             PROVE  /\ down'[i].userid \in {NoUser, served.userid}
                    /\ down'[i].userid # NoUser =>
                          \A j \in i+1..Len(down') : ~ IsReply(down'[j])
  OBVIOUS
<1>1. i + 1 \in 1..Len(down) /\ down'[i] = down[i + 1]
  BY Shifted
<1>2. /\ down[i + 1].userid \in {NoUser, served.userid}
      /\ down[i + 1].userid # NoUser =>
            \A j \in (i + 1) + 1..Len(down) : ~ IsReply(down[j])
  BY <1>1 DEF SessionInv
<1>3. ASSUME down'[i].userid # NoUser, NEW j \in i+1..Len(down')
      PROVE  ~ IsReply(down'[j])
  <2>1. j \in 1..Len(down')
    BY Shifted
  <2>2. j + 1 \in (i + 1) + 1..Len(down) /\ down'[j] = down[j + 1]
    BY <2>1, Shifted
  <2> QED
    BY <1>1, <1>2, <1>3, <2>2
<1> QED
  BY <1>1, <1>2, <1>3

LEMMA ReceiveSession ==
    ASSUME LoginInv, SessionInv, Receive
    PROVE  SessionInv' /\ SessionStep
<1>1. UNCHANGED <<user, served>>
  BY DEF Receive, mainVars
<1>2. SessionStep
  BY <1>1 DEF SessionStep, Session!vars
<1>3. CASE down' = down
  BY <1>1, <1>2, <1>3 DEF SessionInv
<1>4. CASE down # <<>> /\ down' = Tail(down)
  <2>1. ASSUME user.userid # NoUser, NEW i \in 1..Len(down')
        PROVE  ~ IsReply(down'[i])
    <3>1. i + 1 \in 1..Len(down) /\ down'[i] = down[i + 1]
      BY <1>4, Shifted
    <3> QED
      BY <2>1, <3>1 DEF SessionInv
  <2>2. \A i \in 1..Len(down') : IsReply(down'[i]) =>
              /\ down'[i].userid \in {NoUser, served'.userid}
              /\ down'[i].userid # NoUser =>
                    \A j \in i+1..Len(down') : ~ IsReply(down'[j])
    BY <1>1, <1>4, TailSession
  <2> QED
    BY <1>1, <1>2, <2>1, <2>2 DEF SessionInv
<1> QED
  BY <1>3, <1>4 DEF Receive

\* The client learns who it is, or that its login failed.
LEMMA OnLoginReplySession ==
    ASSUME LoginInv, SessionInv, OnLoginReply
    PROVE  SessionInv' /\ SessionStep
<1>1. /\ down # <<>> /\ IsReply(Head(down)) /\ down' = Tail(down)
      /\ user' = [state |-> LoggedIn, userid |-> Head(down).userid,
                  name |-> Head(down).name]
      /\ UNCHANGED served
  BY DEF OnLoginReply, Replied, LoginInv, ReplyInv
<1>2. 1 \in 1..Len(down) /\ Head(down) = down[1]
  BY <1>1, Shifted
<1>3. user.userid = NoUser
  BY <1>1, <1>2 DEF SessionInv
<1>4. user'.state = LoggedIn /\ user'.userid = down[1].userid
  BY <1>1, <1>2
<1>5. /\ user'.userid \in {NoUser, served.userid}
      /\ user'.userid # NoUser => \A j \in 1+1..Len(down) : ~ IsReply(down[j])
  BY <1>1, <1>2, <1>4 DEF SessionInv
<1>6. ASSUME user'.userid # NoUser, NEW i \in 1..Len(down')
      PROVE  ~ IsReply(down'[i])
  <2>1. i + 1 \in 1+1..Len(down) /\ down'[i] = down[i + 1]
    BY <1>1, Shifted
  <2> QED
    BY <1>5, <1>6, <2>1
<1>7. \A i \in 1..Len(down') : IsReply(down'[i]) =>
          /\ down'[i].userid \in {NoUser, served'.userid}
          /\ down'[i].userid # NoUser =>
                \A j \in i+1..Len(down') : ~ IsReply(down'[j])
  BY <1>1, TailSession
<1>8. SessionStep
  BY <1>1, <1>3, <1>5 DEF SessionStep, Session!Next, Session!Learn, Session!vars
<1> QED
  BY <1>1, <1>4, <1>5, <1>6, <1>7, <1>8, PacketFacts DEF SessionInv

\* The server lets a user in only when no reply under way holds one.
LEMMA OnLoginDataSession ==
    ASSUME LoginInv, SessionInv, OnLoginData
    PROVE  SessionInv' /\ SessionStep
<1>1. up # <<>> /\ UNCHANGED user /\ Head(up) \in FirstLogin
  BY HeadTail DEF OnLoginData, LoginInv, WireInv
<1>2. CASE ~ Expected(Head(up))
  <2>1. UNCHANGED <<served, down>>
    BY <1>2 DEF OnLoginData
  <2> QED
    BY <1>1, <2>1 DEF SessionInv, SessionStep, Session!vars
<1>3. CASE Expected(Head(up))
  <2> DEFINE name == Head(up).name
             userid == IF name \in Users THEN name ELSE served.userid
             reply == [op |-> "LoginReply", userid |-> userid, name |-> name]
             both == <<reply, CreateEntityData>>
  <2>1. served' = [userid |-> userid, name |-> name] /\ down' = down \o both
    BY <1>3 DEF OnLoginData
  <2>2. served.userid = NoUser /\ user.userid = NoUser
    BY <1>1, <1>3 DEF Expected, FirstLogin, SessionInv
  <2>3. served'.userid = userid /\ reply.userid = userid /\ userid \in Users \cup {NoUser}
    BY <2>1, <2>2
  <2>4. /\ Len(both) = 2 /\ both[1] = reply /\ both[2] = CreateEntityData
        /\ ~ IsReply(CreateEntityData)
    BY PacketFacts
  <2>5. SessionStep
    BY <1>1, <2>2, <2>3, NativeLoginAssumption
       DEF SessionStep, Session!Next, Session!Admit, Session!vars
  <2>6. both \in Seq(LoginReply \cup {CreateEntityData})
    BY <1>1, <2>3 DEF FirstLogin, LoginData, LoginReply
  <2>7. \A i \in 1..Len(down) : IsReply(down[i]) => down[i].userid = NoUser
    BY <2>2 DEF SessionInv
  <2> DEFINE n == Len(down)
  <2>8. down \in Seq(LoginReply \cup {CreateEntityData}) /\ n \in Nat
    BY LenProperties DEF LoginInv, WireInv
  <2> HIDE DEF both, reply, userid, name
  <2>9. /\ Len(down') = n + 2
        /\ \A i \in 1..n + 2 : down'[i] = IF i <= n THEN down[i] ELSE both[i - n]
    <3>1. down \in Seq(LoginReply \cup {CreateEntityData})
      BY <2>8
    <3>2. /\ Len(down \o both) = Len(down) + Len(both)
          /\ \A i \in 1..Len(down) + Len(both) :
                (down \o both)[i] = IF i <= Len(down) THEN down[i] ELSE both[i - Len(down)]
      BY <2>6, <3>1, ConcatProperties
    <3> QED
      BY <2>1, <2>4, <3>2
  <2> HIDE DEF n
  <2>10. ASSUME NEW i \in 1..n + 2, IsReply(down'[i])
         PROVE  \/ down'[i].userid = NoUser
                \/ i = n + 1 /\ down'[i].userid = userid
    <3>1. CASE i <= n
      <4>1. i \in 1..Len(down) /\ down'[i] = down[i]
        BY <2>8, <2>9, <3>1 DEF n
      <4> QED
        BY <2>7, <2>10, <4>1
    <3>2. CASE i = n + 1
      <4>1. down'[i] = both[1]
        <5>1. ~ i <= n /\ i - n = 1
          BY <2>8, <3>2
        <5> QED
          BY <2>9, <5>1
      <4> QED
        BY <2>3, <2>4, <3>2, <4>1
    <3>3. CASE i = n + 2
      <4>1. down'[i] = both[2]
        <5>1. ~ i <= n /\ i - n = 2
          BY <2>8, <3>3
        <5> QED
          BY <2>9, <5>1
      <4> QED
        BY <2>4, <2>10, <4>1
    <3> QED
      BY <2>8, <3>1, <3>2, <3>3
  <2>11. ASSUME NEW j \in (n + 1) + 1..n + 2 PROVE ~ IsReply(down'[j])
    <3>1. j \in 1..n + 2 /\ ~ j <= n /\ j - n = 2
      BY <2>8
    <3> QED
      BY <2>4, <2>9, <3>1
  <2>12. ASSUME NEW i \in 1..Len(down'), IsReply(down'[i])
         PROVE  /\ down'[i].userid \in {NoUser, served'.userid}
                /\ down'[i].userid # NoUser =>
                      \A j \in i+1..Len(down') : ~ IsReply(down'[j])
    BY <2>3, <2>9, <2>10, <2>11, <2>12
  <2> QED
    BY <1>1, <2>2, <2>5, <2>12 DEF SessionInv
<1> QED
  BY <1>2, <1>3

LEMMA TryLoginSession ==
    ASSUME LoginInv, SessionInv, TryLogin
    PROVE  SessionInv' /\ SessionStep
<1>1. UNCHANGED <<down, served>>
  BY DEF TryLogin, wireVars
<1>2. CASE MayLogin
  <2>1. user'.state = NotLoggedIn /\ user'.userid = NoUser /\ user.userid = NoUser
    BY <1>2 DEF TryLogin, MayLogin, SessionInv
  <2> QED
    BY <1>1, <2>1 DEF SessionInv, SessionStep, Session!vars
<1>3. CASE ~ MayLogin
  <2>1. UNCHANGED user
    BY <1>3 DEF TryLogin
  <2> QED
    BY <1>1, <2>1 DEF SessionInv, SessionStep, Session!vars
<1> QED
  BY <1>2, <1>3

LEMMA SessionInit == Init => SessionInv /\ Session!Init
<1> SUFFICES ASSUME Init PROVE SessionInv /\ Session!Init
  OBVIOUS
<1>1. down = <<>> /\ Len(down) = 0 /\ user.userid = NoUser /\ served.userid = NoUser
  BY EmptySeq DEF Init
<1> QED
  BY <1>1 DEF SessionInv, Session!Init

LEMMA SessionInvStep ==
    ASSUME LoginInv, SessionInv, [Next]_vars
    PROVE  SessionInv' /\ SessionStep
<1>1. CASE UNCHANGED <<user, served, down>>
  BY <1>1 DEF SessionInv, SessionStep, Session!vars
<1> QED
  BY <1>1, TryLoginSession, ReceiveSession, OnLoginReplySession, OnLoginDataSession
  DEF Next, Main, Net, vars, wireVars, Quiet, CloseWindow, OnConnect, ConnectLock, Connect,
      Get, Check, Disconnect, Join, Turn, FindClient, Flush, Send, SendFails, Sent,
      ServerCloses, Stopped

(***************************************************************************)
(* The client and the server keep one session, however often the form is   *)
(* sent before the first answer and whichever of the logins fail           *)
(* (LoginScene.cpp, tryLogin; Receive.cpp:49-88): the login implements     *)
(* LoginSession.                                                           *)
(***************************************************************************)
THEOREM LoginSessionImplemented == Spec => ImplementsLoginSession
<1>1. Init => SessionInv /\ Session!Init
  BY SessionInit
<1>2. LoginInv /\ SessionInv /\ [Next]_vars => SessionInv' /\ [Session!Next]_(Session!vars)
  BY SessionInvStep DEF SessionStep
<1> QED
  BY <1>1, <1>2, LoginInvariant, PTL DEF Spec, ImplementsLoginSession, Session!Spec
=============================================================================
