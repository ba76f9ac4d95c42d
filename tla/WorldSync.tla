------------------------------ MODULE WorldSync ------------------------------
(***************************************************************************)
(* How the entities of the server reach the worlds of the game clients.    *)
(*                                                                         *)
(* Three kinds of actor run here.  The server's reactor thread accepts     *)
(* connections and handles one packet of one connection at a time          *)
(* (LoginServer.cpp, Receive.cpp, Send.cpp, Player.cpp).  Each client has  *)
(* a receive thread, which decodes packets and appends to queues, one      *)
(* mutex section per element (Network.js), and a main thread, which runs   *)
(* the parts of a frame one after the other (WorldScript.js).  A step here *)
(* is one handler of the reactor, one mutex section of the receive thread, *)
(* or one part of a frame.                                                 *)
(*                                                                         *)
(* A member of Clients is one GameClient object.  It connects at most      *)
(* once: a TcpClient that has connected refuses a second Connect, and the  *)
(* login scene builds a new GameClient whenever it starts.                 *)
(*                                                                         *)
(* Queues and arrays of ids are counted, not ordered: the order of         *)
(* Entity::Keys is that of a hash table, and the client's drains do not    *)
(* depend on it but in the two places marked below, where the outcome is   *)
(* left open.  What transform packets carry is not modelled here, and      *)
(* neither are console packets.                                            *)
(***************************************************************************)
EXTENDS Integers, Sequences, FiniteSets

CONSTANTS Clients,    \* the GameClient objects
          MaxId,      \* bound: session ids the server may issue
          MaxPaths,   \* bound: paths of one client that wait or are under way
          Places,     \* the positions an entity may take, on a line
          Origin,     \* where a new entity is
          FarClip     \* Camera.main.farClipPlane, the same for all clients

ASSUME WorldAssumption ==
    /\ MaxId \in Nat \ {0}
    /\ MaxPaths \in Nat
    /\ Places \subseteq Int
    /\ Origin \in Places
    /\ FarClip \in Nat

Ids == 1..MaxId
Counts == [Ids -> Nat]
None == [i \in Ids |-> 0]
Listed(b) == {i \in Ids : b[i] > 0}

VARIABLES
    \* the server
    lastId,     \* IDGenerator::id
    live,       \* the keys of Entity::Map
    pos,        \* pos[i]: the position of entity i
    handler,    \* handler[c]: the LoginConnectionHandler of c's connection
    sid,        \* sid[c]: session id of the entity made for c's connection
    \* the two directions of each TCP connection, as whole packets
    c2s, s2c,
    \* shared by the two threads of a client
    check,      \* user.checkObjectsState
    createQ,    \* user.createEntityQueue
    destroyQ,   \* user.destroyEntityQueue
    \* the receive thread: what is left of the packet it is decoding
    rx,
    \* the main thread
    phase,      \* where the client is between its login scene and its end
    stage,      \* which part of World.Update runs next
    objects,    \* World.objects: how often each id occurs
    own,        \* World.entity: the session id of the controlled entity, or 0
    sendQueue   \* user.sendQueue

serverVars == <<lastId, live, pos, handler, sid>>
sharedVars == <<check, createQ, destroyQ>>
mainVars   == <<phase, stage, objects, own, sendQueue>>
vars == <<serverVars, c2s, s2c, sharedVars, rx, mainVars>>

LoginDataPacket == [op : {"LoginData"}]
TransformDataPacket == [op : {"TransformData"}, last : Places]
ObjectsDataPacket == [op : {"ObjectsData"}, state : {0, 1}, ids : Counts]
ClientPacket == LoginDataPacket \cup TransformDataPacket \cup ObjectsDataPacket

LoginReplyPacket == [op : {"LoginReply"}, ok : BOOLEAN]
CreateEntityPacket == [op : {"CreateEntityData"}, creates : SUBSET Ids]
ObjectsReplyPacket ==
    [op : {"ObjectsReply"}, state : {0, 1}, creates : SUBSET Ids, destroys : Counts]
TransformEntityPacket == [op : {"TransformEntityData"}]
ServerPacket == LoginReplyPacket \cup CreateEntityPacket
                \cup ObjectsReplyPacket \cup TransformEntityPacket

Work == [creates : SUBSET Ids, destroys : Counts]
Idle == [creates |-> {}, destroys |-> None]

(***************************************************************************)
(* One type invariant for every variable.                                  *)
(***************************************************************************)
TypeOK ==
    /\ lastId \in 0..MaxId
    /\ live \subseteq 1..lastId
    /\ pos \in [Ids -> Places]
    /\ handler \in [Clients -> {"none", "open", "ended"}]
    /\ sid \in [Clients -> 0..lastId]
    /\ c2s \in [Clients -> Seq(ClientPacket)]
    /\ s2c \in [Clients -> Seq(ServerPacket)]
    /\ check \in [Clients -> {0, 1}]
    /\ createQ \in [Clients -> Counts]
    /\ destroyQ \in [Clients -> Counts]
    /\ rx \in [Clients -> Work]
    /\ phase \in [Clients -> {"menu", "login", "failed", "loading", "world", "gone"}]
    /\ stage \in [Clients -> {"destroy", "create", "timers"}]
    /\ objects \in [Clients -> Counts]
    /\ own \in [Clients -> 0..MaxId]
    /\ sendQueue \in [Clients -> Seq(ClientPacket)]

Init ==
    /\ lastId = 0
    /\ live = {}
    /\ pos = [i \in Ids |-> Origin]
    /\ handler = [c \in Clients |-> "none"]
    /\ sid = [c \in Clients |-> 0]
    /\ c2s = [c \in Clients |-> <<>>]
    /\ s2c = [c \in Clients |-> <<>>]
    /\ check = [c \in Clients |-> 1]
    /\ createQ = [c \in Clients |-> None]
    /\ destroyQ = [c \in Clients |-> None]
    /\ rx = [c \in Clients |-> Idle]
    /\ phase = [c \in Clients |-> "menu"]
    /\ stage = [c \in Clients |-> "destroy"]
    /\ objects = [c \in Clients |-> None]
    /\ own = [c \in Clients |-> 0]
    /\ sendQueue = [c \in Clients |-> <<>>]

-----------------------------------------------------------------------------
(***************************************************************************)
(* The connection.                                                         *)
(***************************************************************************)

\* Packets reach a client that still has its end of the connection open.
Deliver(c, packets) ==
    s2c' = [s2c EXCEPT ![c] = IF phase[c] = "gone" THEN @ ELSE @ \o packets]

\* The player presses Connect: the socket connects, LoginData is sent and
\* the main thread blocks in ReceivePacket.
Connect(c) ==
    /\ phase[c] = "menu"
    /\ phase' = [phase EXCEPT ![c] = "login"]
    /\ c2s' = [c2s EXCEPT ![c] = Append(@, [op |-> "LoginData"])]
    /\ UNCHANGED <<serverVars, s2c, sharedVars, rx, stage, objects, own, sendQueue>>

\* The acceptor makes a connection handler, with a player and its entity.
Accept(c) ==
    /\ handler[c] = "none"
    /\ phase[c] # "menu"
    /\ lastId < MaxId
    /\ lastId' = lastId + 1
    /\ handler' = [handler EXCEPT ![c] = "open"]
    /\ sid' = [sid EXCEPT ![c] = lastId + 1]
    /\ live' = live \cup {lastId + 1}
    /\ pos' = [pos EXCEPT ![lastId + 1] = Origin]
    /\ UNCHANGED <<c2s, s2c, sharedVars, rx, mainVars>>

\* LoginConnectionHandler::end: the socket is closed, the handler deletes
\* itself and with it the player, whose destructor removes the entity.
End(c) ==
    /\ handler' = [handler EXCEPT ![c] = "ended"]
    /\ live' = live \ {sid[c]}
    /\ c2s' = [c2s EXCEPT ![c] = <<>>]
    /\ UNCHANGED <<lastId, pos, sid, s2c, sharedVars, rx, mainVars>>

\* The peer has closed: a read returns 0 bytes once everything is read, or
\* throws, when the close reset the connection, before that.
ReadClosed(c) ==
    /\ handler[c] = "open"
    /\ phase[c] = "gone"
    /\ End(c)

\* A Poco exception in the handler, such as a network failure.
ReadFails(c) ==
    /\ handler[c] = "open"
    /\ phase[c] # "gone"
    /\ End(c)

-----------------------------------------------------------------------------
(***************************************************************************)
(* The packets the server handles.  handler[c] = "open" and the head of    *)
(* c2s[c] select the function, as Receive::Map does.                       *)
(***************************************************************************)

Receives(c, op) ==
    /\ handler[c] = "open"
    /\ c2s[c] # <<>>
    /\ Head(c2s[c]).op = op
    /\ c2s' = [c2s EXCEPT ![c] = Tail(@)]

\* The reply always goes out, and the player's own entity after it, whether
\* or not the database knew the user.
LoginData(c) ==
    /\ Receives(c, "LoginData")
    /\ \E ok \in BOOLEAN :
          Deliver(c, << [op |-> "LoginReply", ok |-> ok],
                        [op |-> "CreateEntityData", creates |-> {sid[c]}] >>)
    /\ UNCHANGED <<serverVars, sharedVars, rx, mainVars>>

TransformData(c) ==
    /\ Receives(c, "TransformData")
    /\ pos' = [pos EXCEPT ![sid[c]] = Head(c2s[c]).last]
    /\ UNCHANGED <<lastId, live, handler, sid, s2c, sharedVars, rx, mainVars>>

\* glm::length2 against the square of the clip distance.
InClip(c, i) ==
    (pos[sid[c]] - pos[i]) * (pos[sid[c]] - pos[i]) <= FarClip * FarClip

Stale_Never(c, ids) == {}
Stale_SkipsFirst(c, ids) == Listed(ids) \ {k \in live : \E j \in live : j < k}

\* The listed ids the server no longer has.
Stale(c, ids) == Listed(ids) \ live

\* A key is created when the scan of the list leaves its entityState at 0:
\* the key is not listed and, as one variable serves the whole scan, no
\* listed id is stale.
Creates(c, ids) ==
    IF Stale(c, ids) = {} THEN {i \in live \ Listed(ids) : InClip(c, i)} ELSE {}

\* The list is scanned once for every key, and every scan queues every
\* occurrence of a stale id.
Destroys(c, ids) ==
    [i \in Ids |-> IF i \in Stale(c, ids) THEN ids[i] * Cardinality(live) ELSE 0]

\* The reply echoes the state of the packet, which lets the client ask again.
ReplyState_Length(m) == Cardinality(Listed(m.ids)) + 1
ReplyState(m) == m.state

ObjectsData(c) ==
    /\ Receives(c, "ObjectsData")
    /\ LET m == Head(c2s[c])
       IN  Deliver(c, << [op |-> "ObjectsReply", state |-> ReplyState(m),
                          creates |-> Creates(c, m.ids),
                          destroys |-> Destroys(c, m.ids)],
                         [op |-> "TransformEntityData"] >>)
    /\ UNCHANGED <<serverVars, sharedVars, rx, mainVars>>

-----------------------------------------------------------------------------
(***************************************************************************)
(* The client: its login, and its receive thread.                          *)
(***************************************************************************)

Arrived(c, op) ==
    /\ s2c[c] # <<>>
    /\ Head(s2c[c]).op = op
    /\ s2c' = [s2c EXCEPT ![c] = Tail(@)]

\* Init reads one packet.  A reply with another user id logs the player in
\* and loads the world; any other leaves the login scene with a connection.
LoginReply(c) ==
    /\ phase[c] = "login"
    /\ Arrived(c, "LoginReply")
    /\ phase' = [phase EXCEPT ![c] = IF Head(s2c[c]).ok THEN "loading" ELSE "failed"]
    /\ UNCHANGED <<serverVars, c2s, sharedVars, rx, stage, objects, own, sendQueue>>

\* The server ended the connection first: Receive returns 0 bytes.
LoginEnds(c) ==
    /\ phase[c] = "login"
    /\ handler[c] = "ended"
    /\ s2c[c] = <<>>
    /\ phase' = [phase EXCEPT ![c] = "failed"]
    /\ UNCHANGED <<serverVars, c2s, s2c, sharedVars, rx, stage, objects, own, sendQueue>>

\* The constructor of World starts the receive thread.
StartReceiving(c) ==
    /\ phase[c] = "loading"
    /\ phase' = [phase EXCEPT ![c] = "world"]
    /\ UNCHANGED <<serverVars, c2s, s2c, sharedVars, rx, stage, objects, own, sendQueue>>

\* The receive thread takes the next packet once it is done with the last.
Receiving(c, op) ==
    /\ phase[c] = "world"
    /\ rx[c] = Idle
    /\ Arrived(c, op)

CreateEntity(c) ==
    /\ Receiving(c, "CreateEntityData")
    /\ rx' = [rx EXCEPT ![c] = [Idle EXCEPT !.creates = Head(s2c[c]).creates]]
    /\ UNCHANGED <<serverVars, c2s, sharedVars, mainVars>>

\* The state is set first, in a mutex section of its own; the creates and
\* then the destroys follow one by one.
ObjectsReply(c) ==
    /\ Receiving(c, "ObjectsReply")
    /\ LET m == Head(s2c[c])
       IN  /\ check' = [check EXCEPT ![c] = m.state]
           /\ rx' = [rx EXCEPT ![c] = [creates |-> m.creates, destroys |-> m.destroys]]
    /\ UNCHANGED <<serverVars, c2s, createQ, destroyQ, mainVars>>

TransformEntity(c) ==
    /\ Receiving(c, "TransformEntityData")
    /\ UNCHANGED <<serverVars, c2s, sharedVars, rx, mainVars>>

EnqueueCreate(c) ==
    /\ phase[c] = "world"
    /\ \E i \in rx[c].creates :
          /\ rx' = [rx EXCEPT ![c].creates = @ \ {i}]
          /\ createQ' = [createQ EXCEPT ![c][i] = @ + 1]
    /\ UNCHANGED <<serverVars, c2s, s2c, check, destroyQ, mainVars>>

EnqueueDestroy(c) ==
    /\ phase[c] = "world"
    /\ rx[c].creates = {}
    /\ \E i \in Listed(rx[c].destroys) :
          /\ rx' = [rx EXCEPT ![c].destroys[i] = @ - 1]
          /\ destroyQ' = [destroyQ EXCEPT ![c][i] = @ + 1]
    /\ UNCHANGED <<serverVars, c2s, s2c, check, createQ, mainVars>>

-----------------------------------------------------------------------------
(***************************************************************************)
(* The client's main thread: World.Update, part by part.                   *)
(***************************************************************************)

Frame(c, part, next) ==
    /\ phase[c] = "world"
    /\ stage[c] = part
    /\ stage' = [stage EXCEPT ![c] = next]
    /\ UNCHANGED <<serverVars, s2c, rx, phase>>

\* The scan that looks for an id to destroy steps over the element that
\* follows each one it removes, so of n copies at most half survive it; how
\* many do depends on where they stand in the array.
Survivors_All(n, passes) == {n}
Survivors(n, passes) == {k \in 0..n : k * 2 ^ passes <= n}

\* Never the player's own entity.
UpdateDestroyEntities(c) ==
    /\ Frame(c, "destroy", "create")
    /\ \E after \in [Ids -> UNION {0..objects[c][i] : i \in Ids}] :
          /\ \A i \in Ids :
                IF i # own[c] /\ destroyQ[c][i] > 0
                THEN after[i] \in Survivors(objects[c][i], destroyQ[c][i])
                ELSE after[i] = objects[c][i]
          /\ objects' = [objects EXCEPT ![c] = after]
    /\ destroyQ' = [destroyQ EXCEPT ![c] = None]
    /\ UNCHANGED <<c2s, check, createQ, own, sendQueue>>

\* The queue is emptied from its end.  Every entity of the server has mode
\* 2, so whichever is popped first becomes the player's own, if it has none.
UpdateCreateEntities(c) ==
    /\ Frame(c, "create", "timers")
    /\ objects' = [objects EXCEPT ![c] = [i \in Ids |-> @[i] + createQ[c][i]]]
    /\ IF own[c] = 0 /\ Listed(createQ[c]) # {}
       THEN \E i \in Listed(createQ[c]) : own' = [own EXCEPT ![c] = i]
       ELSE UNCHANGED own
    /\ createQ' = [createQ EXCEPT ![c] = None]
    /\ UNCHANGED <<c2s, check, destroyQ, sendQueue>>

\* The poll: enabled by the state the last reply set, which it turns off.
MayPoll_Always(c) == TRUE
MayPoll(c) == check[c] = 1
Poll_Cleared(c) ==
    IF MayPoll(c)
    THEN << [op |-> "ObjectsData", state |-> 0, ids |-> objects[c]] >>
    ELSE <<>>
Poll(c) ==
    IF MayPoll(c)
    THEN << [op |-> "ObjectsData", state |-> check[c], ids |-> objects[c]] >>
    ELSE <<>>

HasEntity_Ignored(c) == TRUE
HasEntity(c) == own[c] # 0

\* What the path timer adds to the send queue: nothing, or a path that it
\* completes with its fifth node, whose last position is what counts here.
\* Between two sends the queue holds nothing but paths.
PathsUnderWay(c) ==
    Len(sendQueue[c])
    + Cardinality({k \in 1..Len(c2s[c]) : c2s[c][k].op = "TransformData"})
UpdatePath(c) ==
    {<<>>} \cup (IF PathsUnderWay(c) < MaxPaths
                 THEN {<< [op |-> "TransformData", last |-> p] >> : p \in Places}
                 ELSE {})

\* Both timers need an own entity.  The session timer does not fire in this
\* frame: at most a path joins the send queue.
NoSession(c) ==
    /\ Frame(c, "timers", "destroy")
    /\ \E path \in UpdatePath(c) :
          /\ path # <<>> => HasEntity(c)
          /\ sendQueue' = [sendQueue EXCEPT ![c] = @ \o path]
    /\ UNCHANGED <<c2s, sharedVars, objects, own>>

\* The session timer fires: the poll joins the send queue, which is sent.
\* What is sent on a connection the server has ended is lost.
UpdateSession(c) ==
    /\ Frame(c, "timers", "destroy")
    /\ HasEntity(c)
    /\ \E path \in UpdatePath(c) :
          c2s' = [c2s EXCEPT ![c] = IF handler[c] = "ended" THEN @
                                    ELSE @ \o sendQueue[c] \o path \o Poll(c)]
    /\ sendQueue' = [sendQueue EXCEPT ![c] = <<>>]
    /\ check' = [check EXCEPT ![c] = IF MayPoll(c) THEN 0 ELSE @]
    /\ UNCHANGED <<createQ, destroyQ, objects, own>>

-----------------------------------------------------------------------------
(***************************************************************************)
(* The end of a client.                                                    *)
(***************************************************************************)

\* The receive thread stops, the socket is closed and the client's state is
\* not used again.
Close(c) ==
    /\ phase' = [phase EXCEPT ![c] = "gone"]
    /\ s2c' = [s2c EXCEPT ![c] = <<>>]
    /\ check' = [check EXCEPT ![c] = 1]
    /\ createQ' = [createQ EXCEPT ![c] = None]
    /\ destroyQ' = [destroyQ EXCEPT ![c] = None]
    /\ rx' = [rx EXCEPT ![c] = Idle]
    /\ stage' = [stage EXCEPT ![c] = "destroy"]
    /\ objects' = [objects EXCEPT ![c] = None]
    /\ own' = [own EXCEPT ![c] = 0]
    /\ sendQueue' = [sendQueue EXCEPT ![c] = <<>>]
    /\ UNCHANGED <<serverVars, c2s>>

\* The player leaves the scene or the program, or the program dies.
OnDestroy(c) ==
    /\ phase[c] \notin {"menu", "gone"}
    /\ Close(c)

\* Sending on a connection that the server has ended throws: Logout.
Logout(c) ==
    /\ phase[c] = "world"
    /\ stage[c] = "timers"
    /\ HasEntity(c)
    /\ handler[c] = "ended"
    /\ \E path \in UpdatePath(c) : sendQueue[c] \o path \o Poll(c) # <<>>
    /\ Close(c)

-----------------------------------------------------------------------------
Reactor(c) ==
    \/ Accept(c) \/ ReadClosed(c)
    \/ LoginData(c) \/ TransformData(c) \/ ObjectsData(c)

ReceiveThread(c) ==
    \/ CreateEntity(c) \/ ObjectsReply(c) \/ TransformEntity(c)
    \/ EnqueueCreate(c) \/ EnqueueDestroy(c)

MainThread(c) ==
    \/ LoginReply(c) \/ LoginEnds(c) \/ StartReceiving(c)
    \/ UpdateDestroyEntities(c) \/ UpdateCreateEntities(c)
    \/ UpdateSession(c) \/ NoSession(c) \/ Logout(c)

Next ==
    \E c \in Clients :
        \/ Connect(c) \/ OnDestroy(c) \/ ReadFails(c)
        \/ Reactor(c) \/ ReceiveThread(c) \/ MainThread(c)

Spec == Init /\ [][Next]_vars

(***************************************************************************)
(* The reactor serves every connection that is readable, both threads of a *)
(* client keep running, and the session timer, which only counts the time  *)
(* of frames, fires again and again.  Nobody has to connect, to leave, or  *)
(* to move.                                                                *)
(***************************************************************************)
FairClient(c) ==
    /\ WF_vars(Reactor(c))
    /\ WF_vars(ReceiveThread(c))
    /\ WF_vars(MainThread(c))
    /\ SF_vars(UpdateSession(c))

Fairness == \A c \in Clients : FairClient(c)

FairSpec == Spec /\ Fairness

-----------------------------------------------------------------------------
(***************************************************************************)
(* Properties.                                                             *)
(***************************************************************************)

PollsAt(c) == {k \in 1..Len(c2s[c]) : c2s[c][k].op = "ObjectsData"}
RepliesAt(c) == {k \in 1..Len(s2c[c]) : s2c[c][k].op = "ObjectsReply"}

(***************************************************************************)
(* A client has at most one poll of its objects under way: one is on its   *)
(* way to the server, or one reply is on its way back, or the client may   *)
(* send the next, and never two of these.  The client's two threads and    *)
(* the server pass checkObjectsState around to keep it so.                 *)
(***************************************************************************)
OnePoll ==
    \A c \in Clients : phase[c] # "gone" =>
        /\ \A k, l \in PollsAt(c) : k = l
        /\ \A k, l \in RepliesAt(c) : k = l
        /\ PollsAt(c) # {} => RepliesAt(c) = {} /\ check[c] = 0
        /\ RepliesAt(c) # {} => check[c] = 0

(***************************************************************************)
(* Nor is the poll ever lost: while a client is in the world on an open    *)
(* connection, one of the three holds.  The flag is turned off when a poll *)
(* is sent, and only the state that travels with the poll and comes back   *)
(* with its reply turns it on again.                                       *)
(***************************************************************************)
PollNotLost ==
    \A c \in Clients : phase[c] = "world" /\ handler[c] = "open" =>
        check[c] = 1 \/ PollsAt(c) # {} \/ RepliesAt(c) # {}

(***************************************************************************)
(* The entity a player controls is the one the server made for that        *)
(* player's connection, and it is in the world exactly once.  The server   *)
(* sends every entity with the same mode, so which of them becomes the     *)
(* player's own rests on what arrives first.                               *)
(***************************************************************************)
OwnIsSession ==
    \A c \in Clients : own[c] # 0 =>
        /\ own[c] = sid[c]
        /\ objects[c][own[c]] = 1

(***************************************************************************)
(* Whatever a client is told to destroy, at any point between the server   *)
(* and its array of objects, is an entity the server no longer has, and    *)
(* never will have again.                                                  *)
(***************************************************************************)
Doomed(c) ==
    Listed(destroyQ[c]) \cup Listed(rx[c].destroys)
    \cup UNION {Listed(s2c[c][k].destroys) : k \in RepliesAt(c)}
DestroysAreDead == \A c \in Clients : Doomed(c) \subseteq (1..lastId) \ live

(***************************************************************************)
(* A poll that overtakes the creates of the reply before it makes the      *)
(* server send an entity again; the client does not look for one it has.   *)
(* That can happen for two polls in a row and not for a third: between the *)
(* server and the array there are never more than three copies of an       *)
(* entity at one client.                                                   *)
(***************************************************************************)
Copies(c, i) ==
    objects[c][i] + createQ[c][i] + Cardinality({i} \cap rx[c].creates)
    + Cardinality({k \in RepliesAt(c) : i \in s2c[c][k].creates})
ThreeCopies == \A c \in Clients, i \in Ids : Copies(c, i) <= 3

(***************************************************************************)
(* A client in the world never stops showing an entity that is still live: *)
(* neither a destroy nor the scan that skips elements removes one.         *)
(***************************************************************************)
LiveStaysShown ==
    [][\A c \in Clients, i \in Ids :
          (phase'[c] = "world" /\ objects[c][i] > 0 /\ i \in live)
          => objects'[c][i] > 0]_vars

\* Client c stays in the world, connected, and has been given its entity.
Settled(c) == phase[c] = "world" /\ handler[c] = "open" /\ own[c] # 0

(***************************************************************************)
(* An entity that is gone from the server goes from every world in the     *)
(* end, all copies of it, although each pass may skip some.                *)
(***************************************************************************)
GhostsLeave ==
    \A c \in Clients, i \in Ids :
        <>[](Settled(c) /\ i <= lastId /\ i \notin live) => <>[](objects[c][i] = 0)

\* The settled client c and the live entity i are within the clip distance.
Neighbour(c, i) == Settled(c) /\ i \in live /\ InClip(c, i)

(***************************************************************************)
(* An entity that stays live, within the clip distance of a player who     *)
(* stays, comes to be shown, although replies leave entities out while     *)
(* the client lists stale ones.                                            *)
(***************************************************************************)
NeighboursAppear ==
    \A c \in Clients, i \in Ids :
        <>[]Neighbour(c, i) => <>[](objects[c][i] > 0)

(***************************************************************************)
(* The promise of ObjectsData in Network.js: if the client has not         *)
(* registered an entity, the server sends back the data to create it.      *)
(***************************************************************************)
UnregisteredAreCreated ==
    [][\A c \in Clients : ObjectsData(c) =>
          LET m == Head(c2s[c])
          IN  {i \in live \ Listed(m.ids) : InClip(c, i)} \subseteq Creates(c, m.ids)]_vars

-----------------------------------------------------------------------------
(***************************************************************************)
(* The abstract view of the synchronisation.                               *)
(***************************************************************************)
Present == {c \in Clients : phase[c] = "world"}
View == [c \in Clients |-> Listed(objects[c])]
Abstract == INSTANCE WorldView WITH present <- Present, view <- View

\* The worlds of the clients are a view of the server's entities.
ImplementsWorldView == Abstract!Spec
=============================================================================
