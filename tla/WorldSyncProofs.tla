--------------------------- MODULE WorldSyncProofs ---------------------------
(***************************************************************************)
(* Theorems about WorldSync, for every set of clients, every number of     *)
(* ids and every set of places.                                            *)
(***************************************************************************)
EXTENDS WorldSync, TLAPS, FiniteSetTheorems, SequenceTheorems

-----------------------------------------------------------------------------
(***************************************************************************)
(* Facts about the constants and the operators on counts.                  *)
(***************************************************************************)
LEMMA IdFacts == /\ Ids \subseteq Nat /\ None \in Counts /\ Idle \in Work
                 /\ Listed(None) = {} /\ 0 \in 0..MaxId
  BY WorldAssumption DEF Ids, None, Counts, Idle, Work, Listed

LEMMA ProductInNat == ASSUME NEW a \in Nat, NEW b \in Nat PROVE a * b \in Nat
  BY SMT

LEMMA OneInSeq == ASSUME NEW S, NEW x \in S PROVE <<x>> \in Seq(S)
  OBVIOUS

\* The number of live entities is a natural number: they are among the ids.
LEMMA LiveFinite ==
  ASSUME TypeOK
  PROVE  IsFiniteSet(live) /\ Cardinality(live) \in Nat
<1>1. IsFiniteSet(1..lastId)
  BY FS_Interval, WorldAssumption DEF TypeOK
<1>2. live \subseteq 1..lastId
  BY DEF TypeOK
<1> QED
  BY <1>1, <1>2, FS_Subset, FS_CardinalityType

LEMMA DestroysInCounts ==
  ASSUME TypeOK, NEW c, NEW ids \in Counts
  PROVE  Destroys(c, ids) \in Counts
<1>1. ASSUME NEW i \in Ids PROVE ids[i] * Cardinality(live) \in Nat
  BY LiveFinite, ProductInNat DEF Counts
<1> QED
  BY <1>1 DEF Destroys, Counts

-----------------------------------------------------------------------------
(***************************************************************************)
(* Type correctness.  TypeOK is not inductive alone: the entity of an open *)
(* connection must have an id, or the server would send the id 0.          *)
(***************************************************************************)
HasSession == \A c \in Clients : handler[c] = "open" => sid[c] # 0
TypeInv == TypeOK /\ HasSession

LEMMA TypeInit == Init => TypeInv
  BY IdFacts, WorldAssumption DEF Init, TypeInv, TypeOK, HasSession, Ids

LEMMA ConnectType ==
  ASSUME TypeInv, NEW c \in Clients, Connect(c)
  PROVE  TypeInv'
  BY DEF TypeInv, TypeOK, HasSession, Connect, serverVars, sharedVars,
         ClientPacket, LoginDataPacket

LEMMA AcceptType ==
  ASSUME TypeInv, NEW c \in Clients, Accept(c)
  PROVE  TypeInv'
<1>1. /\ lastId' \in 0..MaxId
      /\ live' \subseteq 1..lastId'
      /\ sid' \in [Clients -> 0..lastId']
      /\ HasSession'
  BY WorldAssumption DEF TypeInv, TypeOK, HasSession, Accept
<1>2. /\ pos' \in [Ids -> Places]
      /\ handler' \in [Clients -> {"none", "open", "ended"}]
  BY WorldAssumption DEF TypeInv, TypeOK, Accept
<1> QED
  BY <1>1, <1>2 DEF TypeInv, TypeOK, Accept, sharedVars, mainVars

LEMMA EndType ==
  ASSUME TypeInv, NEW c \in Clients, End(c)
  PROVE  TypeInv'
<1>1. c2s' \in [Clients -> Seq(ClientPacket)]
  BY DEF TypeInv, TypeOK, End
<1>2. live' \subseteq 1..lastId'
  BY DEF TypeInv, TypeOK, End
<1> QED
  BY <1>1, <1>2 DEF TypeInv, TypeOK, HasSession, End, sharedVars, mainVars

LEMMA DeliverType ==
  ASSUME TypeOK, NEW c \in Clients, NEW p \in ServerPacket, NEW q \in ServerPacket,
         Deliver(c, <<p, q>>)
  PROVE  s2c' \in [Clients -> Seq(ServerPacket)]
  BY DEF Deliver, TypeOK

LEMMA ReceivesType ==
  ASSUME TypeOK, NEW c \in Clients, NEW op, Receives(c, op)
  PROVE  /\ c2s' \in [Clients -> Seq(ClientPacket)]
         /\ Head(c2s[c]) \in ClientPacket
  BY DEF Receives, TypeOK

LEMMA LoginDataType ==
  ASSUME TypeInv, NEW c \in Clients, LoginData(c)
  PROVE  TypeInv'
<1>1. c2s' \in [Clients -> Seq(ClientPacket)]
  BY ReceivesType DEF LoginData, TypeInv
<1>2. s2c' \in [Clients -> Seq(ServerPacket)]
  <2>1. sid[c] \in Ids
    BY WorldAssumption DEF TypeInv, TypeOK, HasSession, LoginData, Receives, Ids
  <2>2. PICK ok \in BOOLEAN :
           Deliver(c, << [op |-> "LoginReply", ok |-> ok],
                         [op |-> "CreateEntityData", creates |-> {sid[c]}] >>)
    BY DEF LoginData
  <2>3. /\ [op |-> "LoginReply", ok |-> ok] \in ServerPacket
        /\ [op |-> "CreateEntityData", creates |-> {sid[c]}] \in ServerPacket
    BY <2>1 DEF ServerPacket, LoginReplyPacket, CreateEntityPacket
  <2> QED
    BY <2>2, <2>3, DeliverType DEF TypeInv
<1> QED
  BY <1>1, <1>2 DEF TypeInv, TypeOK, HasSession, LoginData, serverVars,
                    sharedVars, mainVars

LEMMA TransformDataType ==
  ASSUME TypeInv, NEW c \in Clients, TransformData(c)
  PROVE  TypeInv'
<1>1. /\ c2s' \in [Clients -> Seq(ClientPacket)]
      /\ Head(c2s[c]) \in ClientPacket /\ Head(c2s[c]).op = "TransformData"
  BY ReceivesType DEF TransformData, TypeInv, Receives
<1>2. Head(c2s[c]).last \in Places
  BY <1>1 DEF ClientPacket, LoginDataPacket, TransformDataPacket, ObjectsDataPacket
<1> QED
  BY <1>1, <1>2 DEF TypeInv, TypeOK, HasSession, TransformData, sharedVars, mainVars

LEMMA ReplyType ==
  ASSUME TypeInv, NEW c \in Clients, NEW ids \in Counts, NEW state \in {0, 1}
  PROVE  /\ [op |-> "ObjectsReply", state |-> state,
             creates |-> Creates(c, ids), destroys |-> Destroys(c, ids)]
            \in ServerPacket
         /\ [op |-> "TransformEntityData"] \in ServerPacket
<1>1. live \subseteq Ids
  BY WorldAssumption DEF TypeInv, TypeOK, Ids
<1>2. Creates(c, ids) \subseteq Ids /\ Destroys(c, ids) \in Counts
  BY <1>1, DestroysInCounts DEF TypeInv, Creates
<1> QED
  BY <1>2 DEF ServerPacket, ObjectsReplyPacket, TransformEntityPacket

LEMMA ObjectsDataType ==
  ASSUME TypeInv, NEW c \in Clients, ObjectsData(c)
  PROVE  TypeInv'
<1> DEFINE m == Head(c2s[c])
<1>1. /\ c2s' \in [Clients -> Seq(ClientPacket)]
      /\ m \in ClientPacket /\ m.op = "ObjectsData"
  BY ReceivesType DEF ObjectsData, TypeInv, Receives
<1>2. m.state \in {0, 1} /\ m.ids \in Counts
  BY <1>1 DEF ClientPacket, LoginDataPacket, TransformDataPacket, ObjectsDataPacket
<1>3. /\ [op |-> "ObjectsReply", state |-> ReplyState(m),
          creates |-> Creates(c, m.ids), destroys |-> Destroys(c, m.ids)]
         \in ServerPacket
      /\ [op |-> "TransformEntityData"] \in ServerPacket
  BY <1>2, ReplyType DEF ReplyState
<1>4. s2c' \in [Clients -> Seq(ServerPacket)]
  BY <1>3, DeliverType DEF ObjectsData, TypeInv
<1> QED
  BY <1>1, <1>4 DEF TypeInv, TypeOK, HasSession, ObjectsData, serverVars,
                    sharedVars, mainVars
-----------------------------------------------------------------------------
LEMMA ArrivedType ==
  ASSUME TypeOK, NEW c \in Clients, NEW op, Arrived(c, op)
  PROVE  /\ s2c' \in [Clients -> Seq(ServerPacket)]
         /\ Head(s2c[c]) \in ServerPacket
  BY DEF Arrived, TypeOK

LEMMA LoginReplyType ==
  ASSUME TypeInv, NEW c \in Clients, LoginReply(c)
  PROVE  TypeInv'
<1>1. s2c' \in [Clients -> Seq(ServerPacket)]
  BY ArrivedType DEF LoginReply, TypeInv
<1> QED
  BY <1>1 DEF TypeInv, TypeOK, HasSession, LoginReply, serverVars, sharedVars

LEMMA LoginEndsType ==
  ASSUME TypeInv, NEW c \in Clients, LoginEnds(c)
  PROVE  TypeInv'
  BY DEF TypeInv, TypeOK, HasSession, LoginEnds, serverVars, sharedVars

LEMMA StartReceivingType ==
  ASSUME TypeInv, NEW c \in Clients, StartReceiving(c)
  PROVE  TypeInv'
  BY DEF TypeInv, TypeOK, HasSession, StartReceiving, serverVars, sharedVars

LEMMA CreateEntityType ==
  ASSUME TypeInv, NEW c \in Clients, CreateEntity(c)
  PROVE  TypeInv'
<1>1. /\ s2c' \in [Clients -> Seq(ServerPacket)]
      /\ Head(s2c[c]) \in ServerPacket /\ Head(s2c[c]).op = "CreateEntityData"
  BY ArrivedType DEF CreateEntity, Receiving, TypeInv, Arrived
<1>2. Head(s2c[c]).creates \subseteq Ids
  BY <1>1 DEF ServerPacket, LoginReplyPacket, CreateEntityPacket,
              ObjectsReplyPacket, TransformEntityPacket
<1>3. rx' \in [Clients -> Work]
  BY <1>2, IdFacts DEF CreateEntity, TypeInv, TypeOK, Work, Idle
<1> QED
  BY <1>1, <1>3 DEF TypeInv, TypeOK, HasSession, CreateEntity, serverVars,
                    sharedVars, mainVars

LEMMA ObjectsReplyType ==
  ASSUME TypeInv, NEW c \in Clients, ObjectsReply(c)
  PROVE  TypeInv'
<1> DEFINE m == Head(s2c[c])
<1>1. /\ s2c' \in [Clients -> Seq(ServerPacket)]
      /\ m \in ServerPacket /\ m.op = "ObjectsReply"
  BY ArrivedType DEF ObjectsReply, Receiving, TypeInv, Arrived
<1>2. m.state \in {0, 1} /\ m.creates \subseteq Ids /\ m.destroys \in Counts
  BY <1>1 DEF ServerPacket, LoginReplyPacket, CreateEntityPacket,
              ObjectsReplyPacket, TransformEntityPacket
<1>3. /\ rx' \in [Clients -> Work]
      /\ check' \in [Clients -> {0, 1}]
  BY <1>2 DEF ObjectsReply, TypeInv, TypeOK, Work
<1> QED
  BY <1>1, <1>3 DEF TypeInv, TypeOK, HasSession, ObjectsReply, serverVars, mainVars

LEMMA TransformEntityType ==
  ASSUME TypeInv, NEW c \in Clients, TransformEntity(c)
  PROVE  TypeInv'
<1>1. s2c' \in [Clients -> Seq(ServerPacket)]
  BY ArrivedType DEF TransformEntity, Receiving, TypeInv
<1> QED
  BY <1>1 DEF TypeInv, TypeOK, HasSession, TransformEntity, serverVars,
              sharedVars, mainVars

LEMMA EnqueueCreateType ==
  ASSUME TypeInv, NEW c \in Clients, EnqueueCreate(c)
  PROVE  TypeInv'
<1>1. PICK i \in rx[c].creates :
         /\ rx' = [rx EXCEPT ![c].creates = @ \ {i}]
         /\ createQ' = [createQ EXCEPT ![c][i] = @ + 1]
  BY DEF EnqueueCreate
<1>2. rx' \in [Clients -> Work]
  BY <1>1 DEF TypeInv, TypeOK, Work
<1>3. createQ' \in [Clients -> Counts]
  BY <1>1 DEF TypeInv, TypeOK, Work, Counts
<1> QED
  BY <1>2, <1>3 DEF TypeInv, TypeOK, HasSession, EnqueueCreate, serverVars, mainVars

LEMMA EnqueueDestroyType ==
  ASSUME TypeInv, NEW c \in Clients, EnqueueDestroy(c)
  PROVE  TypeInv'
<1>1. PICK i \in Listed(rx[c].destroys) :
         /\ rx' = [rx EXCEPT ![c].destroys[i] = @ - 1]
         /\ destroyQ' = [destroyQ EXCEPT ![c][i] = @ + 1]
  BY DEF EnqueueDestroy
<1>2. i \in Ids /\ rx[c].destroys[i] > 0
  BY <1>1 DEF Listed
<1>3. rx' \in [Clients -> Work]
  <2>1. [rx[c].destroys EXCEPT ![i] = @ - 1] \in Counts
    BY <1>2 DEF TypeInv, TypeOK, Work, Counts
  <2>2. [rx[c] EXCEPT !.destroys = [rx[c].destroys EXCEPT ![i] = @ - 1]] \in Work
    BY <2>1 DEF TypeInv, TypeOK, Work
  <2>3. rx' = [rx EXCEPT ![c] = [rx[c] EXCEPT
                 !.destroys = [rx[c].destroys EXCEPT ![i] = @ - 1]]]
    BY <1>1, SMTT(30)
  <2> QED
    BY <2>2, <2>3 DEF TypeInv, TypeOK
<1>4. destroyQ' \in [Clients -> Counts]
  BY <1>1, <1>2 DEF TypeInv, TypeOK, Counts
<1> QED
  BY <1>3, <1>4 DEF TypeInv, TypeOK, HasSession, EnqueueDestroy, serverVars, mainVars
-----------------------------------------------------------------------------
LEMMA UpdateDestroyEntitiesType ==
  ASSUME TypeInv, NEW c \in Clients, UpdateDestroyEntities(c)
  PROVE  TypeInv'
<1>1. PICK after \in [Ids -> UNION {0..objects[c][i] : i \in Ids}] :
         objects' = [objects EXCEPT ![c] = after]
  BY DEF UpdateDestroyEntities
<1>2. \A i \in Ids : objects[c][i] \in Nat
  BY DEF TypeInv, TypeOK, Counts
<1>3. after \in Counts
  BY <1>2 DEF Counts
<1>4. objects' \in [Clients -> Counts]
  BY <1>1, <1>3 DEF TypeInv, TypeOK
<1>5. destroyQ' \in [Clients -> Counts]
  BY IdFacts DEF TypeInv, TypeOK, UpdateDestroyEntities
<1> QED
  BY <1>4, <1>5 DEF TypeInv, TypeOK, HasSession, UpdateDestroyEntities, Frame,
                    serverVars

LEMMA UpdateCreateEntitiesType ==
  ASSUME TypeInv, NEW c \in Clients, UpdateCreateEntities(c)
  PROVE  TypeInv'
<1>1. [i \in Ids |-> objects[c][i] + createQ[c][i]] \in Counts
  BY DEF TypeInv, TypeOK, Counts
<1>2. objects' \in [Clients -> Counts]
  BY <1>1 DEF TypeInv, TypeOK, UpdateCreateEntities
<1>3. createQ' \in [Clients -> Counts]
  BY IdFacts DEF TypeInv, TypeOK, UpdateCreateEntities
<1>4. own' \in [Clients -> 0..MaxId]
  <2>1. CASE own' = own
    BY <2>1 DEF TypeInv, TypeOK
  <2>2. CASE \E i \in Listed(createQ[c]) : own' = [own EXCEPT ![c] = i]
    BY <2>2, WorldAssumption DEF TypeInv, TypeOK, Listed, Ids
  <2> QED
    BY <2>1, <2>2 DEF UpdateCreateEntities
<1> QED
  BY <1>2, <1>3, <1>4 DEF TypeInv, TypeOK, HasSession, UpdateCreateEntities, Frame,
                          serverVars

\* What the path timer and the session timer send are packets of the client.
LEMMA SentType ==
  ASSUME TypeOK, NEW c \in Clients
  PROVE  /\ Poll(c) \in Seq(ClientPacket)
         /\ \A path \in UpdatePath(c) : path \in Seq(ClientPacket)
<1>1. [op |-> "ObjectsData", state |-> check[c], ids |-> objects[c]] \in ClientPacket
  BY DEF TypeOK, ClientPacket, ObjectsDataPacket
<1>2. \A p \in Places : [op |-> "TransformData", last |-> p] \in ClientPacket
  BY DEF ClientPacket, TransformDataPacket
<1>3. Poll(c) \in Seq(ClientPacket)
  BY <1>1 DEF Poll
<1>4. ASSUME NEW path \in UpdatePath(c) PROVE path \in Seq(ClientPacket)
  <2>1. path = <<>> \/ \E p \in Places : path = << [op |-> "TransformData", last |-> p] >>
    BY DEF UpdatePath
  <2>2. \A p \in Places : << [op |-> "TransformData", last |-> p] >> \in Seq(ClientPacket)
    BY <1>2, OneInSeq
  <2> QED
    BY <2>1, <2>2, EmptySeq
<1> QED
  BY <1>3, <1>4

LEMMA NoSessionType ==
  ASSUME TypeInv, NEW c \in Clients, NoSession(c)
  PROVE  TypeInv'
<1>1. sendQueue' \in [Clients -> Seq(ClientPacket)]
  BY SentType DEF TypeInv, TypeOK, NoSession
<1> QED
  BY <1>1 DEF TypeInv, TypeOK, HasSession, NoSession, Frame, serverVars, sharedVars

LEMMA UpdateSessionType ==
  ASSUME TypeInv, NEW c \in Clients, UpdateSession(c)
  PROVE  TypeInv'
<1>1. PICK path \in UpdatePath(c) :
          c2s' = [c2s EXCEPT ![c] = IF handler[c] = "ended" THEN @
                                    ELSE @ \o sendQueue[c] \o path \o Poll(c)]
  BY DEF UpdateSession
<1>2. path \in Seq(ClientPacket) /\ Poll(c) \in Seq(ClientPacket)
  BY SentType DEF TypeInv
<1>3. c2s' \in [Clients -> Seq(ClientPacket)]
  BY <1>1, <1>2 DEF TypeInv, TypeOK
<1>4. sendQueue' \in [Clients -> Seq(ClientPacket)]
  BY DEF TypeInv, TypeOK, UpdateSession
<1>5. check' \in [Clients -> {0, 1}]
  BY DEF TypeInv, TypeOK, UpdateSession
<1> QED
  BY <1>3, <1>4, <1>5 DEF TypeInv, TypeOK, HasSession, UpdateSession, Frame, serverVars

LEMMA CloseType ==
  ASSUME TypeInv, NEW c \in Clients, Close(c)
  PROVE  TypeInv'
<1>1. /\ s2c' \in [Clients -> Seq(ServerPacket)]
      /\ sendQueue' \in [Clients -> Seq(ClientPacket)]
  BY DEF TypeInv, TypeOK, Close
<1>2. /\ createQ' \in [Clients -> Counts]
      /\ destroyQ' \in [Clients -> Counts]
      /\ objects' \in [Clients -> Counts]
      /\ rx' \in [Clients -> Work]
  BY IdFacts DEF TypeInv, TypeOK, Close
<1> QED
  BY <1>1, <1>2, IdFacts DEF TypeInv, TypeOK, HasSession, Close, serverVars

LEMMA TypeStep == TypeInv /\ [Next]_vars => TypeInv'
<1> SUFFICES ASSUME TypeInv, [Next]_vars PROVE TypeInv'
  OBVIOUS
<1>1. CASE UNCHANGED vars
  BY <1>1 DEF TypeInv, TypeOK, HasSession, vars, serverVars, sharedVars, mainVars
<1>2. ASSUME NEW c \in Clients, Connect(c) \/ OnDestroy(c) \/ ReadFails(c)
      PROVE  TypeInv'
  BY <1>2, ConnectType, CloseType, EndType DEF OnDestroy, ReadFails
<1>3. ASSUME NEW c \in Clients, Reactor(c)
      PROVE  TypeInv'
  BY <1>3, AcceptType, EndType, LoginDataType, TransformDataType, ObjectsDataType
     DEF Reactor, ReadClosed
<1>4. ASSUME NEW c \in Clients, ReceiveThread(c)
      PROVE  TypeInv'
  BY <1>4, CreateEntityType, ObjectsReplyType, TransformEntityType,
     EnqueueCreateType, EnqueueDestroyType DEF ReceiveThread
<1>5. ASSUME NEW c \in Clients, MainThread(c)
      PROVE  TypeInv'
  BY <1>5, LoginReplyType, LoginEndsType, StartReceivingType,
     UpdateDestroyEntitiesType, UpdateCreateEntitiesType, UpdateSessionType,
     NoSessionType, CloseType DEF MainThread, Logout
<1> QED
  BY <1>1, <1>2, <1>3, <1>4, <1>5 DEF Next

\* The invariant the other proofs start from.
THEOREM TypeInvariant == Spec => []TypeInv
  BY TypeInit, TypeStep, PTL DEF Spec

(***************************************************************************)
(* Every variable keeps its type: among other things, no connection is     *)
(* ever given an id the generator has not issued, and nothing but whole    *)
(* packets of the protocol is ever under way.                              *)
(***************************************************************************)
THEOREM TypeCorrect == Spec => []TypeOK
  BY TypeInvariant, PTL DEF TypeInv

-----------------------------------------------------------------------------
(***************************************************************************)
(* A step of one client, or of its connection, leaves the others alone.    *)
(***************************************************************************)
Step(c) ==
    \/ Connect(c) \/ OnDestroy(c) \/ ReadFails(c)
    \/ Reactor(c) \/ ReceiveThread(c) \/ MainThread(c)

Same(d) ==
    /\ handler'[d] = handler[d] /\ sid'[d] = sid[d]
    /\ c2s'[d] = c2s[d] /\ s2c'[d] = s2c[d] /\ check'[d] = check[d]
    /\ createQ'[d] = createQ[d] /\ destroyQ'[d] = destroyQ[d] /\ rx'[d] = rx[d]
    /\ phase'[d] = phase[d] /\ stage'[d] = stage[d] /\ objects'[d] = objects[d]
    /\ own'[d] = own[d] /\ sendQueue'[d] = sendQueue[d]

LEMMA Others ==
  ASSUME TypeInv, NEW c \in Clients, NEW d \in Clients, d # c, Step(c)
  PROVE  Same(d)
<1> USE DEF Same, TypeInv, TypeOK, serverVars, sharedVars, mainVars
<1>1. CASE Connect(c) \/ OnDestroy(c) \/ ReadFails(c)
  BY <1>1 DEF Connect, OnDestroy, ReadFails, Close, End
<1>2. CASE Reactor(c)
  BY <1>2 DEF Reactor, Accept, ReadClosed, End, LoginData, TransformData, ObjectsData,
     Receives, Deliver
<1>3. CASE ReceiveThread(c)
  BY <1>3 DEF ReceiveThread, CreateEntity, ObjectsReply, TransformEntity, EnqueueCreate,
     EnqueueDestroy, Receiving, Arrived
<1>4. CASE MainThread(c)
  BY <1>4 DEF MainThread, LoginReply, LoginEnds, StartReceiving, UpdateDestroyEntities,
     UpdateCreateEntities, UpdateSession, NoSession, Logout, Close, Frame, Arrived
<1> QED
  BY <1>1, <1>2, <1>3, <1>4 DEF Step

-----------------------------------------------------------------------------
(***************************************************************************)
(* One poll.  The send queue holds nothing but paths between two frames.   *)
(***************************************************************************)
At(s, op) == {k \in 1..Len(s) : s[k].op = op}

LEMMA AtTail ==
  ASSUME NEW S, NEW s \in Seq(S), s # <<>>, NEW op
  PROVE  /\ At(Tail(s), op) = {k \in 1..(Len(s) - 1) : k + 1 \in At(s, op)}
         /\ Head(s).op = op <=> 1 \in At(s, op)
  BY DEF At

LEMMA TailKeeps ==
  ASSUME NEW S, NEW s \in Seq(S), s # <<>>, NEW op, \A k, l \in At(s, op) : k = l
  PROVE  /\ \A k, l \in At(Tail(s), op) : k = l
         /\ At(s, op) = {} => At(Tail(s), op) = {}
         /\ Head(s).op = op => At(s, op) # {} /\ At(Tail(s), op) = {}
<1>1. At(s, op) \subseteq 1..Len(s) /\ Len(s) \in Nat
  BY DEF At
<1> QED
  BY <1>1, AtTail

LEMMA AtConcat ==
  ASSUME NEW S, NEW s \in Seq(S), NEW t \in Seq(S), NEW op, At(t, op) = {}
  PROVE  At(s \o t, op) = At(s, op)
<1>1. Len(s \o t) = Len(s) + Len(t) /\ Len(s) \in Nat /\ Len(t) \in Nat
  OBVIOUS
<1>2. \A k \in 1..Len(s) : (s \o t)[k] = s[k]
  OBVIOUS
<1>3. \A k \in Len(s) + 1..Len(s) + Len(t) : (s \o t)[k] = t[k - Len(s)] /\ k - Len(s) \in 1..Len(t)
  OBVIOUS
<1>4. \A k \in Len(s) + 1..Len(s) + Len(t) : (s \o t)[k].op # op
  BY <1>3 DEF At
<1> QED
  BY <1>1, <1>2, <1>4 DEF At

LEMMA AtLast ==
  ASSUME NEW S, NEW s \in Seq(S), NEW m \in S, NEW op, At(s, op) = {}
  PROVE  \A k, l \in At(s \o <<m>>, op) : k = l
<1>1. Len(s \o <<m>>) = Len(s) + 1 /\ Len(s) \in Nat
  OBVIOUS
<1>2. \A k \in 1..Len(s) : (s \o <<m>>)[k] = s[k]
  OBVIOUS
<1> QED
  BY <1>1, <1>2 DEF At

OnePollAt(c) ==
    /\ phase[c] # "gone" =>
        /\ \A k, l \in At(c2s[c], "ObjectsData") : k = l
        /\ \A k, l \in At(s2c[c], "ObjectsReply") : k = l
        /\ At(c2s[c], "ObjectsData") # {} => At(s2c[c], "ObjectsReply") = {} /\ check[c] = 0
        /\ At(s2c[c], "ObjectsReply") # {} => check[c] = 0
    /\ At(sendQueue[c], "ObjectsData") = {}

PollInv == \A c \in Clients : OnePollAt(c)

LEMMA PollInit == Init => PollInv
  BY DEF Init, PollInv, OnePollAt, At

LEMMA ConnectPoll ==
  ASSUME TypeInv, NEW c \in Clients, OnePollAt(c), Connect(c)
  PROVE  OnePollAt(c)'
<1> DEFINE t == <<[op |-> "LoginData"]>>
<1>1. c2s[c] \in Seq(ClientPacket) /\ t \in Seq(ClientPacket)
  BY DEF TypeInv, TypeOK, ClientPacket, LoginDataPacket
<1>2. At(t, "ObjectsData") = {}
  BY DEF At
<1>3. c2s'[c] = c2s[c] \o t
  BY <1>1 DEF Connect, TypeInv, TypeOK
<1>4. At(c2s[c] \o t, "ObjectsData") = At(c2s[c], "ObjectsData")
  <2> HIDE DEF t
  <2> QED
    BY <1>1, <1>2, AtConcat
<1> QED
  BY <1>3, <1>4 DEF Connect, OnePollAt, sharedVars, TypeInv, TypeOK

LEMMA ClosePoll ==
  ASSUME TypeInv, NEW c \in Clients, Close(c)
  PROVE  OnePollAt(c)'
  BY DEF Close, OnePollAt, At, TypeInv, TypeOK

LEMMA EndPoll ==
  ASSUME TypeInv, NEW c \in Clients, OnePollAt(c), End(c)
  PROVE  OnePollAt(c)'
<1>1. c2s'[c] = <<>>
  BY DEF End, TypeInv, TypeOK
<1> QED
  BY <1>1 DEF End, OnePollAt, At, sharedVars, mainVars

LEMMA ReceivesPoll ==
  ASSUME TypeInv, NEW c \in Clients, OnePollAt(c), NEW op, Receives(c, op)
  PROVE  /\ phase[c] # "gone" => \A k, l \in At(c2s'[c], "ObjectsData") : k = l
         /\ At(c2s[c], "ObjectsData") = {} => At(c2s'[c], "ObjectsData") = {}
         /\ phase[c] # "gone" /\ op = "ObjectsData" =>
               At(c2s[c], "ObjectsData") # {} /\ At(c2s'[c], "ObjectsData") = {}
<1>1. c2s[c] \in Seq(ClientPacket) /\ c2s[c] # <<>> /\ c2s'[c] = Tail(c2s[c])
  BY DEF Receives, TypeInv, TypeOK
<1>2. /\ (\A k, l \in At(c2s[c], "ObjectsData") : k = l)
          => \A k, l \in At(Tail(c2s[c]), "ObjectsData") : k = l
      /\ At(c2s[c], "ObjectsData") = {} => At(Tail(c2s[c]), "ObjectsData") = {}
      /\ (\A k, l \in At(c2s[c], "ObjectsData") : k = l) /\ Head(c2s[c]).op = "ObjectsData"
          => At(c2s[c], "ObjectsData") # {} /\ At(Tail(c2s[c]), "ObjectsData") = {}
  BY <1>1, TailKeeps
<1> QED
  BY <1>1, <1>2 DEF OnePollAt, Receives

\* The replies that are on their way when the server has sent one more packet.
LEMMA DeliverPoll ==
  ASSUME TypeInv, NEW c \in Clients, NEW a \in ServerPacket, NEW b \in ServerPacket,
         Deliver(c, <<a, b>>), a.op # "ObjectsReply", b.op # "ObjectsReply", phase[c] # "gone"
  PROVE  At(s2c'[c], "ObjectsReply") = At(s2c[c], "ObjectsReply")
<1> DEFINE t == <<a, b>>
<1>1. s2c[c] \in Seq(ServerPacket) /\ t \in Seq(ServerPacket) /\ s2c'[c] = s2c[c] \o t
  BY DEF Deliver, TypeInv, TypeOK
<1>2. At(t, "ObjectsReply") = {}
  BY DEF At
<1> HIDE DEF t
<1>3. At(s2c[c] \o t, "ObjectsReply") = At(s2c[c], "ObjectsReply")
  BY <1>1, <1>2, AtConcat
<1> QED
  BY <1>1, <1>3

LEMMA LoginDataPoll ==
  ASSUME TypeInv, NEW c \in Clients, OnePollAt(c), LoginData(c)
  PROVE  OnePollAt(c)'
<1>1. PICK ok \in BOOLEAN :
         Deliver(c, << [op |-> "LoginReply", ok |-> ok],
                       [op |-> "CreateEntityData", creates |-> {sid[c]}] >>)
  BY DEF LoginData
<1>2. sid[c] \in Ids
  BY WorldAssumption DEF LoginData, Receives, TypeInv, TypeOK, HasSession, Ids
<1>3. /\ [op |-> "LoginReply", ok |-> ok] \in ServerPacket
      /\ [op |-> "CreateEntityData", creates |-> {sid[c]}] \in ServerPacket
  BY <1>2 DEF ServerPacket, LoginReplyPacket, CreateEntityPacket
<1>4. phase[c] # "gone" => At(s2c'[c], "ObjectsReply") = At(s2c[c], "ObjectsReply")
  BY <1>1, <1>3, DeliverPoll
<1>5. Receives(c, "LoginData") /\ UNCHANGED <<check, phase, sendQueue>>
  BY DEF LoginData, sharedVars, mainVars
<1>6. /\ phase[c] # "gone" => \A k, l \in At(c2s'[c], "ObjectsData") : k = l
      /\ At(c2s[c], "ObjectsData") = {} => At(c2s'[c], "ObjectsData") = {}
  BY <1>5, ReceivesPoll
<1> QED
  BY <1>4, <1>5, <1>6 DEF OnePollAt

LEMMA TransformDataPoll ==
  ASSUME TypeInv, NEW c \in Clients, OnePollAt(c), TransformData(c)
  PROVE  OnePollAt(c)'
<1>1. Receives(c, "TransformData") /\ UNCHANGED <<s2c, check, phase, sendQueue>>
  BY DEF TransformData, sharedVars, mainVars
<1>2. /\ phase[c] # "gone" => \A k, l \in At(c2s'[c], "ObjectsData") : k = l
      /\ At(c2s[c], "ObjectsData") = {} => At(c2s'[c], "ObjectsData") = {}
  BY <1>1, ReceivesPoll
<1> QED
  BY <1>1, <1>2 DEF OnePollAt

\* The poll is taken and its reply goes out in one handler.
LEMMA ObjectsDataPoll ==
  ASSUME TypeInv, NEW c \in Clients, OnePollAt(c), ObjectsData(c)
  PROVE  OnePollAt(c)'
<1>1. Receives(c, "ObjectsData") /\ UNCHANGED <<check, phase, sendQueue>>
  BY DEF ObjectsData, sharedVars, mainVars
<1>2. phase[c] # "gone" =>
         At(c2s[c], "ObjectsData") # {} /\ At(c2s'[c], "ObjectsData") = {}
  BY <1>1, ReceivesPoll
<1>3. phase[c] # "gone" => \A k, l \in At(s2c'[c], "ObjectsReply") : k = l
  <2> SUFFICES ASSUME phase[c] # "gone"
               PROVE  \A k, l \in At(s2c'[c], "ObjectsReply") : k = l
    OBVIOUS
  <2> DEFINE m == Head(c2s[c])
             a == [op |-> "ObjectsReply", state |-> ReplyState(m),
                   creates |-> Creates(c, m.ids), destroys |-> Destroys(c, m.ids)]
             b == [op |-> "TransformEntityData"]
  <2>1. At(s2c[c], "ObjectsReply") = {}
    BY <1>2 DEF OnePollAt
  <2>2. s2c'[c] = s2c[c] \o <<a, b>>
    BY DEF ObjectsData, Deliver, TypeInv, TypeOK
  <2>3. s2c' \in [Clients -> Seq(ServerPacket)]
    BY ObjectsDataType DEF TypeInv, TypeOK
  <2> HIDE DEF a, b
  <2>4. Len(s2c'[c]) = Len(s2c[c]) + 2 /\ Len(s2c[c]) \in Nat
        /\ s2c'[c][Len(s2c[c]) + 2] = b /\ \A k \in 1..Len(s2c[c]) : s2c'[c][k] = s2c[c][k]
    BY <2>2 DEF TypeInv, TypeOK
  <2>5. b.op # "ObjectsReply"
    BY DEF b
  <2>6. \A k \in 1..Len(s2c[c]) : s2c'[c][k].op # "ObjectsReply"
    BY <2>1, <2>4 DEF At
  <2>7. At(s2c'[c], "ObjectsReply") \subseteq {Len(s2c[c]) + 1}
    BY <2>4, <2>5, <2>6 DEF At
  <2> QED
    BY <2>7
<1> QED
  BY <1>1, <1>2, <1>3 DEF OnePollAt

LEMMA ArrivedPoll ==
  ASSUME TypeInv, NEW c \in Clients, OnePollAt(c), NEW op, Arrived(c, op), phase[c] # "gone"
  PROVE  /\ \A k, l \in At(s2c'[c], "ObjectsReply") : k = l
         /\ At(s2c[c], "ObjectsReply") = {} => At(s2c'[c], "ObjectsReply") = {}
         /\ op = "ObjectsReply" =>
               At(s2c[c], "ObjectsReply") # {} /\ At(s2c'[c], "ObjectsReply") = {}
<1>1. s2c[c] \in Seq(ServerPacket) /\ s2c[c] # <<>> /\ s2c'[c] = Tail(s2c[c])
  BY DEF Arrived, TypeInv, TypeOK
<1>2. /\ (\A k, l \in At(s2c[c], "ObjectsReply") : k = l)
          => \A k, l \in At(Tail(s2c[c]), "ObjectsReply") : k = l
      /\ At(s2c[c], "ObjectsReply") = {} => At(Tail(s2c[c]), "ObjectsReply") = {}
      /\ (\A k, l \in At(s2c[c], "ObjectsReply") : k = l) /\ Head(s2c[c]).op = "ObjectsReply"
          => At(s2c[c], "ObjectsReply") # {} /\ At(Tail(s2c[c]), "ObjectsReply") = {}
  BY <1>1, TailKeeps
<1> QED
  BY <1>1, <1>2 DEF OnePollAt, Arrived

LEMMA ReceiveThreadPoll ==
  ASSUME TypeInv, NEW c \in Clients, OnePollAt(c), ReceiveThread(c)
  PROVE  OnePollAt(c)'
<1>1. CASE CreateEntity(c) \/ TransformEntity(c)
  <2>1. PICK op \in {"CreateEntityData", "TransformEntityData"} :
           Arrived(c, op) /\ phase[c] = "world"
    BY <1>1 DEF CreateEntity, TransformEntity, Receiving
  <2>2. /\ \A k, l \in At(s2c'[c], "ObjectsReply") : k = l
        /\ At(s2c[c], "ObjectsReply") = {} => At(s2c'[c], "ObjectsReply") = {}
    BY <2>1, ArrivedPoll
  <2> QED
    BY <1>1, <2>2 DEF CreateEntity, TransformEntity, OnePollAt, sharedVars, mainVars
<1>2. CASE ObjectsReply(c)
  <2>1. Arrived(c, "ObjectsReply") /\ phase[c] = "world"
    BY <1>2 DEF ObjectsReply, Receiving
  <2>2. At(s2c[c], "ObjectsReply") # {} /\ At(s2c'[c], "ObjectsReply") = {}
    BY <2>1, ArrivedPoll
  <2> QED
    BY <1>2, <2>1, <2>2 DEF ObjectsReply, OnePollAt, mainVars
<1>3. CASE EnqueueCreate(c) \/ EnqueueDestroy(c)
  BY <1>3 DEF EnqueueCreate, EnqueueDestroy, OnePollAt, mainVars
<1> QED
  BY <1>1, <1>2, <1>3 DEF ReceiveThread

\* A frame polls only when nothing is under way, and then waits for the reply.
LEMMA PathIsNoPoll ==
  ASSUME TypeInv, NEW c \in Clients, NEW path \in UpdatePath(c)
  PROVE  At(path, "ObjectsData") = {} /\ path \in Seq(ClientPacket)
<1>1. path \in Seq(ClientPacket)
  BY SentType DEF TypeInv
<1>2. path = <<>> \/ \E p \in Places : path = << [op |-> "TransformData", last |-> p] >>
  BY DEF UpdatePath
<1> QED
  BY <1>1, <1>2 DEF At

LEMMA NoSessionPoll ==
  ASSUME TypeInv, NEW c \in Clients, OnePollAt(c), NoSession(c)
  PROVE  OnePollAt(c)'
<1>1. PICK path \in UpdatePath(c) : sendQueue' = [sendQueue EXCEPT ![c] = @ \o path]
  BY DEF NoSession
<1>2. At(path, "ObjectsData") = {} /\ path \in Seq(ClientPacket)
  BY PathIsNoPoll
<1>3. sendQueue[c] \in Seq(ClientPacket) /\ sendQueue'[c] = sendQueue[c] \o path
  BY <1>1 DEF TypeInv, TypeOK
<1>4. At(sendQueue[c] \o path, "ObjectsData") = At(sendQueue[c], "ObjectsData")
  BY <1>2, <1>3, AtConcat
<1> QED
  BY <1>3, <1>4 DEF NoSession, Frame, OnePollAt, sharedVars

LEMMA UpdateSessionPoll ==
  ASSUME TypeInv, NEW c \in Clients, OnePollAt(c), UpdateSession(c)
  PROVE  OnePollAt(c)'
<1>1. PICK path \in UpdatePath(c) :
          c2s' = [c2s EXCEPT ![c] = IF handler[c] = "ended" THEN @
                                    ELSE @ \o sendQueue[c] \o path \o Poll(c)]
  BY DEF UpdateSession
<1> DEFINE s == (c2s[c] \o sendQueue[c]) \o path
<1>2. /\ c2s[c] \in Seq(ClientPacket) /\ sendQueue[c] \in Seq(ClientPacket)
      /\ path \in Seq(ClientPacket) /\ Poll(c) \in Seq(ClientPacket)
      /\ c2s[c] \o sendQueue[c] \in Seq(ClientPacket) /\ s \in Seq(ClientPacket)
  BY SentType DEF TypeInv, TypeOK
<1>3. /\ At(path, "ObjectsData") = {}
      /\ At(sendQueue[c], "ObjectsData") = {}
  BY PathIsNoPoll DEF OnePollAt
<1>4. At(c2s[c] \o sendQueue[c], "ObjectsData") = At(c2s[c], "ObjectsData")
  BY <1>2, <1>3, AtConcat
<1>5. At(s, "ObjectsData") = At(c2s[c], "ObjectsData")
  <2> DEFINE t == c2s[c] \o sendQueue[c]
  <2>1. t \in Seq(ClientPacket) /\ s = t \o path
    BY <1>2
  <2> HIDE DEF t, s
  <2>2. At(t \o path, "ObjectsData") = At(t, "ObjectsData")
    BY <1>2, <1>3, <2>1, AtConcat
  <2> QED
    BY <1>4, <2>1, <2>2 DEF t
<1>6. c2s'[c] = c2s[c] \/ c2s'[c] = s \o Poll(c)
  BY <1>1 DEF TypeInv, TypeOK
<1>7. sendQueue'[c] = <<>> /\ check' = [check EXCEPT ![c] = IF MayPoll(c) THEN 0 ELSE @]
      /\ UNCHANGED <<s2c, phase>> /\ phase[c] = "world"
  BY DEF UpdateSession, Frame, TypeInv, TypeOK
<1> HIDE DEF s
<1>a. /\ At(s2c[c], "ObjectsReply")' = At(s2c[c], "ObjectsReply")
      /\ At(sendQueue[c], "ObjectsData")' = {}
  BY <1>7 DEF At
<1>8. CASE ~MayPoll(c)
  <2>1. s \o Poll(c) = s /\ check' = check
    BY <1>2, <1>7, <1>8 DEF Poll, TypeInv, TypeOK
  <2>2. At(c2s[c], "ObjectsData")' = At(s, "ObjectsData")
    <3>1. CASE c2s'[c] = s
      BY <3>1 DEF At
    <3>2. CASE c2s'[c] = c2s[c]
      <4>1. At(c2s[c], "ObjectsData")' = At(c2s[c], "ObjectsData")
        BY <3>2 DEF At
      <4> QED
        BY <1>5, <4>1
    <3> QED
      BY <1>6, <2>1, <3>1, <3>2
  <2> QED
    BY <1>5, <1>7, <1>a, <2>1, <2>2 DEF OnePollAt
<1>9. CASE MayPoll(c)
  <2> DEFINE m == [op |-> "ObjectsData", state |-> check[c], ids |-> objects[c]]
  <2>1. check[c] = 1 /\ check'[c] = 0
    BY <1>7, <1>9 DEF MayPoll, TypeInv, TypeOK
  <2>2. At(c2s[c], "ObjectsData") = {} /\ At(s2c[c], "ObjectsReply") = {}
    BY <1>7, <2>1 DEF OnePollAt
  <2>3. m \in ClientPacket /\ Poll(c) = <<m>>
    BY <1>9 DEF Poll, TypeInv, TypeOK, ClientPacket, ObjectsDataPacket
  <2> HIDE DEF m
  <2>4. \A k, l \in At(s \o <<m>>, "ObjectsData") : k = l
    BY <1>2, <1>5, <2>2, <2>3, AtLast
  <2>5. \A k, l \in At(c2s[c], "ObjectsData")' : k = l
    <3>1. CASE c2s'[c] = c2s[c]
      <4>1. At(c2s[c], "ObjectsData")' = At(c2s[c], "ObjectsData")
        BY <3>1 DEF At
      <4> QED
        BY <2>2, <4>1
    <3>2. CASE c2s'[c] = s \o Poll(c)
      <4>1. At(c2s[c], "ObjectsData")' = At(s \o <<m>>, "ObjectsData")
        BY <2>3, <3>2 DEF At
      <4> QED
        BY <2>4, <4>1
    <3> QED
      BY <1>6, <3>1, <3>2
  <2> QED
    BY <1>7, <1>a, <2>1, <2>2, <2>5 DEF OnePollAt
<1> QED
  BY <1>8, <1>9

LEMMA MainThreadPoll ==
  ASSUME TypeInv, NEW c \in Clients, OnePollAt(c), MainThread(c)
  PROVE  OnePollAt(c)'
<1>1. CASE LoginReply(c)
  <2>1. /\ Arrived(c, "LoginReply") /\ phase[c] = "login"
        /\ UNCHANGED <<c2s, check, sendQueue>>
    BY <1>1 DEF LoginReply, sharedVars
  <2>2. /\ \A k, l \in At(s2c'[c], "ObjectsReply") : k = l
        /\ At(s2c[c], "ObjectsReply") = {} => At(s2c'[c], "ObjectsReply") = {}
    BY <2>1, ArrivedPoll
  <2> QED
    BY <2>1, <2>2 DEF OnePollAt
<1>2. CASE LoginEnds(c) \/ StartReceiving(c)
  BY <1>2 DEF LoginEnds, StartReceiving, OnePollAt, sharedVars
<1>3. CASE UpdateDestroyEntities(c) \/ UpdateCreateEntities(c)
  BY <1>3 DEF UpdateDestroyEntities, UpdateCreateEntities, Frame, OnePollAt
<1>4. CASE Logout(c)
  BY <1>4, ClosePoll DEF Logout
<1> QED
  BY <1>1, <1>2, <1>3, <1>4, NoSessionPoll, UpdateSessionPoll DEF MainThread

LEMMA PollStep == TypeInv /\ PollInv /\ [Next]_vars => PollInv'
<1> SUFFICES ASSUME TypeInv, PollInv, [Next]_vars
             PROVE  PollInv'
  OBVIOUS
<1>1. CASE UNCHANGED vars
  BY <1>1 DEF PollInv, OnePollAt, vars, sharedVars, mainVars
<1>2. ASSUME NEW c \in Clients, Step(c)
      PROVE  PollInv'
  <2>1. OnePollAt(c)
    BY DEF PollInv
  <2>2. OnePollAt(c)'
    <3>1. CASE Connect(c) \/ OnDestroy(c) \/ ReadFails(c)
      BY <2>1, <3>1, ConnectPoll, ClosePoll, EndPoll DEF OnDestroy, ReadFails
    <3>2. CASE Reactor(c)
      <4>1. CASE Accept(c)
        BY <2>1, <4>1 DEF Accept, OnePollAt, sharedVars, mainVars
      <4> QED
        BY <2>1, <3>2, <4>1, EndPoll, LoginDataPoll, TransformDataPoll, ObjectsDataPoll
           DEF Reactor, ReadClosed
    <3> QED
      BY <1>2, <2>1, <3>1, <3>2, ReceiveThreadPoll, MainThreadPoll DEF Step
  <2>3. ASSUME NEW d \in Clients, d # c
        PROVE  OnePollAt(d)'
    <3>1. Same(d)
      BY <1>2, <2>3, Others
    <3>2. OnePollAt(d)
      BY DEF PollInv
    <3> QED
      BY <3>1, <3>2 DEF Same, OnePollAt
  <2> QED
    BY <2>2, <2>3 DEF PollInv
<1> QED
  BY <1>1, <1>2 DEF Next, Step

(***************************************************************************)
(* A client has at most one poll of its objects under way, for any number  *)
(* of clients and of paths in between (WorldScript.js, UpdateSession;      *)
(* Network.js, ObjectsReply; Receive.cpp, ObjectsData).                    *)
(***************************************************************************)
THEOREM OnePollCorrect == Spec => []OnePoll
<1>1. PollInv => OnePoll
  BY DEF PollInv, OnePollAt, OnePoll, At, PollsAt, RepliesAt
<1> QED
  BY <1>1, TypeInvariant, PollInit, PollStep, PTL DEF Spec

-----------------------------------------------------------------------------
(***************************************************************************)
(* The poll is not lost.  The state that travels with it is 1 all the way, *)
(* which is what turns the flag on again when its reply arrives.           *)
(***************************************************************************)
Asking(s, op) == \A k \in At(s, op) : s[k].state = 1

LEMMA TailAsking ==
  ASSUME NEW S, NEW s \in Seq(S), s # <<>>, NEW op, Asking(s, op)
  PROVE  /\ Asking(Tail(s), op)
         /\ Head(s).op = op => Head(s).state = 1
         /\ Head(s).op # op /\ At(s, op) # {} => At(Tail(s), op) # {}
<1>1. /\ Len(Tail(s)) = Len(s) - 1 /\ Len(s) \in Nat \ {0} /\ Head(s) = s[1]
      /\ \A k \in 1..(Len(s) - 1) : Tail(s)[k] = s[k + 1] /\ k + 1 \in 1..Len(s)
  OBVIOUS
<1>2. Asking(Tail(s), op)
  BY <1>1 DEF Asking, At
<1>3. Head(s).op = op => Head(s).state = 1
  BY <1>1 DEF Asking, At
<1>4. ASSUME Head(s).op # op, NEW k \in At(s, op)
      PROVE  k - 1 \in At(Tail(s), op)
  <2>1. k \in 1..Len(s) /\ s[k].op = op /\ k # 1
    BY <1>1, <1>4 DEF At
  <2>2. k - 1 \in 1..(Len(s) - 1) /\ (k - 1) + 1 = k
    BY <1>1, <2>1
  <2>3. Tail(s)[k - 1] = s[k]
    BY <1>1, <2>2
  <2> QED
    BY <1>1, <2>1, <2>2, <2>3 DEF At
<1> QED
  BY <1>2, <1>3, <1>4

LEMMA ConcatAsking ==
  ASSUME NEW S, NEW s \in Seq(S), NEW t \in Seq(S), NEW op, Asking(s, op), Asking(t, op)
  PROVE  /\ Asking(s \o t, op)
         /\ At(s, op) # {} \/ At(t, op) # {} => At(s \o t, op) # {}
<1>1. Len(s \o t) = Len(s) + Len(t) /\ Len(s) \in Nat /\ Len(t) \in Nat
  OBVIOUS
<1>2. \A k \in 1..Len(s) : (s \o t)[k] = s[k]
  OBVIOUS
<1>3. \A k \in Len(s) + 1..Len(s) + Len(t) : (s \o t)[k] = t[k - Len(s)] /\ k - Len(s) \in 1..Len(t)
  OBVIOUS
<1>4. Asking(s \o t, op)
  <2>1. \A k \in At(s \o t, op) : k \in 1..Len(s) \/ k \in Len(s) + 1..Len(s) + Len(t)
    BY <1>1 DEF At
  <2>2. ASSUME NEW k \in At(s \o t, op), k \in 1..Len(s)
        PROVE  (s \o t)[k].state = 1
    BY <1>2, <2>2 DEF Asking, At
  <2>3. ASSUME NEW k \in At(s \o t, op), k \in Len(s) + 1..Len(s) + Len(t)
        PROVE  (s \o t)[k].state = 1
    BY <1>3, <2>3 DEF Asking, At
  <2> QED
    BY <2>1, <2>2, <2>3 DEF Asking
<1>5. ASSUME NEW k \in At(s, op) PROVE k \in At(s \o t, op)
  BY <1>1, <1>2, <1>5 DEF At
<1>6. ASSUME NEW k \in At(t, op) PROVE Len(s) + k \in At(s \o t, op)
  <2>1. k \in 1..Len(t) /\ t[k].op = op
    BY DEF At
  <2>2. Len(s) + k \in Len(s) + 1..Len(s) + Len(t) /\ (Len(s) + k) - Len(s) = k
    BY <1>1, <2>1
  <2>3. (s \o t)[Len(s) + k] = t[k]
    BY <1>3, <2>2
  <2> QED
    BY <1>1, <2>1, <2>2, <2>3 DEF At
<1> QED
  BY <1>4, <1>5, <1>6

Somewhere(c) ==
    check[c] = 1 \/ At(c2s[c], "ObjectsData") # {} \/ At(s2c[c], "ObjectsReply") # {}
GoesRound(c) ==
    /\ Asking(c2s[c], "ObjectsData") /\ Asking(s2c[c], "ObjectsReply")
    /\ phase[c] # "gone" /\ handler[c] # "ended" => Somewhere(c)
RoundInv == \A c \in Clients : GoesRound(c)

LEMMA RoundInit == Init => RoundInv
  BY DEF Init, RoundInv, GoesRound, Somewhere, Asking, At

\* What the reactor does to a connection that stays open.
LEMMA LoginStepsRound ==
  ASSUME TypeInv, NEW c \in Clients, GoesRound(c),
         Connect(c) \/ OnDestroy(c) \/ ReadFails(c) \/ Accept(c) \/ ReadClosed(c)
  PROVE  GoesRound(c)'
<1> USE DEF TypeInv, TypeOK
<1>1. CASE Connect(c)
  <2> DEFINE t == <<[op |-> "LoginData"]>>
  <2>1. c2s[c] \in Seq(ClientPacket) /\ t \in Seq(ClientPacket) /\ c2s'[c] = c2s[c] \o t
    BY <1>1 DEF Connect, ClientPacket, LoginDataPacket
  <2>2. At(t, "ObjectsData") = {}
    BY DEF At
  <2>3. Asking(t, "ObjectsData")
    BY <2>2 DEF Asking
  <2>4. Asking(c2s[c], "ObjectsData")
    BY DEF GoesRound
  <2> HIDE DEF t
  <2>5. /\ Asking(c2s'[c], "ObjectsData")
        /\ At(c2s[c], "ObjectsData") # {} => At(c2s'[c], "ObjectsData") # {}
    BY <2>1, <2>3, <2>4, ConcatAsking
  <2>6. UNCHANGED <<s2c, check, handler>> /\ phase[c] # "gone"
    BY <1>1 DEF Connect, serverVars, sharedVars
  <2> QED
    BY <2>5, <2>6 DEF GoesRound, Somewhere
<1>2. CASE OnDestroy(c)
  BY <1>2 DEF OnDestroy, Close, GoesRound, Somewhere, Asking, At
<1>3. CASE ReadFails(c) \/ ReadClosed(c)
  <2>1. c2s'[c] = <<>> /\ handler'[c] = "ended" /\ s2c' = s2c
    BY <1>3 DEF ReadFails, ReadClosed, End
  <2>2. Asking(c2s'[c], "ObjectsData")
    BY <2>1 DEF Asking, At
  <2> QED
    BY <2>1, <2>2 DEF GoesRound
<1>4. CASE Accept(c)
  <2>1. UNCHANGED <<c2s, s2c, check, phase>> /\ handler[c] # "ended"
    BY <1>4 DEF Accept, sharedVars, mainVars
  <2> QED
    BY <2>1 DEF GoesRound, Somewhere
<1> QED
  BY <1>1, <1>2, <1>3, <1>4

LEMMA ReactorRound ==
  ASSUME TypeInv, NEW c \in Clients, GoesRound(c),
         LoginData(c) \/ TransformData(c) \/ ObjectsData(c)
  PROVE  GoesRound(c)'
<1> USE DEF TypeInv, TypeOK
<1>0. /\ c2s[c] \in Seq(ClientPacket) /\ c2s[c] # <<>> /\ c2s'[c] = Tail(c2s[c])
      /\ s2c[c] \in Seq(ServerPacket) /\ UNCHANGED <<check, phase, handler>>
  BY DEF LoginData, TransformData, ObjectsData, Receives, serverVars, sharedVars, mainVars
<1>1. /\ Asking(c2s[c], "ObjectsData") /\ Asking(s2c[c], "ObjectsReply")
      /\ Asking(c2s'[c], "ObjectsData")
  BY <1>0, TailAsking DEF GoesRound
<1>2. CASE LoginData(c)
  <2>1. PICK ok \in BOOLEAN :
           Deliver(c, << [op |-> "LoginReply", ok |-> ok],
                         [op |-> "CreateEntityData", creates |-> {sid[c]}] >>)
    BY <1>2 DEF LoginData
  <2> DEFINE a == [op |-> "LoginReply", ok |-> ok]
             b == [op |-> "CreateEntityData", creates |-> {sid[c]}]
             t == <<a, b>>
  <2>2. sid[c] \in Ids
    BY <1>2, WorldAssumption DEF LoginData, Receives, HasSession, Ids
  <2>3. a \in ServerPacket /\ b \in ServerPacket
    BY <2>2 DEF ServerPacket, LoginReplyPacket, CreateEntityPacket
  <2>4. At(t, "ObjectsReply") = {}
    BY DEF At
  <2>5. t \in Seq(ServerPacket)
    BY <2>3
  <2>6. s2c'[c] = s2c[c] \/ s2c'[c] = s2c[c] \o t
    BY <2>1 DEF Deliver
  <2> HIDE DEF t
  <2>7. Asking(t, "ObjectsReply")
    BY <2>4 DEF Asking
  <2>8. /\ Asking(s2c'[c], "ObjectsReply")
        /\ At(s2c[c], "ObjectsReply") # {} => At(s2c'[c], "ObjectsReply") # {}
    <3>1. /\ Asking(s2c[c] \o t, "ObjectsReply")
          /\ At(s2c[c], "ObjectsReply") # {} => At(s2c[c] \o t, "ObjectsReply") # {}
      BY <1>0, <1>1, <2>5, <2>7, ConcatAsking
    <3> QED
      BY <1>1, <2>6, <3>1
  <2>9. At(c2s[c], "ObjectsData") # {} => At(c2s'[c], "ObjectsData") # {}
    BY <1>0, <1>1, <1>2, TailAsking DEF LoginData, Receives
  <2> QED
    BY <1>0, <1>1, <2>8, <2>9 DEF GoesRound, Somewhere
<1>3. CASE TransformData(c)
  <2>1. At(c2s[c], "ObjectsData") # {} => At(c2s'[c], "ObjectsData") # {}
    BY <1>0, <1>1, <1>3, TailAsking DEF TransformData, Receives
  <2>2. s2c' = s2c
    BY <1>3 DEF TransformData
  <2> QED
    BY <1>0, <1>1, <2>1, <2>2 DEF GoesRound, Somewhere
<1>4. CASE ObjectsData(c)
  <2> DEFINE m == Head(c2s[c])
             a == [op |-> "ObjectsReply", state |-> ReplyState(m),
                   creates |-> Creates(c, m.ids), destroys |-> Destroys(c, m.ids)]
             b == [op |-> "TransformEntityData"]
             t == <<a, b>>
  <2>1. s2c'[c] = IF phase[c] = "gone" THEN s2c[c] ELSE s2c[c] \o t
    BY <1>4 DEF ObjectsData, Deliver
  <2>2. m.state = 1
    BY <1>0, <1>1, <1>4, TailAsking DEF ObjectsData, Receives
  <2>3. a \in ServerPacket /\ b \in ServerPacket
    <3>1. m \in ClientPacket /\ m.op = "ObjectsData"
      BY <1>0, <1>4 DEF ObjectsData, Receives
    <3>2. m.state \in {0, 1} /\ m.ids \in Counts
      BY <3>1 DEF ClientPacket, LoginDataPacket, TransformDataPacket, ObjectsDataPacket
    <3> QED
      BY <3>2, ReplyType DEF ReplyState
  <2>4. a.op = "ObjectsReply" /\ a.state = 1 /\ b.op = "TransformEntityData"
    BY <2>2 DEF ReplyState
  <2> HIDE DEF a, b
  <2>5. t \in Seq(ServerPacket) /\ Len(t) = 2 /\ t[1] = a /\ t[2] = b
    BY <2>3
  <2>6. Asking(t, "ObjectsReply") /\ 1 \in At(t, "ObjectsReply")
    BY <2>4, <2>5 DEF Asking, At
  <2> HIDE DEF t
  <2>7. Asking(s2c[c] \o t, "ObjectsReply") /\ At(s2c[c] \o t, "ObjectsReply") # {}
    <3>1. /\ s2c[c] \in Seq(ServerPacket) /\ Asking(s2c[c], "ObjectsReply")
          /\ t \in Seq(ServerPacket) /\ Asking(t, "ObjectsReply") /\ At(t, "ObjectsReply") # {}
      BY <1>0, <1>1, <2>5, <2>6
    <3> QED
      BY ONLY <3>1, ConcatAsking
  <2> QED
    BY <1>0, <1>1, <2>1, <2>7 DEF GoesRound, Somewhere
<1> QED
  BY <1>2, <1>3, <1>4

LEMMA ReceiveThreadRound ==
  ASSUME TypeInv, NEW c \in Clients, GoesRound(c), ReceiveThread(c)
  PROVE  GoesRound(c)'
<1> USE DEF TypeInv, TypeOK
<1>1. CASE EnqueueCreate(c) \/ EnqueueDestroy(c)
  BY <1>1 DEF EnqueueCreate, EnqueueDestroy, GoesRound, Somewhere, serverVars, mainVars
<1>2. ASSUME CreateEntity(c) \/ TransformEntity(c) \/ ObjectsReply(c)
      PROVE  GoesRound(c)'
  <2>1. /\ s2c[c] \in Seq(ServerPacket) /\ s2c[c] # <<>> /\ s2c'[c] = Tail(s2c[c])
        /\ UNCHANGED <<c2s, phase, handler>>
    BY <1>2 DEF CreateEntity, TransformEntity, ObjectsReply, Receiving, Arrived, serverVars, mainVars
  <2>2. Asking(s2c[c], "ObjectsReply") /\ Asking(s2c'[c], "ObjectsReply")
    BY <2>1, TailAsking DEF GoesRound
  <2>3. Somewhere(c) => Somewhere(c)'
    <3>1. CASE CreateEntity(c) \/ TransformEntity(c)
      <4>1. Head(s2c[c]).op # "ObjectsReply" /\ check' = check
        BY <3>1 DEF CreateEntity, TransformEntity, Receiving, Arrived, sharedVars
      <4>2. At(s2c[c], "ObjectsReply") # {} => At(s2c'[c], "ObjectsReply") # {}
        BY <2>1, <2>2, <4>1, TailAsking
      <4> QED
        BY <2>1, <4>1, <4>2 DEF Somewhere
    <3>2. CASE ObjectsReply(c)
      <4>1. Head(s2c[c]).op = "ObjectsReply" /\ check'[c] = Head(s2c[c]).state
        BY <3>2 DEF ObjectsReply, Receiving, Arrived
      <4>2. check'[c] = 1
        BY <2>1, <2>2, <4>1, TailAsking
      <4> QED
        BY <4>2 DEF Somewhere
    <3> QED
      BY <1>2, <3>1, <3>2
  <2> QED
    BY <2>1, <2>2, <2>3 DEF GoesRound
<1> QED
  BY <1>1, <1>2 DEF ReceiveThread

LEMMA UpdateSessionRound ==
  ASSUME TypeInv, NEW c \in Clients, OnePollAt(c), GoesRound(c), UpdateSession(c)
  PROVE  GoesRound(c)'
<1>1. PICK path \in UpdatePath(c) :
          c2s' = [c2s EXCEPT ![c] = IF handler[c] = "ended" THEN @
                                    ELSE @ \o sendQueue[c] \o path \o Poll(c)]
  BY DEF UpdateSession
<1> DEFINE s == c2s[c] \o sendQueue[c]
           t == s \o path
<1>2. /\ c2s[c] \in Seq(ClientPacket) /\ sendQueue[c] \in Seq(ClientPacket)
      /\ path \in Seq(ClientPacket) /\ Poll(c) \in Seq(ClientPacket)
      /\ s \in Seq(ClientPacket) /\ t \in Seq(ClientPacket)
  BY SentType DEF TypeInv, TypeOK
<1>3. /\ Asking(path, "ObjectsData") /\ Asking(sendQueue[c], "ObjectsData")
      /\ Asking(c2s[c], "ObjectsData")
  BY PathIsNoPoll DEF OnePollAt, GoesRound, Asking
<1>4. c2s'[c] = IF handler[c] = "ended" THEN c2s[c] ELSE t \o Poll(c)
  BY <1>1 DEF TypeInv, TypeOK
<1>5. /\ check'[c] = (IF MayPoll(c) THEN 0 ELSE check[c])
      /\ UNCHANGED <<s2c, phase, handler>>
  BY DEF UpdateSession, Frame, serverVars, TypeInv, TypeOK
<1>6. /\ Asking(s, "ObjectsData")
      /\ At(c2s[c], "ObjectsData") # {} => At(s, "ObjectsData") # {}
  BY <1>2, <1>3, ConcatAsking
<1> HIDE DEF s
<1>7. /\ Asking(t, "ObjectsData")
      /\ At(c2s[c], "ObjectsData") # {} => At(t, "ObjectsData") # {}
  BY <1>2, <1>3, <1>6, ConcatAsking
<1> HIDE DEF t
<1>8. Asking(Poll(c), "ObjectsData") /\ (MayPoll(c) => At(Poll(c), "ObjectsData") # {})
  <2>1. CASE MayPoll(c)
    <3> DEFINE m == [op |-> "ObjectsData", state |-> check[c], ids |-> objects[c]]
    <3>1. Poll(c) = <<m>> /\ m.state = 1 /\ m.op = "ObjectsData"
      BY <2>1 DEF Poll, MayPoll
    <3> HIDE DEF m
    <3>2. Len(Poll(c)) = 1 /\ Poll(c)[1] = m
      BY <3>1
    <3> QED
      BY <3>1, <3>2 DEF Asking, At
  <2>2. CASE ~MayPoll(c)
    BY <2>2 DEF Poll, Asking, At
  <2> QED
    BY <2>1, <2>2
<1>9. /\ Asking(t \o Poll(c), "ObjectsData")
      /\ At(t, "ObjectsData") # {} \/ At(Poll(c), "ObjectsData") # {}
            => At(t \o Poll(c), "ObjectsData") # {}
  BY <1>2, <1>7, <1>8, ConcatAsking
<1> QED
  BY <1>3, <1>4, <1>5, <1>7, <1>8, <1>9 DEF GoesRound, Somewhere

LEMMA MainThreadRound ==
  ASSUME TypeInv, NEW c \in Clients, OnePollAt(c), GoesRound(c), MainThread(c)
  PROVE  GoesRound(c)'
<1>1. CASE LoginReply(c)
  <2>1. /\ s2c[c] \in Seq(ServerPacket) /\ s2c[c] # <<>> /\ s2c'[c] = Tail(s2c[c])
        /\ Head(s2c[c]).op # "ObjectsReply"
        /\ UNCHANGED <<c2s, check, handler>> /\ phase[c] # "gone"
    BY <1>1 DEF LoginReply, Arrived, serverVars, sharedVars, TypeInv, TypeOK
  <2>2. Asking(s2c[c], "ObjectsReply")
    BY DEF GoesRound
  <2>3. /\ Asking(s2c'[c], "ObjectsReply")
        /\ At(s2c[c], "ObjectsReply") # {} => At(s2c'[c], "ObjectsReply") # {}
    BY <2>1, <2>2, TailAsking
  <2> QED
    BY <2>1, <2>3 DEF GoesRound, Somewhere
<1>2. CASE LoginEnds(c) \/ StartReceiving(c)
  BY <1>2 DEF LoginEnds, StartReceiving, GoesRound, Somewhere, serverVars, sharedVars
<1>3. CASE UpdateDestroyEntities(c) \/ UpdateCreateEntities(c) \/ NoSession(c)
  BY <1>3 DEF UpdateDestroyEntities, UpdateCreateEntities, NoSession, Frame, GoesRound,
     Somewhere, serverVars, sharedVars
<1>4. CASE Logout(c)
  BY <1>4 DEF Logout, Close, GoesRound, Somewhere, Asking, At, TypeInv, TypeOK
<1> QED
  BY <1>1, <1>2, <1>3, <1>4, UpdateSessionRound DEF MainThread

LEMMA RoundStep == TypeInv /\ PollInv /\ RoundInv /\ [Next]_vars => RoundInv'
<1> SUFFICES ASSUME TypeInv, PollInv, RoundInv, [Next]_vars
             PROVE  RoundInv'
  OBVIOUS
<1>1. CASE UNCHANGED vars
  BY <1>1 DEF RoundInv, GoesRound, Somewhere, vars, serverVars, sharedVars, mainVars
<1>2. ASSUME NEW c \in Clients, Step(c)
      PROVE  RoundInv'
  <2>1. GoesRound(c) /\ OnePollAt(c)
    BY DEF RoundInv, PollInv
  <2>2. GoesRound(c)'
    BY <1>2, <2>1, LoginStepsRound, ReactorRound, ReceiveThreadRound, MainThreadRound
       DEF Step, Reactor
  <2>3. ASSUME NEW d \in Clients, d # c
        PROVE  GoesRound(d)'
    <3>1. Same(d)
      BY <1>2, <2>3, Others
    <3>2. GoesRound(d)
      BY DEF RoundInv
    <3> QED
      BY <3>1, <3>2 DEF Same, GoesRound, Somewhere
  <2> QED
    BY <2>2, <2>3 DEF RoundInv
<1> QED
  BY <1>1, <1>2 DEF Next, Step

(***************************************************************************)
(* While a client is in the world on an open connection its poll is at the *)
(* session timer, on its way or answered (WorldScript.js, UpdateSession;   *)
(* Network.js, ObjectsReply; Receive.cpp and Send.cpp, ObjectsData).       *)
(***************************************************************************)
THEOREM PollNotLostCorrect == Spec => []PollNotLost
<1>1. RoundInv => PollNotLost
  BY DEF RoundInv, GoesRound, Somewhere, PollNotLost, At, PollsAt, RepliesAt
<1> QED
  BY <1>1, TypeInvariant, PollInit, PollStep, RoundInit, RoundStep, PTL DEF Spec

-----------------------------------------------------------------------------
(***************************************************************************)
(* The own entity.  Until the client has one, nothing but the reply to its *)
(* login and the entity of its session can reach it; once it has, its      *)
(* polls list that entity, and the server does not send it again.          *)
(***************************************************************************)
Only(j) == [i \in Ids |-> IF i = j THEN 1 ELSE 0]
Paths == {m \in ClientPacket : m.op = "TransformData"}
Lists(j) == {m \in ClientPacket :
               m.op # "LoginData" /\ (m.op = "ObjectsData" => m.ids[j] > 0)}
Spares(j) == {m \in ServerPacket :
                m.op # "CreateEntityData" /\ (m.op = "ObjectsReply" => j \notin m.creates)}
CreateOf(j) == [op |-> "CreateEntityData", creates |-> {j}]
Untouched(c) ==
    /\ own[c] = 0 /\ objects[c] = None /\ sendQueue[c] = <<>>
    /\ createQ[c] = None /\ rx[c] = Idle

\* Before the reply, between the reply and the world, on the way to the first
\* entity, and after it.
AtLogin(c) ==
    /\ Untouched(c)
    /\ \/ c2s[c] \in {<<>>, << [op |-> "LoginData"] >>} /\ s2c[c] = <<>>
       \/ /\ c2s[c] = <<>> /\ handler[c] # "none"
          /\ \E ok \in BOOLEAN :
                s2c[c] = << [op |-> "LoginReply", ok |-> ok], CreateOf(sid[c]) >>
AtLoading(c) ==
    /\ Untouched(c) /\ handler[c] # "none"
    /\ c2s[c] = <<>> /\ s2c[c] = << CreateOf(sid[c]) >>
AtFirst(c) ==
    /\ own[c] = 0 /\ objects[c] = None /\ sendQueue[c] = <<>>
    /\ handler[c] # "none" /\ c2s[c] = <<>>
    /\ \/ s2c[c] = << CreateOf(sid[c]) >> /\ rx[c] = Idle /\ createQ[c] = None
       \/ /\ s2c[c] = <<>> /\ createQ[c] = None
          /\ rx[c] = [creates |-> {sid[c]}, destroys |-> None]
       \/ s2c[c] = <<>> /\ rx[c] = Idle /\ createQ[c] = Only(sid[c])
HasOwn(c) ==
    /\ handler[c] # "none"
    /\ own[c] = sid[c] /\ objects[c][sid[c]] = 1
    /\ createQ[c][sid[c]] = 0 /\ sid[c] \notin rx[c].creates
    /\ sendQueue[c] \in Seq(Paths)
    /\ c2s[c] \in Seq(Lists(sid[c])) /\ s2c[c] \in Seq(Spares(sid[c]))

OwnAt(c) ==
    /\ handler[c] # "none" => sid[c] \in Ids
    /\ phase[c] = "menu" => handler[c] = "none" /\ Untouched(c)
                            /\ c2s[c] = <<>> /\ s2c[c] = <<>>
    /\ phase[c] = "login" => AtLogin(c)
    /\ phase[c] = "loading" => AtLoading(c)
    /\ phase[c] = "world" => AtFirst(c) \/ HasOwn(c)
    /\ phase[c] \in {"failed", "gone"} => own[c] = 0

OwnInv == \A c \in Clients : OwnAt(c)

LEMMA TailOne == ASSUME NEW x PROVE Tail(<<x>>) = <<>> /\ Head(<<x>>) = x
  OBVIOUS

LEMMA TailTwo == ASSUME NEW x, NEW y PROVE Tail(<<x, y>>) = <<y>> /\ Head(<<x, y>>) = x
  OBVIOUS

LEMMA HeadTail == ASSUME NEW S, NEW s \in Seq(S), s # <<>>
                 PROVE  Head(s) \in S /\ Tail(s) \in Seq(S)
  OBVIOUS

LEMMA OwnInit == Init => OwnInv
  BY DEF Init, OwnInv, OwnAt, Untouched

LEMMA ConnectOwn ==
  ASSUME TypeInv, NEW c \in Clients, OwnAt(c), Connect(c)
  PROVE  OwnAt(c)'
  BY DEF Connect, OwnAt, AtLogin, Untouched, serverVars, sharedVars, TypeInv, TypeOK

LEMMA CloseOwn ==
  ASSUME TypeInv, NEW c \in Clients, OwnAt(c), Close(c)
  PROVE  OwnAt(c)'
  BY DEF Close, OwnAt, serverVars, TypeInv, TypeOK

LEMMA AcceptOwn ==
  ASSUME TypeInv, NEW c \in Clients, OwnAt(c), Accept(c)
  PROVE  OwnAt(c)'
<1>1. handler[c] = "none" /\ handler'[c] = "open" /\ sid'[c] = lastId + 1 /\ sid'[c] \in Ids
  BY WorldAssumption DEF Accept, TypeInv, TypeOK, Ids
<1> QED
  BY <1>1 DEF Accept, OwnAt, AtLogin, AtLoading, AtFirst, HasOwn, Untouched, sharedVars, mainVars

LEMMA EndOwn ==
  ASSUME TypeInv, NEW c \in Clients, OwnAt(c), End(c), handler[c] = "open"
  PROVE  OwnAt(c)'
<1>1. /\ handler'[c] = "ended" /\ c2s'[c] = <<>>
      /\ UNCHANGED <<sid, s2c, createQ, rx, phase, objects, own, sendQueue>>
  BY DEF End, sharedVars, mainVars, TypeInv, TypeOK
<1>2. CASE phase[c] = "login"
  BY <1>1, <1>2 DEF OwnAt, AtLogin, Untouched
<1>3. CASE phase[c] = "loading"
  BY <1>1, <1>3 DEF OwnAt, AtLoading, Untouched
<1>4. CASE phase[c] = "world" /\ AtFirst(c)
  BY <1>1, <1>4 DEF OwnAt, AtFirst
<1>5. CASE phase[c] = "world" /\ HasOwn(c)
  BY <1>1, <1>5 DEF OwnAt, HasOwn
<1>6. CASE phase[c] \in {"menu", "failed", "gone"}
  BY <1>1, <1>6 DEF OwnAt
<1> QED
  BY <1>2, <1>3, <1>4, <1>5, <1>6 DEF OwnAt, TypeInv, TypeOK

LEMMA LoginDataOwn ==
  ASSUME TypeInv, NEW c \in Clients, OwnAt(c), LoginData(c)
  PROVE  OwnAt(c)'
<1>1. PICK ok \in BOOLEAN :
         Deliver(c, << [op |-> "LoginReply", ok |-> ok], CreateOf(sid[c]) >>)
  BY DEF LoginData, CreateOf
<1>2. /\ handler[c] = "open" /\ c2s[c] # <<>> /\ Head(c2s[c]).op = "LoginData"
      /\ c2s'[c] = Tail(c2s[c])
      /\ UNCHANGED <<handler, sid, createQ, rx, phase, objects, own, sendQueue>>
  BY DEF LoginData, Receives, serverVars, sharedVars, mainVars, TypeInv, TypeOK
<1>3. CASE phase[c] = "login"
  <2>1. AtLogin(c)
    BY <1>3 DEF OwnAt
  <2>2. c2s[c] = << [op |-> "LoginData"] >> /\ s2c[c] = <<>> /\ c2s'[c] = <<>>
    <3>1. c2s[c] = << [op |-> "LoginData"] >> /\ s2c[c] = <<>>
      BY <1>2, <2>1 DEF AtLogin
    <3> QED
      BY <1>2, <3>1, TailOne
  <2>3. s2c'[c] = << [op |-> "LoginReply", ok |-> ok], CreateOf(sid[c]) >>
    BY <1>1, <1>3, <2>2 DEF Deliver, TypeInv, TypeOK
  <2>4. Untouched(c)'
    BY <1>2, <2>1 DEF AtLogin, Untouched
  <2>5. AtLogin(c)'
    BY <1>2, <2>2, <2>3, <2>4 DEF AtLogin, CreateOf
  <2> QED
    BY <1>2, <1>3, <2>5 DEF OwnAt
<1>4. CASE phase[c] = "world"
  <2>1. HasOwn(c)
    BY <1>2, <1>4 DEF OwnAt, AtFirst
  <2>2. Head(c2s[c]) \in Lists(sid[c])
    BY <1>2, <2>1 DEF HasOwn
  <2> QED
    BY <1>2, <2>2 DEF Lists
<1>5. CASE phase[c] \in {"menu", "loading", "failed", "gone"}
  BY <1>2, <1>5 DEF OwnAt, AtLoading
<1> QED
  BY <1>3, <1>4, <1>5 DEF TypeInv, TypeOK

LEMMA TransformDataOwn ==
  ASSUME TypeInv, NEW c \in Clients, OwnAt(c), TransformData(c)
  PROVE  OwnAt(c)'
<1>1. /\ handler[c] = "open" /\ c2s[c] # <<>> /\ Head(c2s[c]).op = "TransformData"
      /\ c2s'[c] = Tail(c2s[c])
      /\ UNCHANGED <<handler, sid, s2c, createQ, rx, phase, objects, own, sendQueue>>
  BY DEF TransformData, Receives, serverVars, sharedVars, mainVars, TypeInv, TypeOK
<1>2. CASE phase[c] = "world"
  <2>1. HasOwn(c)
    BY <1>1, <1>2 DEF OwnAt, AtFirst
  <2>2. c2s'[c] \in Seq(Lists(sid[c]))
    BY <1>1, <2>1, HeadTail DEF HasOwn
  <2>3. HasOwn(c)'
    BY <1>1, <2>1, <2>2 DEF HasOwn
  <2> QED
    BY <1>1, <1>2, <2>3 DEF OwnAt
<1>3. CASE phase[c] = "login"
  <2>1. c2s[c] # << [op |-> "LoginData"] >>
    BY <1>1, TailOne
  <2> QED
    BY <1>1, <1>3, <2>1 DEF OwnAt, AtLogin
<1>4. CASE phase[c] \in {"menu", "loading", "failed", "gone"}
  BY <1>1, <1>4 DEF OwnAt, AtLoading
<1> QED
  BY <1>2, <1>3, <1>4 DEF TypeInv, TypeOK

\* A poll lists the own entity, and so the reply does not create it.
LEMMA ObjectsDataOwn ==
  ASSUME TypeInv, NEW c \in Clients, OwnAt(c), ObjectsData(c)
  PROVE  OwnAt(c)'
<1> DEFINE m == Head(c2s[c])
           a == [op |-> "ObjectsReply", state |-> ReplyState(m),
                 creates |-> Creates(c, m.ids), destroys |-> Destroys(c, m.ids)]
           b == [op |-> "TransformEntityData"]
<1>1. /\ handler[c] = "open" /\ c2s[c] # <<>> /\ m.op = "ObjectsData"
      /\ c2s'[c] = Tail(c2s[c])
      /\ UNCHANGED <<handler, sid, createQ, rx, phase, objects, own, sendQueue>>
  BY DEF ObjectsData, Receives, serverVars, sharedVars, mainVars, TypeInv, TypeOK
<1>2. CASE phase[c] = "world"
  <2>1. HasOwn(c)
    BY <1>1, <1>2 DEF OwnAt, AtFirst
  <2>2. c2s'[c] \in Seq(Lists(sid[c])) /\ m \in Lists(sid[c])
    BY <1>1, <2>1, HeadTail DEF HasOwn
  <2>3. sid[c] \in Ids
    BY <1>1 DEF OwnAt
  <2>4. sid[c] \in Listed(m.ids)
    BY <1>1, <2>2, <2>3 DEF Lists, Listed
  <2>5. sid[c] \notin Creates(c, m.ids)
    BY <2>4 DEF Creates
  <2>6. s2c'[c] = s2c[c] \o <<a, b>> /\ s2c' \in [Clients -> Seq(ServerPacket)]
    BY <1>2, ObjectsDataType DEF ObjectsData, Deliver, TypeInv, TypeOK
  <2>7. s2c'[c] \in Seq(ServerPacket) /\ s2c'[c][Len(s2c[c]) + 1] = a
        /\ s2c'[c][Len(s2c[c]) + 2] = b /\ Len(s2c'[c]) = Len(s2c[c]) + 2
        /\ Len(s2c[c]) \in Nat
    <3>1. s2c[c] \in Seq(ServerPacket)
      BY DEF TypeInv, TypeOK
    <3> HIDE DEF a, b
    <3> QED
      BY <2>6, <3>1
  <2>8. a \in Spares(sid[c]) /\ b \in Spares(sid[c])
    BY <2>5, <2>7 DEF Spares
  <2>9. s2c'[c] \in Seq(Spares(sid[c]))
    <3> HIDE DEF a, b
    <3> QED
      BY <2>1, <2>6, <2>8 DEF HasOwn
  <2>10. HasOwn(c)'
    BY <1>1, <2>1, <2>2, <2>9 DEF HasOwn
  <2> QED
    BY <1>1, <1>2, <2>10 DEF OwnAt
<1>3. CASE phase[c] = "login"
  <2>1. c2s[c] # << [op |-> "LoginData"] >>
    BY <1>1, TailOne
  <2> QED
    BY <1>1, <1>3, <2>1 DEF OwnAt, AtLogin
<1>4. CASE phase[c] \in {"menu", "loading", "failed", "gone"}
  BY <1>1, <1>4 DEF OwnAt, AtLoading
<1> QED
  BY <1>2, <1>3, <1>4 DEF TypeInv, TypeOK

LEMMA LoginReplyOwn ==
  ASSUME TypeInv, NEW c \in Clients, OwnAt(c), LoginReply(c)
  PROVE  OwnAt(c)'
<1>1. /\ phase[c] = "login" /\ s2c[c] # <<>> /\ s2c'[c] = Tail(s2c[c])
      /\ phase'[c] \in {"loading", "failed"}
      /\ UNCHANGED <<handler, sid, c2s, createQ, rx, objects, own, sendQueue>>
  BY DEF LoginReply, Arrived, serverVars, sharedVars, TypeInv, TypeOK
<1>2. AtLogin(c)
  BY <1>1 DEF OwnAt
<1>3. PICK ok \in BOOLEAN : s2c[c] = << [op |-> "LoginReply", ok |-> ok], CreateOf(sid[c]) >>
  BY <1>1, <1>2 DEF AtLogin
<1>4. s2c'[c] = << CreateOf(sid[c]) >>
  BY <1>1, <1>3, TailTwo
<1>5. AtLoading(c)'
  BY <1>1, <1>2, <1>4 DEF AtLogin, AtLoading, Untouched, CreateOf
<1> QED
  BY <1>1, <1>2, <1>5 DEF OwnAt, AtLogin, Untouched

LEMMA LoginStepsOwn ==
  ASSUME TypeInv, NEW c \in Clients, OwnAt(c), LoginEnds(c) \/ StartReceiving(c)
  PROVE  OwnAt(c)'
<1>1. CASE LoginEnds(c)
  BY <1>1 DEF LoginEnds, OwnAt, AtLogin, Untouched, serverVars, sharedVars, TypeInv, TypeOK
<1>2. CASE StartReceiving(c)
  BY <1>2 DEF StartReceiving, OwnAt, AtLoading, AtFirst, CreateOf, Untouched, serverVars,
     sharedVars, TypeInv, TypeOK
<1> QED
  BY <1>1, <1>2

LEMMA CreateEntityOwn ==
  ASSUME TypeInv, NEW c \in Clients, OwnAt(c), CreateEntity(c)
  PROVE  OwnAt(c)'
<1>1. /\ phase[c] = "world" /\ rx[c] = Idle
      /\ s2c[c] # <<>> /\ Head(s2c[c]).op = "CreateEntityData" /\ s2c'[c] = Tail(s2c[c])
      /\ rx'[c] = [creates |-> Head(s2c[c]).creates, destroys |-> None]
      /\ UNCHANGED <<handler, sid, c2s, createQ, phase, objects, own, sendQueue>>
  BY DEF CreateEntity, Receiving, Arrived, Idle, serverVars, sharedVars, mainVars,
     TypeInv, TypeOK
<1>2. CASE AtFirst(c)
  <2>1. s2c[c] = << CreateOf(sid[c]) >> /\ createQ[c] = None
    BY <1>1, <1>2 DEF AtFirst, Idle
  <2>2. s2c'[c] = <<>> /\ Head(s2c[c]) = CreateOf(sid[c])
    BY <1>1, <2>1, TailOne
  <2>3. rx'[c] = [creates |-> {sid[c]}, destroys |-> None]
    <3>1. Head(s2c[c]).creates = {sid[c]}
      BY <2>2 DEF CreateOf
    <3> QED
      BY <1>1, <3>1, Zenon
  <2>4. AtFirst(c)'
    BY <1>1, <1>2, <2>1, <2>2, <2>3 DEF AtFirst
  <2> QED
    BY <1>1, <2>4 DEF OwnAt
<1>3. ~HasOwn(c)
  <2>1. HasOwn(c) => Head(s2c[c]) \in Spares(sid[c])
    BY <1>1, HeadTail DEF HasOwn
  <2> QED
    BY <1>1, <2>1 DEF Spares
<1> QED
  BY <1>1, <1>2, <1>3 DEF OwnAt

LEMMA ReceiveOwn ==
  ASSUME TypeInv, NEW c \in Clients, OwnAt(c), ObjectsReply(c) \/ TransformEntity(c)
  PROVE  OwnAt(c)'
<1>1. /\ phase[c] = "world"
      /\ s2c[c] # <<>> /\ Head(s2c[c]).op \in {"ObjectsReply", "TransformEntityData"}
      /\ s2c'[c] = Tail(s2c[c])
      /\ UNCHANGED <<handler, sid, c2s, createQ, phase, objects, own, sendQueue>>
  BY DEF ObjectsReply, TransformEntity, Receiving, Arrived, serverVars, sharedVars, mainVars,
     TypeInv, TypeOK
<1>2. ~AtFirst(c)
  <2>1. s2c[c] # << CreateOf(sid[c]) >>
    BY <1>1, TailOne DEF CreateOf
  <2> QED
    BY <1>1, <2>1 DEF AtFirst
<1>3. HasOwn(c)
  BY <1>1, <1>2 DEF OwnAt
<1>4. s2c'[c] \in Seq(Spares(sid[c])) /\ Head(s2c[c]) \in Spares(sid[c])
  BY <1>1, <1>3, HeadTail DEF HasOwn
<1>5. sid[c] \notin rx'[c].creates
  <2>1. CASE ObjectsReply(c)
    <3>1. rx'[c].creates = Head(s2c[c]).creates /\ Head(s2c[c]).op = "ObjectsReply"
      BY <2>1 DEF ObjectsReply, Receiving, Arrived, TypeInv, TypeOK
    <3> QED
      BY <1>4, <3>1 DEF Spares
  <2>2. CASE TransformEntity(c)
    BY <1>3, <2>2 DEF TransformEntity, HasOwn
  <2> QED
    BY <2>1, <2>2
<1>6. HasOwn(c)'
  BY <1>1, <1>3, <1>4, <1>5 DEF HasOwn
<1> QED
  BY <1>1, <1>6 DEF OwnAt

LEMMA EnqueueCreateOwn ==
  ASSUME TypeInv, NEW c \in Clients, OwnAt(c), EnqueueCreate(c)
  PROVE  OwnAt(c)'
<1>1. PICK i \in rx[c].creates :
         /\ rx' = [rx EXCEPT ![c].creates = @ \ {i}]
         /\ createQ' = [createQ EXCEPT ![c][i] = @ + 1]
  BY DEF EnqueueCreate
<1>2. /\ phase[c] = "world"
      /\ UNCHANGED <<handler, sid, c2s, s2c, phase, objects, own, sendQueue>>
  BY DEF EnqueueCreate, serverVars, mainVars
<1>3. /\ rx[c] \in Work /\ rx'[c] = [rx[c] EXCEPT !.creates = @ \ {i}]
      /\ createQ[c] \in Counts /\ createQ'[c] = [createQ[c] EXCEPT ![i] = @ + 1]
  BY <1>1 DEF TypeInv, TypeOK
<1>4. CASE AtFirst(c)
  <2>1. rx[c] = [creates |-> {sid[c]}, destroys |-> None] /\ createQ[c] = None /\ i = sid[c]
        /\ s2c[c] = <<>>
    BY <1>1, <1>4 DEF AtFirst, Idle
  <2>2. rx'[c] = Idle
    <3>1. rx'[c] = [creates |-> rx[c].creates \ {i}, destroys |-> rx[c].destroys]
      BY <1>3 DEF Work
    <3>2. {sid[c]} \ {i} = {}
      BY <2>1
    <3> QED
      <4>1. rx[c].creates = {sid[c]} /\ rx[c].destroys = None
        BY <2>1
      <4> QED
        BY <3>1, <3>2, <4>1 DEF Idle
  <2>3. createQ'[c] = Only(sid[c])
    BY <1>3, <2>1 DEF None, Only, Counts
  <2>4. AtFirst(c)'
    BY <1>2, <1>4, <2>1, <2>2, <2>3 DEF AtFirst, Only
  <2> QED
    BY <1>2, <2>4 DEF OwnAt
<1>5. CASE HasOwn(c)
  <2>1. i # sid[c]
    BY <1>1, <1>5 DEF HasOwn
  <2>2. createQ'[c][sid[c]] = 0 /\ sid[c] \notin rx'[c].creates
    <3>1. sid[c] \in Ids
      BY <1>2, <1>5 DEF OwnAt, HasOwn
    <3> QED
      BY <1>3, <1>5, <2>1, <3>1 DEF HasOwn, Counts, Work
  <2>3. HasOwn(c)'
    BY <1>2, <1>5, <2>2 DEF HasOwn
  <2> QED
    BY <1>2, <2>3 DEF OwnAt
<1> QED
  BY <1>2, <1>4, <1>5 DEF OwnAt

LEMMA EnqueueDestroyOwn ==
  ASSUME TypeInv, NEW c \in Clients, OwnAt(c), EnqueueDestroy(c)
  PROVE  OwnAt(c)'
<1>1. PICK i \in Listed(rx[c].destroys) : rx' = [rx EXCEPT ![c].destroys[i] = @ - 1]
  BY DEF EnqueueDestroy
<1>2. /\ phase[c] = "world"
      /\ UNCHANGED <<handler, sid, c2s, s2c, createQ, phase, objects, own, sendQueue>>
  BY DEF EnqueueDestroy, serverVars, mainVars
<1>3. ~AtFirst(c)
  BY <1>1, IdFacts DEF AtFirst, Idle
<1>4. HasOwn(c)
  BY <1>2, <1>3 DEF OwnAt
<1>5. rx'[c].creates = rx[c].creates
  BY <1>1 DEF TypeInv, TypeOK, Work
<1>6. HasOwn(c)'
  BY <1>2, <1>4, <1>5 DEF HasOwn
<1> QED
  BY <1>2, <1>6 DEF OwnAt

-----------------------------------------------------------------------------
\* The parts of a frame.
LEMMA NothingSurvives ==
  ASSUME NEW passes
  PROVE  Survivors(0, passes) \subseteq {0}
  BY DEF Survivors

LEMMA UpdateDestroyEntitiesOwn ==
  ASSUME TypeInv, NEW c \in Clients, OwnAt(c), UpdateDestroyEntities(c)
  PROVE  OwnAt(c)'
<1>1. /\ phase[c] = "world"
      /\ UNCHANGED <<handler, sid, c2s, s2c, createQ, rx, phase, own, sendQueue>>
  BY DEF UpdateDestroyEntities, Frame, serverVars
<1>2. PICK after \in [Ids -> UNION {0..objects[c][i] : i \in Ids}] :
         /\ \A i \in Ids :
                IF i # own[c] /\ destroyQ[c][i] > 0
                THEN after[i] \in Survivors(objects[c][i], destroyQ[c][i])
                ELSE after[i] = objects[c][i]
         /\ objects' = [objects EXCEPT ![c] = after]
  BY DEF UpdateDestroyEntities
<1>3. objects'[c] = after
  BY <1>2 DEF TypeInv, TypeOK
<1>4. CASE AtFirst(c)
  <2>1. objects[c] = None
    BY <1>4 DEF AtFirst
  <2>2. \A i \in Ids : after[i] = 0
    BY <1>2, <2>1, NothingSurvives DEF None
  <2>3. objects'[c] = None
    BY <1>2, <1>3, <2>2 DEF None
  <2>4. AtFirst(c)'
    BY <1>1, <1>4, <2>3 DEF AtFirst, CreateOf
  <2> QED
    BY <1>1, <2>4 DEF OwnAt
<1>5. CASE HasOwn(c)
  <2>1. sid[c] \in Ids /\ own[c] = sid[c]
    BY <1>5 DEF HasOwn, OwnAt
  <2>2. objects'[c][sid[c]] = objects[c][sid[c]]
    BY <1>2, <1>3, <2>1
  <2>3. HasOwn(c)'
    BY <1>1, <1>5, <2>2 DEF HasOwn
  <2> QED
    BY <1>1, <2>3 DEF OwnAt
<1> QED
  BY <1>1, <1>4, <1>5 DEF OwnAt

\* The first entity to arrive becomes the own one, and it is the session's.
LEMMA UpdateCreateEntitiesOwn ==
  ASSUME TypeInv, NEW c \in Clients, OwnAt(c), UpdateCreateEntities(c)
  PROVE  OwnAt(c)'
<1>1. /\ phase[c] = "world"
      /\ UNCHANGED <<handler, sid, c2s, s2c, rx, phase, sendQueue>>
      /\ objects'[c] = [i \in Ids |-> objects[c][i] + createQ[c][i]]
      /\ createQ'[c] = None
      /\ IF own[c] = 0 /\ Listed(createQ[c]) # {}
         THEN \E i \in Listed(createQ[c]) : own'[c] = i
         ELSE own'[c] = own[c]
  BY DEF UpdateCreateEntities, Frame, serverVars, TypeInv, TypeOK
<1>2. CASE AtFirst(c) /\ createQ[c] = None
  <2>1. own[c] = 0 /\ own'[c] = 0 /\ objects[c] = None
    BY <1>1, <1>2, IdFacts DEF AtFirst
  <2>2. objects'[c] = None
    BY <1>1, <1>2, <2>1 DEF None
  <2>3. AtFirst(c)'
    BY <1>1, <1>2, <2>1, <2>2 DEF AtFirst, CreateOf
  <2> QED
    BY <1>1, <2>3 DEF OwnAt
<1>3. CASE AtFirst(c) /\ createQ[c] # None
  <2>1. /\ createQ[c] = Only(sid[c]) /\ sid[c] \in Ids /\ own[c] = 0
        /\ objects[c] = None /\ rx[c] = Idle
        /\ c2s[c] = <<>> /\ s2c[c] = <<>> /\ sendQueue[c] = <<>>
    BY <1>3 DEF AtFirst, OwnAt
  <2>2. Listed(createQ[c]) = {sid[c]}
    BY <2>1 DEF Listed, Only
  <2>3. own'[c] = sid[c]
    BY <1>1, <2>1, <2>2
  <2>4. objects'[c][sid[c]] = 1
    BY <1>1, <2>1 DEF None, Only
  <2>5. createQ'[c][sid[c]] = 0 /\ sid[c] \notin rx[c].creates
    BY <1>1, <2>1 DEF None, Idle
  <2>6. HasOwn(c)'
    BY <1>1, <1>3, <2>1, <2>3, <2>4, <2>5 DEF AtFirst, HasOwn
  <2> QED
    BY <1>1, <2>6 DEF OwnAt
<1>4. CASE HasOwn(c)
  <2>1. sid[c] \in Ids /\ own[c] = sid[c] /\ own[c] # 0 /\ createQ[c][sid[c]] = 0
        /\ objects[c][sid[c]] = 1
    BY <1>4 DEF HasOwn, OwnAt, Ids
  <2>2. own'[c] = sid[c] /\ objects'[c][sid[c]] = 1 /\ createQ'[c][sid[c]] = 0
    BY <1>1, <2>1 DEF None
  <2>3. HasOwn(c)'
    BY <1>1, <1>4, <2>2 DEF HasOwn
  <2> QED
    BY <1>1, <2>3 DEF OwnAt
<1> QED
  BY <1>1, <1>2, <1>3, <1>4 DEF OwnAt

LEMMA SeqSubset == ASSUME NEW S, NEW T, S \subseteq T, NEW s \in Seq(S)
                  PROVE  s \in Seq(T)
  OBVIOUS

LEMMA ConcatAll == ASSUME NEW S, NEW s \in Seq(S), NEW t \in Seq(S), NEW u \in Seq(S),
                          NEW v \in Seq(S)
                   PROVE  s \o t \o u \o v \in Seq(S)
  OBVIOUS

LEMMA PathIsPath ==
  ASSUME NEW c \in Clients, NEW path \in UpdatePath(c)
  PROVE  path \in Seq(Paths)
<1>1. \A p \in Places : [op |-> "TransformData", last |-> p] \in Paths
  BY DEF Paths, ClientPacket, TransformDataPacket
<1>2. path = <<>> \/ \E p \in Places : path = << [op |-> "TransformData", last |-> p] >>
  BY DEF UpdatePath
<1>3. \A p \in Places : << [op |-> "TransformData", last |-> p] >> \in Seq(Paths)
  BY <1>1, OneInSeq
<1> QED
  BY <1>2, <1>3, EmptySeq

LEMMA NoSessionOwn ==
  ASSUME TypeInv, NEW c \in Clients, OwnAt(c), NoSession(c)
  PROVE  OwnAt(c)'
<1>1. /\ phase[c] = "world"
      /\ UNCHANGED <<handler, sid, c2s, s2c, createQ, rx, phase, objects, own>>
  BY DEF NoSession, Frame, serverVars, sharedVars
<1>2. PICK path \in UpdatePath(c) :
         /\ path # <<>> => HasEntity(c)
         /\ sendQueue'[c] = sendQueue[c] \o path
  BY DEF NoSession, TypeInv, TypeOK
<1>3. CASE AtFirst(c)
  <2>1. path = <<>> /\ sendQueue[c] = <<>>
    BY <1>2, <1>3 DEF AtFirst, HasEntity
  <2>2. sendQueue'[c] = <<>>
    BY <1>2, <2>1
  <2>3. AtFirst(c)'
    BY <1>1, <1>3, <2>2 DEF AtFirst, CreateOf
  <2> QED
    BY <1>1, <2>3 DEF OwnAt
<1>4. CASE HasOwn(c)
  <2>1. path \in Seq(Paths) /\ sendQueue[c] \in Seq(Paths)
    BY <1>4, PathIsPath DEF HasOwn
  <2>2. sendQueue'[c] \in Seq(Paths)
    <3> HIDE DEF Paths
    <3> QED
      BY <1>2, <2>1
  <2>3. HasOwn(c)'
    BY <1>1, <1>4, <2>2 DEF HasOwn
  <2> QED
    BY <1>1, <2>3 DEF OwnAt
<1> QED
  BY <1>1, <1>3, <1>4 DEF OwnAt

\* The poll lists the objects, and the own entity is one.
LEMMA UpdateSessionOwn ==
  ASSUME TypeInv, NEW c \in Clients, OwnAt(c), UpdateSession(c)
  PROVE  OwnAt(c)'
<1>1. /\ phase[c] = "world" /\ own[c] # 0 /\ sendQueue'[c] = <<>>
      /\ UNCHANGED <<handler, sid, s2c, createQ, rx, phase, objects, own>>
  BY DEF UpdateSession, HasEntity, Frame, serverVars, TypeInv, TypeOK
<1>2. HasOwn(c)
  BY <1>1 DEF OwnAt, AtFirst
<1>3. PICK path \in UpdatePath(c) :
         c2s'[c] = IF handler[c] = "ended" THEN c2s[c]
                   ELSE c2s[c] \o sendQueue[c] \o path \o Poll(c)
  BY DEF UpdateSession, TypeInv, TypeOK
<1>4. Paths \subseteq Lists(sid[c])
  BY DEF Paths, Lists
<1>5. sendQueue[c] \in Seq(Lists(sid[c])) /\ path \in Seq(Lists(sid[c]))
  <2>1. sendQueue[c] \in Seq(Paths) /\ path \in Seq(Paths)
    BY <1>2, PathIsPath DEF HasOwn
  <2> QED
    BY <1>4, <2>1, SeqSubset
<1>6. Poll(c) \in Seq(Lists(sid[c]))
  <2> DEFINE m == [op |-> "ObjectsData", state |-> check[c], ids |-> objects[c]]
  <2>1. m \in Lists(sid[c])
    BY <1>2 DEF HasOwn, Lists, ClientPacket, ObjectsDataPacket, TypeInv, TypeOK
  <2>2. Poll(c) = <<m>> \/ Poll(c) = <<>>
    BY DEF Poll
  <2> HIDE DEF m
  <2> QED
    BY <2>1, <2>2, OneInSeq, EmptySeq
<1>7. c2s'[c] \in Seq(Lists(sid[c]))
  <2>1. c2s[c] \in Seq(Lists(sid[c]))
    BY <1>2 DEF HasOwn
  <2> DEFINE T == Lists(sid[c])
  <2>2. c2s[c] \in Seq(T) /\ sendQueue[c] \in Seq(T) /\ path \in Seq(T) /\ Poll(c) \in Seq(T)
    BY <1>5, <1>6, <2>1
  <2> HIDE DEF T
  <2>3. c2s[c] \o sendQueue[c] \o path \o Poll(c) \in Seq(T)
    BY <2>2, ConcatAll
  <2> QED
    BY <1>3, <2>1, <2>3 DEF T
<1>8. HasOwn(c)'
  BY <1>1, <1>2, <1>7 DEF HasOwn
<1> QED
  BY <1>1, <1>8 DEF OwnAt

LEMMA OwnStep == TypeInv /\ OwnInv /\ [Next]_vars => OwnInv'
<1> SUFFICES ASSUME TypeInv, OwnInv, [Next]_vars
             PROVE  OwnInv'
  OBVIOUS
<1>1. CASE UNCHANGED vars
  BY <1>1 DEF OwnInv, OwnAt, AtLogin, AtLoading, AtFirst, HasOwn, Untouched, CreateOf,
     vars, serverVars, sharedVars, mainVars
<1>2. ASSUME NEW c \in Clients, Step(c)
      PROVE  OwnInv'
  <2>1. OwnAt(c)
    BY DEF OwnInv
  <2>2. OwnAt(c)'
    <3>1. CASE Connect(c) \/ OnDestroy(c) \/ ReadFails(c)
      BY <2>1, <3>1, ConnectOwn, CloseOwn, EndOwn DEF OnDestroy, ReadFails
    <3>2. CASE Reactor(c)
      BY <2>1, <3>2, AcceptOwn, EndOwn, LoginDataOwn, TransformDataOwn, ObjectsDataOwn
         DEF Reactor, ReadClosed
    <3>3. CASE ReceiveThread(c)
      BY <2>1, <3>3, CreateEntityOwn, ReceiveOwn, EnqueueCreateOwn, EnqueueDestroyOwn
         DEF ReceiveThread
    <3>4. CASE MainThread(c)
      BY <2>1, <3>4, LoginReplyOwn, LoginStepsOwn, UpdateDestroyEntitiesOwn,
         UpdateCreateEntitiesOwn, UpdateSessionOwn, NoSessionOwn, CloseOwn
         DEF MainThread, Logout
    <3> QED
      BY <1>2, <3>1, <3>2, <3>3, <3>4 DEF Step
  <2>3. ASSUME NEW d \in Clients, d # c
        PROVE  OwnAt(d)'
    <3>1. Same(d)
      BY <1>2, <2>3, Others
    <3>2. OwnAt(d)
      BY DEF OwnInv
    <3> QED
      BY <3>1, <3>2 DEF Same, OwnAt, AtLogin, AtLoading, AtFirst, HasOwn, Untouched, CreateOf
  <2> QED
    BY <2>2, <2>3 DEF OwnInv
<1> QED
  BY <1>1, <1>2 DEF Next, Step

(***************************************************************************)
(* The entity a player controls is the one the server made for the         *)
(* player's own connection, and it is in the world once, whatever entities *)
(* the other players bring (WorldScript.js, UpdateCreateEntities;          *)
(* Receive.cpp, LoginData, ObjectsData).                                   *)
(***************************************************************************)
THEOREM OwnIsSessionCorrect == Spec => []OwnIsSession
<1>1. TypeInv /\ OwnInv => OwnIsSession
  BY DEF OwnInv, OwnAt, AtLogin, AtLoading, AtFirst, HasOwn, Untouched, OwnIsSession,
     TypeInv, TypeOK
<1> QED
  BY <1>1, TypeInvariant, OwnInit, OwnStep, PTL DEF Spec

-----------------------------------------------------------------------------
(***************************************************************************)
(* Three copies.  A copy of an entity may be in the array, in the queue,   *)
(* in the reply being decoded, or coming: in a reply under way, or asked   *)
(* for by a poll under way that does not list it.  A poll leaves from the  *)
(* part of the frame that follows the drain of the queue: an entity that   *)
(* it does not list has at most two copies then.                           *)
(***************************************************************************)
AsksFor(s, i) == \E k \in At(s, "ObjectsData") : s[k].ids[i] = 0
Brings(s, i) == \E k \in At(s, "ObjectsReply") : i \in s[k].creates
Coming(c, i) == AsksFor(c2s[c], i) \/ Brings(s2c[c], i)
Sum(c, i) ==
    objects[c][i] + createQ[c][i] + (IF i \in rx[c].creates THEN 1 ELSE 0)
    + (IF Coming(c, i) THEN 1 ELSE 0)
Bound(c, i) ==
    Sum(c, i) <= 3 /\ (stage[c] = "timers" /\ objects[c][i] = 0 => Sum(c, i) <= 2)

CopyAt(c) ==
    /\ phase[c] = "world" => \A i \in Ids : Bound(c, i)
    /\ phase[c] # "world" => /\ objects[c] = None /\ createQ[c] = None /\ rx[c] = Idle
                             /\ At(s2c[c], "ObjectsReply") = {}
    /\ phase[c] \notin {"world", "gone"} => At(c2s[c], "ObjectsData") = {}
    /\ phase[c] = "gone" => s2c[c] = <<>>
CopyInv == \A c \in Clients : CopyAt(c)

LEMMA CopyInit == Init => CopyInv
  BY DEF Init, CopyInv, CopyAt, At

LEMMA TailAny ==
  ASSUME NEW S, NEW s \in Seq(S), s # <<>>, NEW i
  PROVE  /\ AsksFor(Tail(s), i) => AsksFor(s, i)
         /\ Brings(Tail(s), i) => Brings(s, i)
         /\ Head(s).op = "ObjectsData" /\ Head(s).ids[i] = 0 => AsksFor(s, i)
         /\ Head(s).op = "ObjectsReply" /\ i \in Head(s).creates => Brings(s, i)
<1>1. /\ Len(Tail(s)) = Len(s) - 1 /\ Len(s) \in Nat /\ Len(s) > 0 /\ Head(s) = s[1]
      /\ \A k \in 1..Len(Tail(s)) : Tail(s)[k] = s[k + 1] /\ k + 1 \in 1..Len(s)
  OBVIOUS
<1> QED
  BY <1>1 DEF AsksFor, Brings, At

LEMMA ConcatAny ==
  ASSUME NEW S, NEW s \in Seq(S), NEW t \in Seq(S), NEW i
  PROVE  /\ AsksFor(s \o t, i) => AsksFor(s, i) \/ AsksFor(t, i)
         /\ Brings(s \o t, i) => Brings(s, i) \/ Brings(t, i)
<1>1. /\ Len(s \o t) = Len(s) + Len(t) /\ Len(s) \in Nat /\ Len(t) \in Nat
      /\ \A k \in 1..Len(s) : (s \o t)[k] = s[k]
      /\ \A k \in Len(s) + 1..Len(s) + Len(t) :
            (s \o t)[k] = t[k - Len(s)] /\ k - Len(s) \in 1..Len(t)
  OBVIOUS
<1>2. ASSUME AsksFor(s \o t, i) PROVE AsksFor(s, i) \/ AsksFor(t, i)
  BY <1>1, <1>2 DEF AsksFor, At
<1>3. ASSUME Brings(s \o t, i) PROVE Brings(s, i) \/ Brings(t, i)
  BY <1>1, <1>3 DEF Brings, At
<1> QED
  BY <1>2, <1>3

LEMMA Numbers ==
  ASSUME TypeInv, NEW c \in Clients, NEW i \in Ids
  PROVE  objects[c][i] \in Nat /\ createQ[c][i] \in Nat
  BY DEF TypeInv, TypeOK, Counts

\* What adds no copy and leaves the frame alone keeps the bound.
LEMMA NoMore ==
  ASSUME TypeInv, NEW c \in Clients, CopyAt(c), phase[c] = "world",
         objects'[c] = objects[c], createQ'[c] = createQ[c],
         rx'[c].creates = rx[c].creates, phase'[c] = phase[c],
         stage'[c] \in {stage[c], "destroy"},
         \A i \in Ids : Coming(c, i)' => Coming(c, i)
  PROVE  CopyAt(c)'
<1>1. ASSUME NEW i \in Ids PROVE Bound(c, i)'
  <2>1. Bound(c, i)
    BY DEF CopyAt
  <2>2. objects[c][i] \in Nat /\ createQ[c][i] \in Nat
    BY Numbers
  <2>3. Sum(c, i)' <= Sum(c, i) /\ Sum(c, i) \in Nat /\ Sum(c, i)' \in Nat
    <3>1. Sum(c, i)' = objects[c][i] + createQ[c][i] + (IF i \in rx[c].creates THEN 1 ELSE 0)
                       + (IF Coming(c, i)' THEN 1 ELSE 0)
      BY DEF Sum
    <3>2. Coming(c, i)' => Coming(c, i)
      OBVIOUS
    <3> QED
      BY <2>2, <3>1, <3>2 DEF Sum
  <2> QED
    BY <2>1, <2>3 DEF Bound
<1> QED
  BY <1>1 DEF CopyAt

LEMMA ConnectCopy ==
  ASSUME TypeInv, PollInv, NEW c \in Clients, CopyAt(c), Connect(c)
  PROVE  CopyAt(c)'
<1> DEFINE t == <<[op |-> "LoginData"]>>
<1>1. c2s[c] \in Seq(ClientPacket) /\ t \in Seq(ClientPacket) /\ c2s'[c] = c2s[c] \o t
  BY DEF Connect, TypeInv, TypeOK, ClientPacket, LoginDataPacket
<1>2. At(t, "ObjectsData") = {}
  BY DEF At
<1>3. At(c2s[c] \o t, "ObjectsData") = At(c2s[c], "ObjectsData")
  <2> HIDE DEF t
  <2> QED
    BY <1>1, <1>2, AtConcat
<1> QED
  BY <1>1, <1>3 DEF Connect, CopyAt, sharedVars, TypeInv, TypeOK

LEMMA CloseCopy ==
  ASSUME TypeInv, NEW c \in Clients, Close(c)
  PROVE  CopyAt(c)'
  BY DEF Close, CopyAt, At, TypeInv, TypeOK

LEMMA EndCopy ==
  ASSUME TypeInv, NEW c \in Clients, CopyAt(c), End(c)
  PROVE  CopyAt(c)'
<1>1. /\ c2s'[c] = <<>>
      /\ UNCHANGED <<s2c, createQ, rx, phase, stage, objects>>
  BY DEF End, sharedVars, mainVars, TypeInv, TypeOK
<1>2. CASE phase[c] = "world"
  <2>1. \A i \in Ids : Coming(c, i)' => Coming(c, i)
    BY <1>1 DEF Coming, AsksFor, Brings, At
  <2> QED
    BY <1>1, <1>2, <2>1, NoMore
<1>3. CASE phase[c] # "world"
  BY <1>1, <1>3 DEF CopyAt, At
<1> QED
  BY <1>2, <1>3

\* What the server sends after a poll creates only what the poll did not list.
LEMMA ReactorCopy ==
  ASSUME TypeInv, PollInv, NEW c \in Clients, CopyAt(c),
         LoginData(c) \/ TransformData(c) \/ ObjectsData(c)
  PROVE  CopyAt(c)'
<1>1. /\ c2s[c] \in Seq(ClientPacket) /\ c2s[c] # <<>> /\ c2s'[c] = Tail(c2s[c])
      /\ UNCHANGED <<createQ, rx, phase, stage, objects>>
  BY DEF LoginData, TransformData, ObjectsData, Receives, serverVars, sharedVars, mainVars,
     TypeInv, TypeOK
<1>2. s2c[c] \in Seq(ServerPacket)
  BY DEF TypeInv, TypeOK
<1>3. OnePollAt(c)
  BY DEF PollInv
<1>4. CASE phase[c] = "gone"
  <2>1. s2c'[c] = <<>>
    BY <1>4 DEF LoginData, TransformData, ObjectsData, Deliver, CopyAt, TypeInv, TypeOK
  <2> QED
    BY <1>1, <1>4, <2>1 DEF CopyAt, At
<1>5. CASE phase[c] = "world"
  <2>1. ASSUME NEW i \in Ids, Coming(c, i)' PROVE Coming(c, i)
    <3>1. AsksFor(c2s'[c], i) => AsksFor(c2s[c], i)
      BY <1>1, TailAny
    <3>2. CASE TransformData(c)
      BY <2>1, <3>1, <3>2 DEF TransformData, Coming
    <3>3. CASE LoginData(c)
      <4>1. PICK ok \in BOOLEAN :
               Deliver(c, << [op |-> "LoginReply", ok |-> ok],
                             [op |-> "CreateEntityData", creates |-> {sid[c]}] >>)
        BY <3>3 DEF LoginData
      <4> DEFINE t == << [op |-> "LoginReply", ok |-> ok],
                         [op |-> "CreateEntityData", creates |-> {sid[c]}] >>
      <4>2. s2c'[c] = s2c[c] \o t
        BY <1>5, <4>1 DEF Deliver, TypeInv, TypeOK
      <4>3. sid[c] \in Ids
        BY <3>3, WorldAssumption DEF LoginData, Receives, TypeInv, TypeOK, HasSession, Ids
      <4>4. t \in Seq(ServerPacket)
        BY <4>3 DEF ServerPacket, LoginReplyPacket, CreateEntityPacket
      <4>5. ~Brings(t, i)
        BY DEF Brings, At
      <4> HIDE DEF t
      <4>6. Brings(s2c[c] \o t, i) => Brings(s2c[c], i)
        BY <1>2, <4>4, <4>5, ConcatAny
      <4> QED
        BY <2>1, <3>1, <4>2, <4>6 DEF Coming
    <3>4. CASE ObjectsData(c)
      <4> DEFINE m == Head(c2s[c])
                 a == [op |-> "ObjectsReply", state |-> ReplyState(m),
                       creates |-> Creates(c, m.ids), destroys |-> Destroys(c, m.ids)]
                 b == [op |-> "TransformEntityData"]
      <4>1. s2c'[c] = s2c[c] \o <<a, b>> /\ m.op = "ObjectsData"
        BY <1>5, <3>4 DEF ObjectsData, Receives, Deliver, TypeInv, TypeOK
      <4>2. m \in ObjectsDataPacket
        BY <1>1, <4>1, HeadTail DEF ClientPacket, LoginDataPacket, TransformDataPacket
      <4>3. i \in Creates(c, m.ids) => m.ids[i] = 0
        BY <4>2 DEF Creates, Listed, ObjectsDataPacket, Counts
      <4>4. s2c' \in [Clients -> Seq(ServerPacket)]
        BY <3>4, ObjectsDataType DEF TypeInv, TypeOK
      <4>5. \A k \in 1..Len(s2c[c]) : s2c'[c][k] = s2c[c][k]
        <5> HIDE DEF a, b
        <5> QED
          BY <1>2, <4>1
      <4>6. /\ Len(s2c'[c]) = Len(s2c[c]) + 2 /\ Len(s2c[c]) \in Nat
            /\ s2c'[c][Len(s2c[c]) + 1] = a /\ s2c'[c][Len(s2c[c]) + 2] = b
        <5> HIDE DEF a, b
        <5> QED
          BY <1>2, <4>1
      <4>7. Brings(s2c'[c], i) => Brings(s2c[c], i) \/ i \in Creates(c, m.ids)
        <5>1. b.op # "ObjectsReply" /\ a.creates = Creates(c, m.ids)
          OBVIOUS
        <5> HIDE DEF a, b
        <5> QED
          BY <4>5, <4>6, <5>1 DEF Brings, At
      <4>8. i \in Creates(c, m.ids) => AsksFor(c2s[c], i)
        BY <1>1, <4>1, <4>3, TailAny
      <4> QED
        BY <2>1, <3>1, <4>7, <4>8 DEF Coming
    <3> QED
      BY <3>2, <3>3, <3>4
  <2> QED
    BY <1>1, <1>5, <2>1, NoMore
<1>6. CASE phase[c] \notin {"world", "gone"}
  <2>1. At(c2s[c], "ObjectsData") = {} /\ At(s2c[c], "ObjectsReply") = {}
    BY <1>6 DEF CopyAt
  <2>2. ~ObjectsData(c)
    BY <1>1, <2>1, AtTail DEF ObjectsData, Receives
  <2>3. At(c2s'[c], "ObjectsData") = {}
    BY <1>1, <2>1, AtTail
  <2>4. At(s2c'[c], "ObjectsReply") = {}
    <3>1. CASE TransformData(c)
      BY <2>1, <3>1 DEF TransformData
    <3>2. CASE LoginData(c)
      <4>1. PICK ok \in BOOLEAN :
               Deliver(c, << [op |-> "LoginReply", ok |-> ok],
                             [op |-> "CreateEntityData", creates |-> {sid[c]}] >>)
        BY <3>2 DEF LoginData
      <4>2. sid[c] \in Ids
        BY <3>2, WorldAssumption DEF LoginData, Receives, TypeInv, TypeOK, HasSession, Ids
      <4>3. /\ [op |-> "LoginReply", ok |-> ok] \in ServerPacket
            /\ [op |-> "CreateEntityData", creates |-> {sid[c]}] \in ServerPacket
        BY <4>2 DEF ServerPacket, LoginReplyPacket, CreateEntityPacket
      <4> QED
        BY <1>6, <2>1, <4>1, <4>3, DeliverPoll
    <3> QED
      BY <2>2, <3>1, <3>2
  <2> QED
    BY <1>1, <1>6, <2>3, <2>4 DEF CopyAt
<1> QED
  BY <1>4, <1>5, <1>6

LEMMA LoginCopy ==
  ASSUME TypeInv, PollInv, OwnInv, NEW c \in Clients, CopyAt(c),
         Accept(c) \/ LoginReply(c) \/ LoginEnds(c) \/ StartReceiving(c)
  PROVE  CopyAt(c)'
<1>1. CASE Accept(c)
  <2>1. UNCHANGED <<c2s, s2c, createQ, rx, phase, stage, objects>>
    BY <1>1 DEF Accept, sharedVars, mainVars
  <2>2. \A i \in Ids : Coming(c, i)' => Coming(c, i)
    BY <2>1 DEF Coming
  <2>3. CASE phase[c] = "world"
    BY <2>1, <2>2, <2>3, NoMore
  <2> QED
    BY <2>1, <2>3 DEF CopyAt
<1>2. CASE LoginReply(c)
  <2>1. /\ phase[c] = "login" /\ phase'[c] \in {"loading", "failed"}
        /\ s2c[c] \in Seq(ServerPacket) /\ s2c[c] # <<>> /\ s2c'[c] = Tail(s2c[c])
        /\ UNCHANGED <<c2s, createQ, rx, objects>>
    BY <1>2 DEF LoginReply, Arrived, sharedVars, TypeInv, TypeOK
  <2>2. At(s2c'[c], "ObjectsReply") = {}
    BY <2>1, AtTail DEF CopyAt
  <2> QED
    BY <2>1, <2>2 DEF CopyAt
<1>3. CASE LoginEnds(c)
  BY <1>3 DEF LoginEnds, CopyAt, sharedVars, TypeInv, TypeOK
<1>4. CASE StartReceiving(c)
  <2>1. /\ phase[c] = "loading" /\ phase'[c] = "world"
        /\ UNCHANGED <<c2s, s2c, createQ, rx, objects>>
    BY <1>4 DEF StartReceiving, sharedVars, TypeInv, TypeOK
  <2>2. /\ objects[c] = None /\ createQ[c] = None /\ rx[c] = Idle
        /\ At(s2c[c], "ObjectsReply") = {} /\ At(c2s[c], "ObjectsData") = {}
    BY <2>1 DEF CopyAt
  <2>3. ASSUME NEW i \in Ids PROVE Sum(c, i)' = 0
    <3>1. ~Coming(c, i)'
      BY <2>1, <2>2 DEF Coming, AsksFor, Brings
    <3>2. objects'[c][i] = 0 /\ createQ'[c][i] = 0 /\ rx'[c].creates = {}
      BY <2>1, <2>2 DEF None, Idle
    <3> QED
      BY <3>1, <3>2 DEF Sum
  <2>4. \A i \in Ids : Bound(c, i)'
    BY <2>3 DEF Bound
  <2> QED
    BY <2>1, <2>4 DEF CopyAt
<1> QED
  BY <1>1, <1>2, <1>3, <1>4

\* The first entity is the only packet that creates without a poll.
LEMMA CreateEntityCopy ==
  ASSUME TypeInv, OwnInv, NEW c \in Clients, CopyAt(c), CreateEntity(c)
  PROVE  CopyAt(c)'
<1>1. /\ phase[c] = "world" /\ s2c[c] \in Seq(ServerPacket)
      /\ s2c[c] # <<>> /\ Head(s2c[c]).op = "CreateEntityData" /\ s2c'[c] = Tail(s2c[c])
      /\ UNCHANGED <<c2s, createQ, phase, stage, objects>>
  BY DEF CreateEntity, Receiving, Arrived, sharedVars, mainVars, TypeInv, TypeOK
<1>2. ~HasOwn(c)
  <2>1. HasOwn(c) => Head(s2c[c]) \in Spares(sid[c])
    BY <1>1, HeadTail DEF HasOwn
  <2> QED
    BY <1>1, <2>1 DEF Spares
<1>3. AtFirst(c)
  BY <1>1, <1>2 DEF OwnInv, OwnAt
<1>4. s2c[c] = << CreateOf(sid[c]) >> /\ createQ[c] = None /\ objects[c] = None /\ c2s[c] = <<>>
  BY <1>1, <1>3 DEF AtFirst
<1>5. s2c'[c] = <<>>
  BY <1>1, <1>4, TailOne
<1>6. ASSUME NEW i \in Ids PROVE Bound(c, i)'
  <2>1. ~Coming(c, i)'
    BY <1>1, <1>4, <1>5 DEF Coming, AsksFor, Brings, At
  <2>2. objects'[c][i] = 0 /\ createQ'[c][i] = 0
    BY <1>1, <1>4 DEF None
  <2> QED
    BY <2>1, <2>2 DEF Bound, Sum
<1> QED
  BY <1>1, <1>6 DEF CopyAt

\* What was coming is in the packet being decoded, and no more is coming.
LEMMA ObjectsReplyCopy ==
  ASSUME TypeInv, PollInv, NEW c \in Clients, CopyAt(c), ObjectsReply(c)
  PROVE  CopyAt(c)'
<1>1. /\ phase[c] = "world" /\ rx[c] = Idle /\ s2c[c] \in Seq(ServerPacket)
      /\ s2c[c] # <<>> /\ Head(s2c[c]).op = "ObjectsReply" /\ s2c'[c] = Tail(s2c[c])
      /\ rx'[c].creates = Head(s2c[c]).creates
      /\ UNCHANGED <<c2s, createQ, phase, stage, objects>>
  BY DEF ObjectsReply, Receiving, Arrived, mainVars, TypeInv, TypeOK
<1>2. At(s2c[c], "ObjectsReply") # {} /\ At(s2c'[c], "ObjectsReply") = {}
  <2>1. OnePollAt(c) /\ Arrived(c, "ObjectsReply")
    BY DEF PollInv, ObjectsReply, Receiving
  <2> QED
    BY <1>1, <2>1, ArrivedPoll
<1>3. At(c2s[c], "ObjectsData") = {}
  BY <1>1, <1>2 DEF PollInv, OnePollAt
<1>4. ASSUME NEW i \in Ids PROVE Bound(c, i)'
  <2>1. Bound(c, i) /\ objects[c][i] \in Nat /\ createQ[c][i] \in Nat
    BY <1>1, Numbers DEF CopyAt
  <2>2. ~Coming(c, i)'
    BY <1>1, <1>2, <1>3 DEF Coming, AsksFor, Brings
  <2>3. i \in rx'[c].creates => Coming(c, i)
    BY <1>1, TailAny DEF Coming
  <2>4. i \notin rx[c].creates
    BY <1>1 DEF Idle
  <2>5. Sum(c, i)' <= Sum(c, i) /\ Sum(c, i) \in Nat /\ Sum(c, i)' \in Nat
    <3>1. Sum(c, i)' = objects[c][i] + createQ[c][i] + (IF i \in rx'[c].creates THEN 1 ELSE 0)
      BY <1>1, <2>1, <2>2 DEF Sum
    <3> QED
      BY <2>1, <2>3, <2>4, <3>1 DEF Sum
  <2> QED
    BY <1>1, <2>1, <2>5 DEF Bound
<1> QED
  BY <1>1, <1>4 DEF CopyAt

LEMMA EnqueueCopy ==
  ASSUME TypeInv, NEW c \in Clients, CopyAt(c),
         TransformEntity(c) \/ EnqueueCreate(c) \/ EnqueueDestroy(c)
  PROVE  CopyAt(c)'
<1>1. CASE TransformEntity(c)
  <2>1. /\ phase[c] = "world" /\ s2c[c] \in Seq(ServerPacket)
        /\ s2c[c] # <<>> /\ s2c'[c] = Tail(s2c[c])
        /\ UNCHANGED <<c2s, createQ, rx, phase, stage, objects>>
    BY <1>1 DEF TransformEntity, Receiving, Arrived, sharedVars, mainVars, TypeInv, TypeOK
  <2>2. \A i \in Ids : Coming(c, i)' => Coming(c, i)
    BY <2>1, TailAny DEF Coming
  <2> QED
    BY <2>1, <2>2, NoMore
<1>2. CASE EnqueueDestroy(c)
  <2>1. /\ phase[c] = "world" /\ rx'[c].creates = rx[c].creates
        /\ UNCHANGED <<c2s, s2c, createQ, phase, stage, objects>>
    BY <1>2 DEF EnqueueDestroy, mainVars, TypeInv, TypeOK, Work
  <2>2. \A i \in Ids : Coming(c, i)' => Coming(c, i)
    BY <2>1 DEF Coming
  <2> QED
    BY <2>1, <2>2, NoMore
<1>3. CASE EnqueueCreate(c)
  <2>1. PICK j \in rx[c].creates :
           /\ rx' = [rx EXCEPT ![c].creates = @ \ {j}]
           /\ createQ' = [createQ EXCEPT ![c][j] = @ + 1]
    BY <1>3 DEF EnqueueCreate
  <2>2. phase[c] = "world" /\ UNCHANGED <<c2s, s2c, phase, stage, objects>>
    BY <1>3 DEF EnqueueCreate, mainVars
  <2>3. /\ rx'[c].creates = rx[c].creates \ {j} /\ j \in Ids
        /\ createQ'[c] = [createQ[c] EXCEPT ![j] = @ + 1] /\ createQ[c] \in Counts
    BY <2>1 DEF TypeInv, TypeOK, Work
  <2>4. ASSUME NEW i \in Ids PROVE Bound(c, i)'
    <3>1. Bound(c, i) /\ objects[c][i] \in Nat /\ createQ[c][i] \in Nat
      BY <2>2, Numbers DEF CopyAt
    <3>2. Coming(c, i)' <=> Coming(c, i)
      BY <2>2 DEF Coming
    <3>3. createQ'[c][i] + (IF i \in rx'[c].creates THEN 1 ELSE 0)
          = createQ[c][i] + (IF i \in rx[c].creates THEN 1 ELSE 0)
      BY <2>1, <2>3, <3>1 DEF Counts
    <3>4. createQ'[c][i] \in Nat
      BY <2>3, <3>1 DEF Counts
    <3>5. Sum(c, i)' = Sum(c, i)
      BY <2>2, <3>1, <3>2, <3>3, <3>4 DEF Sum
    <3> QED
      BY <2>2, <3>1, <3>5 DEF Bound
  <2> QED
    BY <2>2, <2>4 DEF CopyAt
<1> QED
  BY <1>1, <1>2, <1>3

LEMMA UpdateDestroyEntitiesCopy ==
  ASSUME TypeInv, NEW c \in Clients, CopyAt(c), UpdateDestroyEntities(c)
  PROVE  CopyAt(c)'
<1>1. /\ phase[c] = "world" /\ stage'[c] = "create"
      /\ UNCHANGED <<c2s, s2c, createQ, rx, phase>>
  BY DEF UpdateDestroyEntities, Frame, TypeInv, TypeOK
<1>2. PICK after \in [Ids -> UNION {0..objects[c][i] : i \in Ids}] :
         /\ \A i \in Ids :
                IF i # own[c] /\ destroyQ[c][i] > 0
                THEN after[i] \in Survivors(objects[c][i], destroyQ[c][i])
                ELSE after[i] = objects[c][i]
         /\ objects' = [objects EXCEPT ![c] = after]
  BY DEF UpdateDestroyEntities
<1>3. objects'[c] = after
  BY <1>2 DEF TypeInv, TypeOK
<1>4. ASSUME NEW i \in Ids PROVE Bound(c, i)'
  <2>1. Bound(c, i) /\ objects[c][i] \in Nat /\ createQ[c][i] \in Nat
    BY <1>1, Numbers DEF CopyAt
  <2>2. objects'[c][i] \in 0..objects[c][i]
    BY <1>2, <1>3, <2>1 DEF Survivors
  <2>3. Coming(c, i)' <=> Coming(c, i)
    BY <1>1 DEF Coming
  <2>4. Sum(c, i)' <= Sum(c, i) /\ Sum(c, i) \in Nat /\ Sum(c, i)' \in Nat
    <3>1. Sum(c, i)' = objects'[c][i] + createQ[c][i] + (IF i \in rx[c].creates THEN 1 ELSE 0)
                       + (IF Coming(c, i) THEN 1 ELSE 0)
      BY <1>1, <2>3 DEF Sum
    <3> QED
      BY <2>1, <2>2, <3>1 DEF Sum
  <2> QED
    BY <1>1, <2>1, <2>4 DEF Bound
<1> QED
  BY <1>1, <1>4 DEF CopyAt

\* The drain leaves nothing in the queue: what the array still lacks has at
\* most one copy being decoded and one coming.
LEMMA UpdateCreateEntitiesCopy ==
  ASSUME TypeInv, NEW c \in Clients, CopyAt(c), UpdateCreateEntities(c)
  PROVE  CopyAt(c)'
<1>1. /\ phase[c] = "world"
      /\ UNCHANGED <<c2s, s2c, rx, phase>>
      /\ objects'[c] = [i \in Ids |-> objects[c][i] + createQ[c][i]]
      /\ createQ'[c] = None
  BY DEF UpdateCreateEntities, Frame, TypeInv, TypeOK
<1>2. ASSUME NEW i \in Ids PROVE Bound(c, i)'
  <2>1. Bound(c, i) /\ objects[c][i] \in Nat /\ createQ[c][i] \in Nat
    BY <1>1, Numbers DEF CopyAt
  <2>2. Coming(c, i)' <=> Coming(c, i)
    BY <1>1 DEF Coming
  <2>3. objects'[c][i] = objects[c][i] + createQ[c][i] /\ createQ'[c][i] = 0
    BY <1>1 DEF None
  <2>4. Sum(c, i)' = Sum(c, i)
    BY <1>1, <2>1, <2>2, <2>3 DEF Sum
  <2>5. objects'[c][i] = 0 => Sum(c, i)' <= 2
    BY <1>1, <2>1, <2>2, <2>3 DEF Sum
  <2> QED
    BY <2>1, <2>4, <2>5 DEF Bound
<1> QED
  BY <1>1, <1>2 DEF CopyAt

LEMMA NoSessionCopy ==
  ASSUME TypeInv, NEW c \in Clients, CopyAt(c), NoSession(c)
  PROVE  CopyAt(c)'
<1>1. /\ phase[c] = "world" /\ stage'[c] = "destroy"
      /\ UNCHANGED <<c2s, s2c, createQ, rx, phase, objects>>
  BY DEF NoSession, Frame, sharedVars, TypeInv, TypeOK
<1>2. \A i \in Ids : Coming(c, i)' => Coming(c, i)
  BY <1>1 DEF Coming
<1> QED
  BY <1>1, <1>2, NoMore

\* A poll leaves when nothing is coming, and asks for one more copy of what it
\* does not list.
LEMMA UpdateSessionCopy ==
  ASSUME TypeInv, PollInv, NEW c \in Clients, CopyAt(c), UpdateSession(c)
  PROVE  CopyAt(c)'
<1>1. /\ phase[c] = "world" /\ stage[c] = "timers" /\ stage'[c] = "destroy"
      /\ UNCHANGED <<s2c, createQ, rx, phase, objects>>
  BY DEF UpdateSession, Frame, TypeInv, TypeOK
<1>2. PICK path \in UpdatePath(c) :
         c2s'[c] = IF handler[c] = "ended" THEN c2s[c]
                   ELSE c2s[c] \o sendQueue[c] \o path \o Poll(c)
  BY DEF UpdateSession, TypeInv, TypeOK
<1> DEFINE s == c2s[c] \o sendQueue[c]
           t == s \o path
<1>3. /\ c2s[c] \in Seq(ClientPacket) /\ sendQueue[c] \in Seq(ClientPacket)
      /\ path \in Seq(ClientPacket) /\ Poll(c) \in Seq(ClientPacket)
      /\ s \in Seq(ClientPacket) /\ t \in Seq(ClientPacket)
  BY SentType DEF TypeInv, TypeOK
<1>4. At(sendQueue[c], "ObjectsData") = {} /\ At(path, "ObjectsData") = {}
  BY PathIsNoPoll DEF PollInv, OnePollAt
<1>5. c2s'[c] = c2s[c] \/ c2s'[c] = t \o Poll(c)
  BY <1>2
<1>6. ASSUME NEW i \in Ids PROVE AsksFor(t, i) => AsksFor(c2s[c], i)
  <2>1. ~AsksFor(sendQueue[c], i) /\ ~AsksFor(path, i)
    BY <1>4 DEF AsksFor
  <2>2. AsksFor(s, i) => AsksFor(c2s[c], i)
    BY <1>3, <2>1, ConcatAny
  <2>3. AsksFor(t, i) => AsksFor(s, i)
    <3> HIDE DEF s
    <3> QED
      BY <1>3, <2>1, ConcatAny
  <2> QED
    BY <2>2, <2>3
<1> HIDE DEF s, t
<1>7. ASSUME NEW i \in Ids PROVE Bound(c, i)'
  <2>1. Bound(c, i) /\ objects[c][i] \in Nat /\ createQ[c][i] \in Nat
    BY <1>1, Numbers DEF CopyAt
  <2>2. Coming(c, i)' =>
           Coming(c, i) \/ (MayPoll(c) /\ objects[c][i] = 0 /\ ~Coming(c, i))
    <3>1. AsksFor(c2s'[c], i) => AsksFor(c2s[c], i) \/ AsksFor(Poll(c), i)
      BY <1>3, <1>5, <1>6, ConcatAny
    <3>2. AsksFor(Poll(c), i) => MayPoll(c) /\ objects[c][i] = 0
      BY DEF AsksFor, Poll, At
    <3> QED
      BY <1>1, <3>1, <3>2 DEF Coming
  <2>3. objects[c][i] # 0 => (Coming(c, i)' => Coming(c, i))
    BY <2>2
  <2>4. Sum(c, i)' = objects[c][i] + createQ[c][i] + (IF i \in rx[c].creates THEN 1 ELSE 0)
                     + (IF Coming(c, i)' THEN 1 ELSE 0)
    BY <1>1 DEF Sum
  <2>5. Sum(c, i)' <= 3
    <3>1. CASE objects[c][i] = 0
      <4>1. Sum(c, i) <= 2 /\ Sum(c, i)' <= Sum(c, i) + 1
        BY <1>1, <2>1, <2>4, <3>1 DEF Bound, Sum
      <4>2. Sum(c, i) \in Nat /\ Sum(c, i)' \in Nat
        BY <2>1, <2>4 DEF Sum
      <4> QED
        BY <4>1, <4>2
    <3>2. CASE objects[c][i] # 0
      <4>1. Sum(c, i) <= 3 /\ Sum(c, i)' <= Sum(c, i)
        BY <2>1, <2>3, <2>4, <3>2 DEF Bound, Sum
      <4>2. Sum(c, i) \in Nat /\ Sum(c, i)' \in Nat
        BY <2>1, <2>4 DEF Sum
      <4> QED
        BY <4>1, <4>2
    <3> QED
      BY <3>1, <3>2
  <2> QED
    BY <1>1, <2>5 DEF Bound
<1> QED
  BY <1>1, <1>7 DEF CopyAt

LEMMA CopyStep == TypeInv /\ PollInv /\ OwnInv /\ CopyInv /\ [Next]_vars => CopyInv'
<1> SUFFICES ASSUME TypeInv, PollInv, OwnInv, CopyInv, [Next]_vars
             PROVE  CopyInv'
  OBVIOUS
<1>1. CASE UNCHANGED vars
  BY <1>1 DEF CopyInv, CopyAt, Bound, Sum, Coming, vars, sharedVars, mainVars
<1>2. ASSUME NEW c \in Clients, Step(c)
      PROVE  CopyInv'
  <2>1. CopyAt(c)
    BY DEF CopyInv
  <2>2. CopyAt(c)'
    <3>1. CASE Connect(c) \/ OnDestroy(c) \/ ReadFails(c)
      BY <2>1, <3>1, ConnectCopy, CloseCopy, EndCopy DEF OnDestroy, ReadFails
    <3>2. CASE Reactor(c)
      BY <2>1, <3>2, LoginCopy, EndCopy, ReactorCopy DEF Reactor, ReadClosed
    <3>3. CASE ReceiveThread(c)
      BY <2>1, <3>3, CreateEntityCopy, ObjectsReplyCopy, EnqueueCopy DEF ReceiveThread
    <3>4. CASE MainThread(c)
      BY <2>1, <3>4, LoginCopy, UpdateDestroyEntitiesCopy, UpdateCreateEntitiesCopy,
         UpdateSessionCopy, NoSessionCopy, CloseCopy
         DEF MainThread, Logout
    <3> QED
      BY <1>2, <3>1, <3>2, <3>3, <3>4 DEF Step
  <2>3. ASSUME NEW d \in Clients, d # c
        PROVE  CopyAt(d)'
    <3>1. Same(d)
      BY <1>2, <2>3, Others
    <3>2. CopyAt(d)
      BY DEF CopyInv
    <3> QED
      BY <3>1, <3>2 DEF Same, CopyAt, Bound, Sum, Coming
  <2> QED
    BY <2>2, <2>3 DEF CopyInv
<1> QED
  BY <1>1, <1>2 DEF Next, Step

LEMMA SumIsCopies ==
  ASSUME TypeInv, PollInv, CopyInv, NEW c \in Clients, NEW i \in Ids
  PROVE  Copies(c, i) <= 3
<1> DEFINE R == {k \in RepliesAt(c) : i \in s2c[c][k].creates}
           D == {i} \cap rx[c].creates
<1>1. objects[c][i] \in Nat /\ createQ[c][i] \in Nat
  BY Numbers
<1>2. Cardinality(D) = IF i \in rx[c].creates THEN 1 ELSE 0
  <2>1. D = IF i \in rx[c].creates THEN {i} ELSE {}
    OBVIOUS
  <2> HIDE DEF D
  <2> QED
    BY <2>1, FS_Singleton, FS_EmptySet
<1>3. RepliesAt(c) = At(s2c[c], "ObjectsReply")
  BY DEF RepliesAt, At
<1>4. \A k, l \in R : k = l
  <2>1. CASE phase[c] # "gone"
    BY <1>3, <2>1 DEF PollInv, OnePollAt
  <2>2. CASE phase[c] = "gone"
    BY <2>2 DEF CopyInv, CopyAt, RepliesAt
  <2> QED
    BY <2>1, <2>2
<1>5. Cardinality(R) = IF R # {} THEN 1 ELSE 0
  <2> HIDE DEF R
  <2>1. R = {} \/ \E k \in R : R = {k}
    BY <1>4
  <2> QED
    BY <2>1, FS_Singleton, FS_EmptySet
<1>6. R # {} => Coming(c, i)
  BY <1>3 DEF Coming, Brings
<1>7. Copies(c, i) = objects[c][i] + createQ[c][i] + Cardinality(D) + Cardinality(R)
  BY DEF Copies
<1> HIDE DEF R, D
<1>8. CASE phase[c] = "world"
  <2>1. Sum(c, i) <= 3
    BY <1>8 DEF CopyInv, CopyAt, Bound
  <2> QED
    BY <1>1, <1>2, <1>5, <1>6, <1>7, <2>1 DEF Sum
<1>9. CASE phase[c] # "world"
  <2>1. objects[c][i] = 0 /\ createQ[c][i] = 0 /\ i \notin rx[c].creates
    BY <1>9 DEF CopyInv, CopyAt, None, Idle
  <2> QED
    BY <1>2, <1>5, <1>7, <2>1
<1> QED
  BY <1>8, <1>9

(***************************************************************************)
(* Between the server and the array of a client there are never more than  *)
(* three copies of an entity, for any number of clients, frames and polls  *)
(* (WorldScript.js, UpdateCreateEntities, UpdateSession; Network.js,       *)
(* ObjectsReply; Receive.cpp, ObjectsData).                                *)
(***************************************************************************)
THEOREM ThreeCopiesCorrect == Spec => []ThreeCopies
<1>1. TypeInv /\ PollInv /\ CopyInv => ThreeCopies
  BY SumIsCopies DEF ThreeCopies
<1> QED
  BY <1>1, TypeInvariant, PollInit, PollStep, OwnInit, OwnStep, CopyInit, CopyStep,
     PTL DEF Spec
=============================================================================
