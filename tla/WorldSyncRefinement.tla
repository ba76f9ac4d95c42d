------------------------- MODULE WorldSyncRefinement -------------------------
(***************************************************************************)
(* WorldSync destroys only what is dead and implements WorldView, for      *)
(* every value of the constants.  Both rest on one invariant, which tracks *)
(* an id on its whole way round: from the server's table through packets,  *)
(* receive thread, queue and array, back in the client's poll, and once    *)
(* more as a destroy.                                                      *)
(***************************************************************************)
EXTENDS WorldSyncProofs

\* Ids that were issued and retired: a retired id never comes back.
Dead == (1..lastId) \ live

IssuedCounts == {b \in Counts : Listed(b) \subseteq 1..lastId}
DeadCounts == {b \in Counts : Listed(b) \subseteq Dead}
SoundWork == {w \in Work : w.creates \subseteq 1..lastId /\ w.destroys \in DeadCounts}
SoundPoll == {m \in ClientPacket : m.op = "ObjectsData" => m.ids \in IssuedCounts}
SoundReply ==
    {m \in ServerPacket :
        /\ m.op \in {"CreateEntityData", "ObjectsReply"} => m.creates \subseteq 1..lastId
        /\ m.op = "ObjectsReply" => m.destroys \in DeadCounts}

(***************************************************************************)
(* What clients hold and send are issued ids; what they are told to        *)
(* destroy are dead ones.                                                  *)
(***************************************************************************)
SoundInv ==
    /\ c2s \in [Clients -> Seq(SoundPoll)]
    /\ sendQueue \in [Clients -> Seq(SoundPoll)]
    /\ s2c \in [Clients -> Seq(SoundReply)]
    /\ rx \in [Clients -> SoundWork]
    /\ createQ \in [Clients -> IssuedCounts]
    /\ destroyQ \in [Clients -> DeadCounts]
    /\ objects \in [Clients -> IssuedCounts]

-----------------------------------------------------------------------------
\* The scan never leaves more copies than there were.
LEMMA SurvivorsBound ==
  ASSUME NEW n \in Nat, NEW q \in Nat, NEW k \in Survivors(n, q)
  PROVE  k \in Nat /\ (n = 0 => k = 0)
  BY DEF Survivors

LEMMA SeqGrows ==
  ASSUME NEW S, NEW T, S \subseteq T, NEW f \in [Clients -> Seq(S)]
  PROVE  f \in [Clients -> Seq(T)]
<1>1. ASSUME NEW c \in Clients PROVE f[c] \in Seq(T)
  BY SeqDef
<1> QED
  BY <1>1

LEMMA SoundNone == None \in IssuedCounts /\ None \in DeadCounts /\ Idle \in SoundWork
  BY IdFacts DEF IssuedCounts, DeadCounts, SoundWork, Idle

\* A step that leaves the server's table alone leaves the sets alone.
LEMMA SameSets ==
  ASSUME UNCHANGED <<lastId, live>>
  PROVE  /\ IssuedCounts' = IssuedCounts /\ DeadCounts' = DeadCounts
         /\ SoundWork' = SoundWork /\ SoundPoll' = SoundPoll
         /\ SoundReply' = SoundReply
  BY DEF IssuedCounts, DeadCounts, SoundWork, SoundPoll, SoundReply, Dead

\* A step that issues an id or retires one lets the sets grow.
LEMMA SetsGrow ==
  ASSUME lastId \in Nat, lastId' \in Nat, lastId <= lastId', Dead \subseteq Dead'
  PROVE  /\ IssuedCounts \subseteq IssuedCounts' /\ DeadCounts \subseteq DeadCounts'
         /\ SoundWork \subseteq SoundWork' /\ SoundPoll \subseteq SoundPoll'
         /\ SoundReply \subseteq SoundReply'
<1>1. 1..lastId \subseteq 1..lastId'
  OBVIOUS
<1>2. IssuedCounts \subseteq IssuedCounts' /\ DeadCounts \subseteq DeadCounts'
  BY <1>1 DEF IssuedCounts, DeadCounts
<1> QED
  BY <1>1, <1>2 DEF SoundWork, SoundPoll, SoundReply

LEMMA SoundInit == Init => SoundInv
<1>1. None \in IssuedCounts /\ None \in DeadCounts /\ Idle \in SoundWork
  BY SoundNone
<1> QED
  BY <1>1 DEF Init, SoundInv

\* The state of all clients but what they have sent to the server.
clientVars == <<sendQueue, s2c, rx, createQ, destroyQ, objects>>

LEMMA SoundGrows ==
  ASSUME SoundInv, lastId \in Nat, lastId' \in Nat, lastId <= lastId', Dead \subseteq Dead',
         UNCHANGED clientVars, c2s' \in [Clients -> Seq(SoundPoll)]
  PROVE  SoundInv'
<1>1. /\ c2s' \in [Clients -> Seq(SoundPoll')]
      /\ sendQueue' \in [Clients -> Seq(SoundPoll')]
      /\ s2c' \in [Clients -> Seq(SoundReply')]
  BY SetsGrow, SeqGrows DEF SoundInv, clientVars
<1>2. /\ rx' \in [Clients -> SoundWork']
      /\ createQ' \in [Clients -> IssuedCounts']
      /\ destroyQ' \in [Clients -> DeadCounts']
      /\ objects' \in [Clients -> IssuedCounts']
  BY SetsGrow DEF SoundInv, clientVars
<1> QED
  BY <1>1, <1>2 DEF SoundInv

LEMMA AcceptSound ==
  ASSUME TypeInv, SoundInv, NEW c \in Clients, Accept(c)
  PROVE  SoundInv'
<1>1. lastId \in Nat /\ lastId' \in Nat /\ lastId <= lastId'
  BY WorldAssumption DEF TypeInv, TypeOK, Accept
<1>2. Dead \subseteq Dead'
  BY <1>1 DEF Dead, TypeInv, TypeOK, Accept
<1>3. UNCHANGED clientVars /\ c2s' \in [Clients -> Seq(SoundPoll)]
  BY DEF Accept, sharedVars, mainVars, clientVars, SoundInv
<1> QED
  BY <1>1, <1>2, <1>3, SoundGrows

LEMMA EndSound ==
  ASSUME TypeInv, SoundInv, NEW c \in Clients, End(c)
  PROVE  SoundInv'
<1>1. lastId \in Nat /\ lastId' = lastId
  BY WorldAssumption DEF TypeInv, TypeOK, End
<1>2. Dead \subseteq Dead'
  BY <1>1 DEF Dead, End
<1>3. UNCHANGED clientVars
  BY DEF End, sharedVars, mainVars, clientVars
<1>4. c2s' \in [Clients -> Seq(SoundPoll)]
  BY DEF End, SoundInv
<1> QED
  BY <1>1, <1>2, <1>3, <1>4, SoundGrows
-----------------------------------------------------------------------------
(***************************************************************************)
(* The steps that leave the server's table alone: with the sets constant,  *)
(* the proof is one of types.  An action hands on what it was given.       *)
(***************************************************************************)
LEMMA ConnectSound ==
  ASSUME TypeInv, SoundInv, NEW c \in Clients, Connect(c)
  PROVE  SoundInv'
<1>1. [op |-> "LoginData"] \in SoundPoll
  BY DEF SoundPoll, ClientPacket, LoginDataPacket
<1>2. c2s' \in [Clients -> Seq(SoundPoll)]
  BY <1>1 DEF SoundInv, Connect
<1> QED
  BY <1>2, SameSets DEF SoundInv, Connect, serverVars, sharedVars

LEMMA ReceivesSound ==
  ASSUME SoundInv, NEW c \in Clients, NEW op, Receives(c, op)
  PROVE  c2s' \in [Clients -> Seq(SoundPoll)] /\ Head(c2s[c]) \in SoundPoll
  BY DEF Receives, SoundInv

LEMMA DeliverSound ==
  ASSUME SoundInv, NEW c \in Clients, NEW p \in SoundReply, NEW q \in SoundReply,
         Deliver(c, <<p, q>>)
  PROVE  s2c' \in [Clients -> Seq(SoundReply)]
  BY DEF Deliver, SoundInv

LEMMA LoginDataSound ==
  ASSUME TypeInv, SoundInv, NEW c \in Clients, LoginData(c)
  PROVE  SoundInv'
<1>1. c2s' \in [Clients -> Seq(SoundPoll)]
  BY ReceivesSound DEF LoginData
<1>2. s2c' \in [Clients -> Seq(SoundReply)]
  <2>1. sid[c] \in 1..lastId /\ sid[c] \in Ids
    BY WorldAssumption DEF TypeInv, TypeOK, HasSession, LoginData, Receives, Ids
  <2>2. PICK ok \in BOOLEAN :
           Deliver(c, << [op |-> "LoginReply", ok |-> ok],
                         [op |-> "CreateEntityData", creates |-> {sid[c]}] >>)
    BY DEF LoginData
  <2>3. /\ [op |-> "LoginReply", ok |-> ok] \in SoundReply
        /\ [op |-> "CreateEntityData", creates |-> {sid[c]}] \in SoundReply
    BY <2>1 DEF SoundReply, ServerPacket, LoginReplyPacket, CreateEntityPacket
  <2> QED
    BY <2>2, <2>3, DeliverSound
<1> QED
  BY <1>1, <1>2, SameSets DEF SoundInv, LoginData, serverVars, sharedVars, mainVars

LEMMA TransformDataSound ==
  ASSUME TypeInv, SoundInv, NEW c \in Clients, TransformData(c)
  PROVE  SoundInv'
<1>1. c2s' \in [Clients -> Seq(SoundPoll)]
  BY ReceivesSound DEF TransformData
<1> QED
  BY <1>1, SameSets DEF SoundInv, TransformData, sharedVars, mainVars

\* The heart of it: an id that is listed and not live is dead, because a
\* client lists none but issued ids.
LEMMA ObjectsDataSound ==
  ASSUME TypeInv, SoundInv, NEW c \in Clients, ObjectsData(c)
  PROVE  SoundInv'
<1> DEFINE m == Head(c2s[c])
           r == [op |-> "ObjectsReply", state |-> ReplyState(m),
                 creates |-> Creates(c, m.ids), destroys |-> Destroys(c, m.ids)]
<1>1. /\ c2s' \in [Clients -> Seq(SoundPoll)]
      /\ m \in SoundPoll /\ m.op = "ObjectsData"
  BY ReceivesSound DEF ObjectsData, Receives
<1>2. m.state \in {0, 1} /\ m.ids \in IssuedCounts /\ m.ids \in Counts
  BY <1>1 DEF SoundPoll, ClientPacket, LoginDataPacket, TransformDataPacket,
              ObjectsDataPacket, IssuedCounts
<1>3. Creates(c, m.ids) \subseteq 1..lastId /\ Creates(c, m.ids) \subseteq Ids
  <2>1. live \subseteq 1..lastId /\ live \subseteq Ids
    BY WorldAssumption DEF TypeInv, TypeOK, Ids
  <2>2. Creates(c, m.ids) \subseteq live
    BY DEF Creates
  <2> QED
    BY <2>1, <2>2
<1>4. Destroys(c, m.ids) \in DeadCounts
  <2>1. Stale(c, m.ids) \subseteq Dead
    BY <1>2 DEF Stale, Dead, IssuedCounts
  <2>2. \A i \in Ids : i \notin Stale(c, m.ids) => Destroys(c, m.ids)[i] = 0
    BY DEF Destroys
  <2>3. Listed(Destroys(c, m.ids)) \subseteq Stale(c, m.ids)
    BY <2>2 DEF Listed
  <2> QED
    BY <1>2, <2>1, <2>3, DestroysInCounts DEF DeadCounts, TypeInv
<1>5. r \in SoundReply /\ [op |-> "TransformEntityData"] \in SoundReply
  <2>1. r \in ServerPacket
    BY <1>2, <1>3, <1>4 DEF ServerPacket, ObjectsReplyPacket, ReplyState, DeadCounts
  <2> QED
    BY <2>1, <1>3, <1>4 DEF SoundReply, ServerPacket, TransformEntityPacket
<1>6. s2c' \in [Clients -> Seq(SoundReply)]
  BY <1>5, DeliverSound DEF ObjectsData
<1> QED
  BY <1>1, <1>6, SameSets DEF SoundInv, ObjectsData, serverVars, sharedVars, mainVars

LEMMA ArrivedSound ==
  ASSUME SoundInv, NEW c \in Clients, NEW op, Arrived(c, op)
  PROVE  s2c' \in [Clients -> Seq(SoundReply)] /\ Head(s2c[c]) \in SoundReply
  BY DEF Arrived, SoundInv

LEMMA LoginStepsSound ==
  ASSUME TypeInv, SoundInv, NEW c \in Clients,
         LoginReply(c) \/ LoginEnds(c) \/ StartReceiving(c)
  PROVE  SoundInv'
<1>1. s2c' \in [Clients -> Seq(SoundReply)]
  BY ArrivedSound DEF LoginReply, LoginEnds, StartReceiving, SoundInv
<1> QED
  BY <1>1, SameSets DEF SoundInv, LoginReply, LoginEnds, StartReceiving, serverVars,
                        sharedVars

LEMMA CreateEntitySound ==
  ASSUME TypeInv, SoundInv, NEW c \in Clients, CreateEntity(c)
  PROVE  SoundInv'
<1>1. s2c' \in [Clients -> Seq(SoundReply)]
      /\ Head(s2c[c]) \in SoundReply /\ Head(s2c[c]).op = "CreateEntityData"
  BY ArrivedSound DEF CreateEntity, Receiving, Arrived
<1>2. Head(s2c[c]).creates \subseteq 1..lastId /\ Head(s2c[c]).creates \subseteq Ids
  BY <1>1 DEF SoundReply, ServerPacket, LoginReplyPacket, CreateEntityPacket,
              ObjectsReplyPacket, TransformEntityPacket
<1>3. [Idle EXCEPT !.creates = Head(s2c[c]).creates] \in SoundWork
  BY <1>2, SoundNone, IdFacts DEF SoundWork, Work, Idle
<1>4. rx' \in [Clients -> SoundWork]
  BY <1>3 DEF CreateEntity, SoundInv
<1> QED
  BY <1>1, <1>4, SameSets DEF SoundInv, CreateEntity, serverVars, sharedVars, mainVars

LEMMA ObjectsReplySound ==
  ASSUME TypeInv, SoundInv, NEW c \in Clients, ObjectsReply(c)
  PROVE  SoundInv'
<1> DEFINE m == Head(s2c[c])
<1>1. /\ s2c' \in [Clients -> Seq(SoundReply)]
      /\ m \in SoundReply /\ m.op = "ObjectsReply"
  BY ArrivedSound DEF ObjectsReply, Receiving, Arrived
<1>2. m.creates \subseteq 1..lastId /\ m.creates \subseteq Ids /\ m.destroys \in DeadCounts
  BY <1>1 DEF SoundReply, ServerPacket, LoginReplyPacket, CreateEntityPacket,
              ObjectsReplyPacket, TransformEntityPacket
<1>3. [creates |-> m.creates, destroys |-> m.destroys] \in SoundWork
  BY <1>2 DEF SoundWork, Work, DeadCounts
<1>4. rx' \in [Clients -> SoundWork]
  BY <1>3 DEF ObjectsReply, SoundInv
<1> QED
  BY <1>1, <1>4, SameSets DEF SoundInv, ObjectsReply, serverVars, mainVars

LEMMA TransformEntitySound ==
  ASSUME TypeInv, SoundInv, NEW c \in Clients, TransformEntity(c)
  PROVE  SoundInv'
<1>1. s2c' \in [Clients -> Seq(SoundReply)]
  BY ArrivedSound DEF TransformEntity, Receiving
<1> QED
  BY <1>1, SameSets DEF SoundInv, TransformEntity, serverVars, sharedVars, mainVars

\* One more copy of an id that belongs to the set leaves the count sound.
LEMMA CountSound ==
  ASSUME NEW b \in Counts, NEW S, Listed(b) \subseteq S, NEW i \in Ids, i \in S
  PROVE  LET d == [b EXCEPT ![i] = @ + 1]
         IN  d \in Counts /\ Listed(d) \subseteq S
  BY DEF Counts, Listed

LEMMA EnqueueCreateSound ==
  ASSUME TypeInv, SoundInv, NEW c \in Clients, EnqueueCreate(c)
  PROVE  SoundInv'
<1>1. PICK i \in rx[c].creates :
         /\ rx' = [rx EXCEPT ![c].creates = @ \ {i}]
         /\ createQ' = [createQ EXCEPT ![c][i] = @ + 1]
  BY DEF EnqueueCreate
<1>2. rx' \in [Clients -> SoundWork]
  BY <1>1 DEF SoundInv, SoundWork, Work
<1>3. createQ' \in [Clients -> IssuedCounts]
  <2>1. i \in Ids /\ i \in 1..lastId
    BY DEF SoundInv, SoundWork, Work
  <2>2. createQ' = [createQ EXCEPT ![c] = [createQ[c] EXCEPT ![i] = @ + 1]]
    BY <1>1
  <2>3. [createQ[c] EXCEPT ![i] = @ + 1] \in IssuedCounts
    BY <2>1, CountSound DEF SoundInv, IssuedCounts
  <2> QED
    BY <2>2, <2>3 DEF SoundInv
<1> QED
  BY <1>2, <1>3, SameSets DEF SoundInv, EnqueueCreate, serverVars, mainVars

LEMMA EnqueueDestroySound ==
  ASSUME TypeInv, SoundInv, NEW c \in Clients, EnqueueDestroy(c)
  PROVE  SoundInv'
<1>1. PICK i \in Listed(rx[c].destroys) :
         /\ rx' = [rx EXCEPT ![c].destroys[i] = @ - 1]
         /\ destroyQ' = [destroyQ EXCEPT ![c][i] = @ + 1]
  BY DEF EnqueueDestroy
<1> DEFINE d == rx[c].destroys
           e == [d EXCEPT ![i] = @ - 1]
<1>2. /\ i \in Ids /\ d[i] > 0 /\ i \in Dead
      /\ d \in Counts /\ Listed(d) \subseteq Dead
  BY <1>1 DEF Listed, SoundInv, SoundWork, DeadCounts
<1>3. rx' \in [Clients -> SoundWork]
  <2>1. e \in Counts /\ Listed(e) \subseteq Dead
    BY <1>2 DEF Counts, Listed
  <2>2. [rx[c] EXCEPT !.destroys = e] \in SoundWork
    BY <2>1 DEF SoundInv, SoundWork, Work, DeadCounts
  <2>3. rx' = [rx EXCEPT ![c] = [rx[c] EXCEPT !.destroys = e]]
    BY <1>1
  <2> QED
    BY <2>2, <2>3 DEF SoundInv
<1>4. destroyQ' \in [Clients -> DeadCounts]
  <2>1. destroyQ' = [destroyQ EXCEPT ![c] = [destroyQ[c] EXCEPT ![i] = @ + 1]]
    BY <1>1
  <2>2. [destroyQ[c] EXCEPT ![i] = @ + 1] \in DeadCounts
    BY <1>2, CountSound DEF SoundInv, DeadCounts
  <2> QED
    BY <2>1, <2>2 DEF SoundInv
<1> QED
  BY <1>3, <1>4, SameSets DEF SoundInv, EnqueueDestroy, serverVars, mainVars
LEMMA UpdateDestroyEntitiesSound ==
  ASSUME TypeInv, SoundInv, NEW c \in Clients, UpdateDestroyEntities(c)
  PROVE  SoundInv'
<1>1. PICK after \in [Ids -> UNION {0..objects[c][i] : i \in Ids}] :
         /\ \A i \in Ids :
               IF i # own[c] /\ destroyQ[c][i] > 0
               THEN after[i] \in Survivors(objects[c][i], destroyQ[c][i])
               ELSE after[i] = objects[c][i]
         /\ objects' = [objects EXCEPT ![c] = after]
  BY DEF UpdateDestroyEntities
<1>2. after \in Counts
  BY DEF TypeInv, TypeOK, Counts
<1>3. Listed(after) \subseteq 1..lastId
  <2> SUFFICES ASSUME NEW i \in Ids, after[i] > 0 PROVE i \in 1..lastId
    BY DEF Listed
  <2>1. CASE destroyQ[c][i] > 0
    BY <2>1 DEF SoundInv, DeadCounts, Listed, Dead
  <2>2. CASE ~(destroyQ[c][i] > 0)
    BY <1>1, <2>2 DEF SoundInv, IssuedCounts, Listed
  <2> QED
    BY <2>1, <2>2
<1>4. objects' \in [Clients -> IssuedCounts]
  BY <1>1, <1>2, <1>3 DEF SoundInv, IssuedCounts
<1>5. destroyQ' \in [Clients -> DeadCounts]
  BY SoundNone DEF SoundInv, UpdateDestroyEntities
<1> QED
  BY <1>4, <1>5, SameSets DEF SoundInv, UpdateDestroyEntities, Frame, serverVars

LEMMA UpdateCreateEntitiesSound ==
  ASSUME TypeInv, SoundInv, NEW c \in Clients, UpdateCreateEntities(c)
  PROVE  SoundInv'
<1>1. [i \in Ids |-> objects[c][i] + createQ[c][i]] \in IssuedCounts
  BY DEF SoundInv, IssuedCounts, Counts, Listed
<1>2. objects' \in [Clients -> IssuedCounts]
  BY <1>1 DEF SoundInv, UpdateCreateEntities
<1>3. createQ' \in [Clients -> IssuedCounts]
  BY SoundNone DEF SoundInv, UpdateCreateEntities
<1> QED
  BY <1>2, <1>3, SameSets DEF SoundInv, UpdateCreateEntities, Frame, serverVars

LEMMA SentSound ==
  ASSUME TypeInv, SoundInv, NEW c \in Clients
  PROVE  /\ Poll(c) \in Seq(SoundPoll)
         /\ \A path \in UpdatePath(c) : path \in Seq(SoundPoll)
<1>1. [op |-> "ObjectsData", state |-> check[c], ids |-> objects[c]] \in SoundPoll
  BY DEF TypeInv, TypeOK, SoundInv, SoundPoll, ClientPacket, ObjectsDataPacket
<1>2. \A p \in Places : [op |-> "TransformData", last |-> p] \in SoundPoll
  BY DEF SoundPoll, ClientPacket, TransformDataPacket
<1>3. Poll(c) \in Seq(SoundPoll)
  BY <1>1 DEF Poll
<1>4. ASSUME NEW path \in UpdatePath(c) PROVE path \in Seq(SoundPoll)
  <2>1. path = <<>> \/ \E p \in Places : path = << [op |-> "TransformData", last |-> p] >>
    BY DEF UpdatePath
  <2>2. \A p \in Places : << [op |-> "TransformData", last |-> p] >> \in Seq(SoundPoll)
    BY <1>2, OneInSeq
  <2> QED
    BY <2>1, <2>2, EmptySeq
<1> QED
  BY <1>3, <1>4

LEMMA NoSessionSound ==
  ASSUME TypeInv, SoundInv, NEW c \in Clients, NoSession(c)
  PROVE  SoundInv'
<1>1. sendQueue' \in [Clients -> Seq(SoundPoll)]
  BY SentSound DEF SoundInv, NoSession
<1> QED
  BY <1>1, SameSets DEF SoundInv, NoSession, Frame, serverVars, sharedVars

LEMMA UpdateSessionSound ==
  ASSUME TypeInv, SoundInv, NEW c \in Clients, UpdateSession(c)
  PROVE  SoundInv'
<1>1. PICK path \in UpdatePath(c) :
          c2s' = [c2s EXCEPT ![c] = IF handler[c] = "ended" THEN @
                                    ELSE @ \o sendQueue[c] \o path \o Poll(c)]
  BY DEF UpdateSession
<1>2. path \in Seq(SoundPoll) /\ Poll(c) \in Seq(SoundPoll)
  BY SentSound
<1>3. c2s' \in [Clients -> Seq(SoundPoll)]
  BY <1>1, <1>2 DEF SoundInv
<1>4. sendQueue' \in [Clients -> Seq(SoundPoll)]
  BY DEF SoundInv, UpdateSession
<1> QED
  BY <1>3, <1>4, SameSets DEF SoundInv, UpdateSession, Frame, serverVars

LEMMA CloseSound ==
  ASSUME TypeInv, SoundInv, NEW c \in Clients, Close(c)
  PROVE  SoundInv'
<1>1. /\ s2c' \in [Clients -> Seq(SoundReply)]
      /\ sendQueue' \in [Clients -> Seq(SoundPoll)]
  BY DEF SoundInv, Close
<1>2. /\ createQ' \in [Clients -> IssuedCounts]
      /\ destroyQ' \in [Clients -> DeadCounts]
      /\ objects' \in [Clients -> IssuedCounts]
      /\ rx' \in [Clients -> SoundWork]
  BY SoundNone DEF SoundInv, Close
<1> QED
  BY <1>1, <1>2, SameSets DEF SoundInv, Close, serverVars

LEMMA SoundStep == TypeInv /\ SoundInv /\ [Next]_vars => SoundInv'
<1> SUFFICES ASSUME TypeInv, SoundInv, [Next]_vars PROVE SoundInv'
  OBVIOUS
<1>1. CASE UNCHANGED vars
  BY <1>1, SameSets DEF SoundInv, vars, serverVars, sharedVars, mainVars
<1>2. ASSUME NEW c \in Clients, Connect(c) \/ OnDestroy(c) \/ ReadFails(c)
      PROVE  SoundInv'
  BY <1>2, ConnectSound, CloseSound, EndSound DEF OnDestroy, ReadFails
<1>3. ASSUME NEW c \in Clients, Reactor(c)
      PROVE  SoundInv'
  BY <1>3, AcceptSound, EndSound, LoginDataSound, TransformDataSound, ObjectsDataSound
     DEF Reactor, ReadClosed
<1>4. ASSUME NEW c \in Clients, ReceiveThread(c)
      PROVE  SoundInv'
  BY <1>4, CreateEntitySound, ObjectsReplySound, TransformEntitySound,
     EnqueueCreateSound, EnqueueDestroySound DEF ReceiveThread
<1>5. ASSUME NEW c \in Clients, MainThread(c)
      PROVE  SoundInv'
  BY <1>5, LoginStepsSound, UpdateDestroyEntitiesSound, UpdateCreateEntitiesSound,
     UpdateSessionSound, NoSessionSound, CloseSound DEF MainThread, Logout
<1> QED
  BY <1>1, <1>2, <1>3, <1>4, <1>5 DEF Next

LEMMA SoundCorrect == Spec => [](TypeInv /\ SoundInv)
  BY TypeInit, SoundInit, TypeStep, SoundStep, PTL DEF Spec

LEMMA SoundIsDead == TypeInv /\ SoundInv => DestroysAreDead
<1> SUFFICES ASSUME TypeInv, SoundInv, NEW c \in Clients PROVE Doomed(c) \subseteq Dead
  BY DEF DestroysAreDead, Dead
<1>1. Listed(destroyQ[c]) \subseteq Dead /\ Listed(rx[c].destroys) \subseteq Dead
  BY DEF SoundInv, DeadCounts, SoundWork
<1>2. ASSUME NEW k \in RepliesAt(c) PROVE Listed(s2c[c][k].destroys) \subseteq Dead
  <2>1. s2c[c] \in Seq(SoundReply) /\ k \in 1..Len(s2c[c]) /\ s2c[c][k].op = "ObjectsReply"
    BY DEF SoundInv, RepliesAt
  <2>2. s2c[c][k] \in SoundReply
    BY <2>1
  <2> QED
    BY <2>1, <2>2 DEF SoundReply, DeadCounts
<1>3. UNION {Listed(s2c[c][k].destroys) : k \in RepliesAt(c)} \subseteq Dead
  <2> SUFFICES ASSUME NEW i, \E k \in RepliesAt(c) : i \in Listed(s2c[c][k].destroys)
               PROVE  i \in Dead
    BY Zenon
  <2> QED
    BY <1>2
<1> QED
  BY <1>1, <1>3 DEF Doomed

(***************************************************************************)
(* What a client is told to destroy is dead and stays dead: the reply of   *)
(* ObjectsData, the receive thread's queue and the scan of the array       *)
(* cannot remove the entity of a player who is connected, whatever joins   *)
(* or leaves while they are under way.                                     *)
(***************************************************************************)
THEOREM DestroysDeadCorrect == Spec => []DestroysAreDead
  BY SoundCorrect, SoundIsDead, PTL
-----------------------------------------------------------------------------
(***************************************************************************)
(* Every step of WorldSync is a step of WorldView or leaves its variables  *)
(* as they are.                                                            *)
(***************************************************************************)
LEMMA InitRefines == Init => Abstract!Init
  BY IdFacts DEF Init, Abstract!Init, Present, View

LEMMA AcceptRefines ==
  ASSUME TypeInv, NEW c \in Clients, Accept(c)
  PROVE  Abstract!Issue
  BY DEF Accept, Abstract!Issue, Present, View, mainVars

LEMMA EndRefines ==
  ASSUME TypeInv, NEW c \in Clients, End(c)
  PROVE  (\E i \in live : Abstract!Retire(i)) \/ UNCHANGED Abstract!vars
<1>1. UNCHANGED <<lastId, Present, View>> /\ live' = live \ {sid[c]}
  BY DEF End, Present, View, mainVars
<1>2. CASE sid[c] \in live
  BY <1>1, <1>2 DEF Abstract!Retire
<1>3. CASE sid[c] \notin live
  BY <1>1, <1>3 DEF Abstract!vars
<1> QED
  BY <1>2, <1>3

LEMMA StartReceivingRefines ==
  ASSUME TypeInv, NEW c \in Clients, StartReceiving(c)
  PROVE  Abstract!Enter(c)
<1>1. c \notin Present /\ Present' = Present \cup {c}
  BY DEF StartReceiving, Present, TypeInv, TypeOK
<1>2. UNCHANGED <<lastId, live, View>>
  BY DEF StartReceiving, View, serverVars
<1> QED
  BY <1>1, <1>2 DEF Abstract!Enter

\* Only dead ids can be queued for destruction: this is where SoundInv is
\* needed.
LEMMA UpdateDestroyEntitiesRefines ==
  ASSUME TypeInv, SoundInv, NEW c \in Clients, UpdateDestroyEntities(c)
  PROVE  Abstract!Hide(c)
<1>1. PICK after \in [Ids -> UNION {0..objects[c][i] : i \in Ids}] :
         /\ \A i \in Ids :
               IF i # own[c] /\ destroyQ[c][i] > 0
               THEN after[i] \in Survivors(objects[c][i], destroyQ[c][i])
               ELSE after[i] = objects[c][i]
         /\ objects' = [objects EXCEPT ![c] = after]
  BY DEF UpdateDestroyEntities
<1> DEFINE S == Listed(objects[c]) \ Listed(after)
<1>2. c \in Present /\ UNCHANGED <<lastId, live, Present>>
  BY DEF UpdateDestroyEntities, Frame, Present, serverVars
<1>3. S \subseteq View[c]
  BY DEF View
<1>4. S \cap live = {}
  BY <1>1 DEF Listed, SoundInv, DeadCounts, Dead
<1>5. Listed(after) \subseteq Listed(objects[c])
  <2> SUFFICES ASSUME NEW i \in Ids, after[i] > 0 PROVE objects[c][i] > 0
    BY DEF Listed
  <2>1. CASE i # own[c] /\ destroyQ[c][i] > 0
    <3>1. after[i] \in Survivors(objects[c][i], destroyQ[c][i])
      BY <1>1, <2>1
    <3>2. objects[c][i] \in Nat /\ destroyQ[c][i] \in Nat
      BY DEF TypeInv, TypeOK, Counts
    <3> QED
      BY <3>1, <3>2, SurvivorsBound
  <2>2. CASE ~(i # own[c] /\ destroyQ[c][i] > 0)
    BY <1>1, <2>2
  <2> QED
    BY <2>1, <2>2
<1>6. View' = [View EXCEPT ![c] = @ \ S]
  <2>1. \A d \in Clients : Listed(objects'[d]) = IF d = c THEN Listed(after) ELSE View[d]
    BY <1>1 DEF View, TypeInv, TypeOK
  <2>2. Listed(after) = View[c] \ S
    BY <1>5 DEF View
  <2> QED
    BY <2>1, <2>2 DEF View
<1> QED
  BY <1>2, <1>3, <1>4, <1>6 DEF Abstract!Hide

LEMMA UpdateCreateEntitiesRefines ==
  ASSUME TypeInv, SoundInv, NEW c \in Clients, UpdateCreateEntities(c)
  PROVE  Abstract!Show(c)
<1> DEFINE after == [i \in Ids |-> objects[c][i] + createQ[c][i]]
<1>1. objects' = [objects EXCEPT ![c] = after]
  BY DEF UpdateCreateEntities
<1>2. c \in Present /\ UNCHANGED <<lastId, live, Present>>
  BY DEF UpdateCreateEntities, Frame, Present, serverVars
<1>3. Listed(createQ[c]) \subseteq 1..lastId
  BY DEF SoundInv, IssuedCounts
<1>4. Listed(after) = Listed(objects[c]) \cup Listed(createQ[c])
  BY DEF Listed, TypeInv, TypeOK, Counts
<1>5. View' = [View EXCEPT ![c] = @ \cup Listed(createQ[c])]
  <2>1. \A d \in Clients : Listed(objects'[d]) = IF d = c THEN Listed(after) ELSE View[d]
    BY <1>1 DEF View, TypeInv, TypeOK
  <2>2. Listed(after) = View[c] \cup Listed(createQ[c])
    BY <1>4 DEF View
  <2> QED
    BY <2>1, <2>2 DEF View
<1> QED
  BY <1>2, <1>3, <1>5 DEF Abstract!Show

LEMMA CloseRefines ==
  ASSUME TypeInv, NEW c \in Clients, Close(c)
  PROVE  Abstract!Leave(c)
<1>1. Present' = Present \ {c}
  BY DEF Close, Present, TypeInv, TypeOK
<1>2. View' = [View EXCEPT ![c] = {}]
  <2>1. \A d \in Clients : Listed(objects'[d]) = IF d = c THEN {} ELSE View[d]
    BY IdFacts DEF Close, View, TypeInv, TypeOK
  <2> QED
    BY <2>1 DEF View
<1> QED
  BY <1>1, <1>2 DEF Abstract!Leave, Close, serverVars

\* The steps WorldView does not see: the network, the queues and the login.
LEMMA OthersStutter ==
  ASSUME TypeInv, NEW c \in Clients,
         \/ Connect(c) \/ LoginData(c) \/ TransformData(c) \/ ObjectsData(c)
         \/ LoginReply(c) \/ LoginEnds(c)
         \/ CreateEntity(c) \/ ObjectsReply(c) \/ TransformEntity(c)
         \/ EnqueueCreate(c) \/ EnqueueDestroy(c) \/ NoSession(c) \/ UpdateSession(c)
  PROVE  UNCHANGED Abstract!vars
<1>1. UNCHANGED <<lastId, live, objects>>
  BY DEF Connect, LoginData, TransformData, ObjectsData, LoginReply, LoginEnds,
         CreateEntity, ObjectsReply, TransformEntity, EnqueueCreate, EnqueueDestroy,
         NoSession, UpdateSession, Frame, serverVars, mainVars
<1>2. \A d \in Clients : phase'[d] = "world" <=> phase[d] = "world"
  BY DEF Connect, LoginData, TransformData, ObjectsData, LoginReply, LoginEnds,
         CreateEntity, ObjectsReply, TransformEntity, EnqueueCreate, EnqueueDestroy,
         NoSession, UpdateSession, Frame, serverVars, mainVars, TypeInv, TypeOK
<1> QED
  BY <1>1, <1>2 DEF Abstract!vars, Present, View

LEMMA StepRefines ==
  TypeInv /\ SoundInv /\ [Next]_vars => [Abstract!Next]_(Abstract!vars)
<1> SUFFICES ASSUME TypeInv, SoundInv, [Next]_vars
             PROVE  Abstract!Next \/ UNCHANGED Abstract!vars
  OBVIOUS
<1>1. CASE UNCHANGED vars
  BY <1>1 DEF vars, serverVars, mainVars, Abstract!vars, Present, View
<1>2. ASSUME NEW c \in Clients, Connect(c) \/ OnDestroy(c) \/ ReadFails(c)
      PROVE  Abstract!Next \/ UNCHANGED Abstract!vars
  BY <1>2, OthersStutter, CloseRefines, EndRefines DEF OnDestroy, ReadFails, Abstract!Next
<1>3. ASSUME NEW c \in Clients, Reactor(c)
      PROVE  Abstract!Next \/ UNCHANGED Abstract!vars
  BY <1>3, AcceptRefines, EndRefines, OthersStutter
     DEF Reactor, ReadClosed, Abstract!Next
<1>4. ASSUME NEW c \in Clients, ReceiveThread(c)
      PROVE  Abstract!Next \/ UNCHANGED Abstract!vars
  BY <1>4, OthersStutter DEF ReceiveThread
<1>5. ASSUME NEW c \in Clients, MainThread(c)
      PROVE  Abstract!Next \/ UNCHANGED Abstract!vars
  <2>1. CASE UpdateDestroyEntities(c) \/ UpdateCreateEntities(c) \/ StartReceiving(c)
    BY <2>1, UpdateDestroyEntitiesRefines, UpdateCreateEntitiesRefines,
       StartReceivingRefines DEF Abstract!Next
  <2>2. CASE Logout(c)
    BY <2>2, CloseRefines DEF Logout, Abstract!Next
  <2>3. CASE LoginReply(c) \/ LoginEnds(c) \/ UpdateSession(c) \/ NoSession(c)
    BY <2>3, OthersStutter
  <2> QED
    BY <1>5, <2>1, <2>2, <2>3 DEF MainThread
<1> QED
  BY <1>1, <1>2, <1>3, <1>4, <1>5 DEF Next

(***************************************************************************)
(* The worlds of the clients are a view of the server's entities: a client *)
(* shows issued ids only, and no frame of its main thread ever removes an  *)
(* id that is still live on the server.                                    *)
(***************************************************************************)
THEOREM WorldViewImplemented == Spec => ImplementsWorldView
  BY TypeInit, SoundInit, TypeStep, SoundStep, InitRefines, StepRefines, PTL
     DEF Spec, ImplementsWorldView, Abstract!Spec

-----------------------------------------------------------------------------
\* Three steps write the array: two parts of a frame, and the end.
LEMMA LiveStaysStep ==
  ASSUME TypeInv, SoundInv, [Next]_vars, NEW c \in Clients, NEW i \in Ids,
         phase'[c] = "world", objects[c][i] > 0, i \in live
  PROVE  objects'[c][i] > 0
<1>1. CASE objects' = objects
  BY <1>1
<1>2. ASSUME NEW d \in Clients, UpdateDestroyEntities(d)
      PROVE  objects'[c][i] > 0
  <2>1. destroyQ[d][i] = 0
    BY DEF SoundInv, DeadCounts, Dead, Listed, Counts
  <2> QED
    BY <1>2, <2>1, SMTT(30) DEF UpdateDestroyEntities, TypeInv, TypeOK
<1>3. ASSUME NEW d \in Clients, UpdateCreateEntities(d)
      PROVE  objects'[c][i] > 0
  BY <1>3 DEF UpdateCreateEntities, TypeInv, TypeOK, Counts
<1>4. ASSUME NEW d \in Clients, Close(d)
      PROVE  objects'[c][i] > 0
  BY <1>4 DEF Close, TypeInv, TypeOK
<1>5. \/ objects' = objects
      \/ \E d \in Clients : UpdateDestroyEntities(d) \/ UpdateCreateEntities(d) \/ Close(d)
  <2>1. CASE UNCHANGED vars
    BY <2>1 DEF vars, mainVars
  <2>2. ASSUME NEW d \in Clients, Connect(d) \/ OnDestroy(d) \/ ReadFails(d)
        PROVE  objects' = objects \/ Close(d)
    BY <2>2 DEF Connect, OnDestroy, ReadFails, End, mainVars
  <2>3. ASSUME NEW d \in Clients, Reactor(d)
        PROVE  objects' = objects
    BY <2>3 DEF Reactor, Accept, ReadClosed, End, LoginData, TransformData, ObjectsData,
                mainVars
  <2>4. ASSUME NEW d \in Clients, ReceiveThread(d)
        PROVE  objects' = objects
    BY <2>4 DEF ReceiveThread, CreateEntity, ObjectsReply, TransformEntity,
                EnqueueCreate, EnqueueDestroy, mainVars
  <2>5. ASSUME NEW d \in Clients, MainThread(d)
        PROVE  \/ objects' = objects \/ UpdateDestroyEntities(d)
               \/ UpdateCreateEntities(d) \/ Close(d)
    BY <2>5 DEF MainThread, LoginReply, LoginEnds, StartReceiving, UpdateSession,
                NoSession, Logout
  <2> QED
    BY <2>1, <2>2, <2>3, <2>4, <2>5 DEF Next
<1> QED
  BY <1>1, <1>2, <1>3, <1>4, <1>5

(***************************************************************************)
(* A client in the world never stops showing an entity that is live: what  *)
(* the array loses in UpdateDestroyEntities was queued by the receive      *)
(* thread, and nothing live ever is.                                       *)
(***************************************************************************)
THEOREM LiveStaysShownCorrect == Spec => LiveStaysShown
<1>1. TypeInv /\ SoundInv /\ [Next]_vars =>
         [\A c \in Clients, i \in Ids :
             (phase'[c] = "world" /\ objects[c][i] > 0 /\ i \in live)
             => objects'[c][i] > 0]_vars
  BY LiveStaysStep
<1> QED
  BY <1>1, TypeInit, SoundInit, TypeStep, SoundStep, PTL DEF Spec, LiveStaysShown
=============================================================================
