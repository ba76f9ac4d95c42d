------------------------------ MODULE RemotePath ------------------------------
(***************************************************************************)
(* How a player's movement reaches his avatar in the world of another.     *)
(*                                                                         *)
(* The walker's main thread records a node of his path at every tick of    *)
(* its path timer and sends the path when it has Nodes of them.  The       *)
(* server keeps the last path and copies it into every answer to a poll of *)
(* the observer (Receive.cpp, Entity.cpp).  The observer's receive thread  *)
(* queues what arrives; its main thread gives it to the RemoteControllers  *)
(* of the walker's avatar, one frame after another (WorldScript.js).       *)
(*                                                                         *)
(* Positions are numbered in the order the walker takes them.  An avatar   *)
(* is where it has last arrived: on its way to the target it moves on the  *)
(* line to it.  The action of a node and the leaning it causes only delay  *)
(* the next target, and so do frames in which the node timer runs.  Both   *)
(* players stay connected, and the avatar exists; it may exist in several  *)
(* copies, as ThreeCopies of WorldSync allows.                             *)
(***************************************************************************)
EXTENDS Integers, Sequences, FiniteSets, SequencesExt

CONSTANTS Nodes,     \* nodes of a path that is sent, 5 in the code
          MaxSteps,  \* bound: positions the walker comes to
          MaxPaths,  \* bound: paths sent and not yet handled
          Copies     \* copies of the avatar, in the order of World.objects

ASSUME RemotePathAssumption ==
    /\ Nodes \in Nat \ {0}
    /\ MaxSteps \in Nat
    /\ MaxPaths \in Nat \ {0}
    /\ Copies \in Nat \ {0}

Positions == 0..MaxSteps
Path == [1..Nodes -> Positions]
NoTarget == -1

VARIABLES
    \* the walker
    here,     \* entity.model.position
    path,     \* transformPlayerStruct.path
    up,       \* its sendQueue and connection: paths not yet handled
    \* the server
    served,   \* Entity::path of the walker's entity
    asked,    \* polls of the observer not yet handled
    \* the observer's receive thread
    down,     \* its connection, element by element
    check,    \* checkObjectsState
    waiting,  \* transformEntityQueue
    \* the observer's main thread
    stage,    \* the part of World.Update that runs next
    targets,  \* targets[k]: the targets of copy k; the end comes next
    target,   \* target[k]: where copy k is going
    at        \* at[k]: where it last arrived

walkerVars == <<here, path, up>>
avatarVars == <<targets, target, at>>
vars == <<walkerVars, served, asked, down, check, waiting, stage, avatarVars>>

Reply == [op |-> "ObjectsReply"]
TransformEntity(p) == [op |-> "TransformEntityData", path |-> p]
Element == {Reply} \cup {TransformEntity(p) : p \in Path \cup {<<>>}}

(***************************************************************************)
(* Types; a path that is sent is complete.                                 *)
(***************************************************************************)
TypeOK ==
    /\ here \in Positions
    /\ path \in Seq(Positions) /\ Len(path) < Nodes
    /\ up \in Seq(Path)
    /\ served \in Path \cup {<<>>}
    /\ asked \in Nat
    /\ down \in Seq(Element)
    /\ check \in {0, 1}
    /\ waiting \in Seq(Path \cup {<<>>})
    /\ stage \in {"remote", "timers"}
    /\ targets \in [1..Copies -> Seq(Positions)]
    /\ target \in [1..Copies -> Positions \cup {NoTarget}]
    /\ at \in [1..Copies -> Positions]

Init ==
    /\ here = 0
    /\ path = <<>>
    /\ up = <<>>
    /\ served = <<>>
    /\ asked = 0
    /\ down = <<>>
    /\ check = 1
    /\ waiting = <<>>
    /\ stage = "remote"
    /\ targets = [k \in 1..Copies |-> <<>>]
    /\ target = [k \in 1..Copies |-> NoTarget]
    /\ at = [k \in 1..Copies |-> 0]

-----------------------------------------------------------------------------
(***************************************************************************)
(* The walker.                                                             *)
(***************************************************************************)

Walk ==
    /\ here < MaxSteps
    /\ here' = here + 1
    /\ UNCHANGED <<path, up, served, asked, down, check, waiting, stage, avatarVars>>

\* A tick of the path timer, whether the walker has moved or not.
Recorded_Moved == IF path # <<>> /\ Last(path) = here THEN path ELSE Append(path, here)
Recorded == Append(path, here)

UpdatePath ==
    /\ IF Len(Recorded) = Nodes
       THEN /\ Len(up) < MaxPaths
            /\ up' = Append(up, Recorded)
            /\ path' = <<>>
       ELSE path' = Recorded /\ UNCHANGED up
    /\ UNCHANGED <<here, served, asked, down, check, waiting, stage, avatarVars>>

-----------------------------------------------------------------------------
(***************************************************************************)
(* The server's reactor thread.                                            *)
(***************************************************************************)

\* clearPath, then addToPath for every node.
TransformData ==
    /\ up # <<>>
    /\ served' = Head(up)
    /\ up' = Tail(up)
    /\ UNCHANGED <<here, path, asked, down, check, waiting, stage, avatarVars>>

\* The observer lists each copy, and the path is copied for each.
ObjectsData ==
    /\ asked > 0
    /\ asked' = asked - 1
    /\ down' = down \o <<Reply>> \o [k \in 1..Copies |-> TransformEntity(served)]
    /\ UNCHANGED <<walkerVars, served, check, waiting, stage, avatarVars>>

-----------------------------------------------------------------------------
(***************************************************************************)
(* The observer's receive thread.                                          *)
(***************************************************************************)

Receive(e) == down # <<>> /\ Head(down) = e /\ down' = Tail(down)

ObjectsReply ==
    /\ Receive(Reply)
    /\ check' = 1
    /\ UNCHANGED <<walkerVars, served, asked, waiting, stage, avatarVars>>

EnqueueTransform ==
    /\ \E p \in Path \cup {<<>>} :
          /\ Receive(TransformEntity(p))
          /\ waiting' = Append(waiting, p)
    /\ UNCHANGED <<walkerVars, served, asked, check, stage, avatarVars>>

-----------------------------------------------------------------------------
(***************************************************************************)
(* The observer's main thread.                                             *)
(***************************************************************************)

\* RemoteController.Move and Next, for a copy whose node timer is done: it
\* is at its target, if it has one, and takes the next, if there is one.
Arrive_Unset(k) == target[k]
Arrive(k) == IF target[k] = NoTarget THEN at[k] ELSE target[k]
NextTarget(k) == IF targets[k] = <<>> THEN target[k] ELSE Last(targets[k])

\* The nodes of a path are popped from its end and pushed; Next pops again.
Targets_Shifted(p) == p
Targets(p) == Reverse(p)

\* The queue is popped empty, and each path replaces the targets before it:
\* what remains is the path that came first.
Applied == Head(waiting)

\* First every copy moves; then, if paths are waiting, Clear puts each copy
\* at its target.  All the nodes of a path go to the first copy: for the
\* others there are none left.
UpdateRemoteControls(done) ==
    /\ stage = "remote"
    /\ stage' = "timers"
    /\ target' = [k \in 1..Copies |-> IF k \in done THEN NextTarget(k) ELSE target[k]]
    /\ LET moved(k) == IF k \in done THEN Arrive(k) ELSE at[k]
           left(k) == IF k \in done /\ targets[k] # <<>> THEN Front(targets[k])
                      ELSE targets[k]
       IN  IF waiting = <<>>
           THEN /\ at' = [k \in 1..Copies |-> moved(k)]
                /\ targets' = [k \in 1..Copies |-> left(k)]
           ELSE /\ at' = [k \in 1..Copies |-> IF target'[k] = NoTarget THEN moved(k)
                                              ELSE target'[k]]
                /\ targets' = [k \in 1..Copies |-> IF k = 1 THEN Targets(Applied)
                                                   ELSE <<>>]
    /\ waiting' = <<>>
    /\ UNCHANGED <<walkerVars, served, asked, down, check>>

\* The session timer fires: a poll, if the last reply allows it.
MayPoll_Always == TRUE
MayPoll == check = 1

UpdateSession ==
    /\ stage = "timers"
    /\ stage' = "remote"
    /\ asked' = IF MayPoll THEN asked + 1 ELSE asked
    /\ check' = IF MayPoll THEN 0 ELSE check
    /\ UNCHANGED <<walkerVars, served, down, waiting, avatarVars>>

NoSession ==
    /\ stage = "timers"
    /\ stage' = "remote"
    /\ UNCHANGED <<walkerVars, served, asked, down, check, waiting, avatarVars>>

-----------------------------------------------------------------------------
Next ==
    \/ Walk \/ UpdatePath
    \/ TransformData \/ ObjectsData
    \/ ObjectsReply \/ EnqueueTransform
    \/ \E done \in SUBSET (1..Copies) : UpdateRemoteControls(done)
    \/ UpdateSession \/ NoSession

Spec == Init /\ [][Next]_vars

(***************************************************************************)
(* Threads run.  The node timer of the first copy and the session timer    *)
(* count the time of frames, so each is done again and again; the other    *)
(* copies have timers of their own, of which nothing is asked.  Nobody has *)
(* to walk.                                                                *)
(***************************************************************************)
Fairness ==
    /\ WF_vars(UpdatePath)
    /\ WF_vars(TransformData)
    /\ WF_vars(ObjectsData)
    /\ WF_vars(ObjectsReply \/ EnqueueTransform)
    /\ WF_vars(\E done \in SUBSET (1..Copies) : UpdateRemoteControls(done))
    /\ WF_vars(UpdateSession \/ NoSession)
    /\ SF_vars(UpdateSession)
    /\ SF_vars(\E done \in SUBSET (1..Copies) :
                  1 \in done /\ UpdateRemoteControls(done))

FairSpec == Spec /\ Fairness

-----------------------------------------------------------------------------
(***************************************************************************)
(* Properties.                                                             *)
(***************************************************************************)

(***************************************************************************)
(* An avatar takes the nodes of a path in the order the walker did: a path *)
(* is turned round twice between the two.                                  *)
(***************************************************************************)
InOrder ==
    \A k \in 1..Copies : \A i, j \in 1..Len(targets[k]) :
        i < j => targets[k][j] <= targets[k][i]

(***************************************************************************)
(* An avatar goes back only to start a path, which it may have gone before *)
(* because the server sends it until the walker's next one; it never goes  *)
(* back within a path, wherever polls, replies and frames fall.            *)
(***************************************************************************)
BackToTheStart ==
    [][\A k \in 1..Copies : at'[k] < at[k] => Len(targets[k]) >= Nodes - 1]_vars

(***************************************************************************)
(* Paths of a copy do not pile up between the server and a frame.  The     *)
(* reply that allows the next poll comes before the path of the same       *)
(* answer, so there may be three of them, and never a fourth.              *)
(***************************************************************************)
PathsAt(s) == {k \in 1..Len(s) : s[k] # Reply}
ThreePaths == Cardinality(PathsAt(down)) + Len(waiting) <= 3 * Copies

(***************************************************************************)
(* When the walker stands still, his avatar, the first copy of it, comes   *)
(* to stand where he does.                                                 *)
(***************************************************************************)
ComesToRest == <>[][FALSE]_here => <>[](at[1] = here)
=============================================================================
