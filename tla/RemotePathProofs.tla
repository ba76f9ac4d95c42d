--------------------------- MODULE RemotePathProofs ---------------------------
(***************************************************************************)
(* Theorems about RemotePath, for paths of any length, any number of       *)
(* positions, of packets under way and of copies.                          *)
(***************************************************************************)
EXTENDS RemotePath, TLAPS, SequenceTheorems, FiniteSetTheorems

-----------------------------------------------------------------------------
(***************************************************************************)
(* The paths under way are those the walker walked: their nodes ascend.    *)
(***************************************************************************)
Ascending(p) == \A i, j \in 1..Len(p) : i < j => p[i] <= p[j]
Walked == {p \in Path : Ascending(p)}
Known == Walked \cup {<<>>}
KnownElement == {Reply} \cup {TransformEntity(p) : p \in Known}

WalkInv ==
    /\ here \in Positions
    /\ path \in Seq(Positions) /\ Len(path) < Nodes
    /\ Ascending(path)
    /\ \A i \in 1..Len(path) : path[i] <= here
    /\ up \in Seq(Walked)

WayInv ==
    /\ served \in Known
    /\ asked \in Nat
    /\ down \in Seq(KnownElement)
    /\ check \in {0, 1}
    /\ waiting \in Seq(Known)
    /\ stage \in {"remote", "timers"}

(***************************************************************************)
(* A copy of the avatar: it has a path of Nodes before it, or what is left *)
(* of one.  What is left lies ahead of its target, and once the start of   *)
(* the path is behind it, its target lies ahead of it.                     *)
(***************************************************************************)
CopyInv(k) ==
    /\ targets[k] \in Seq(Positions) /\ Len(targets[k]) <= Nodes
    /\ target[k] \in Positions \cup {NoTarget}
    /\ at[k] \in Positions
    /\ \A i, j \in 1..Len(targets[k]) : i < j => targets[k][j] <= targets[k][i]
    /\ target[k] = NoTarget => targets[k] = <<>> \/ Len(targets[k]) = Nodes
    /\ target[k] # NoTarget =>
          /\ Len(targets[k]) < Nodes =>
                \A i \in 1..Len(targets[k]) : target[k] <= targets[k][i]
          /\ Len(targets[k]) < Nodes - 1 => at[k] <= target[k]

AvatarInv ==
    /\ targets \in [1..Copies -> Seq(Positions)]
    /\ target \in [1..Copies -> Positions \cup {NoTarget}]
    /\ at \in [1..Copies -> Positions]
    /\ \A k \in 1..Copies : CopyInv(k)

PathInv == WalkInv /\ WayInv /\ AvatarInv

-----------------------------------------------------------------------------
(***************************************************************************)
(* Facts about sequences and paths.                                        *)
(***************************************************************************)
LEMMA Constants == /\ Nodes \in Nat /\ Nodes > 0 /\ MaxSteps \in Nat
                   /\ Copies \in Nat /\ Copies > 0
                   /\ Positions \subseteq Nat /\ 0 \in Positions
                   /\ NoTarget \notin Positions
  BY RemotePathAssumption DEF Positions, NoTarget

LEMMA HeadTail ==
  ASSUME NEW S, NEW s \in Seq(S), s # <<>>
  PROVE  Head(s) \in S /\ Tail(s) \in Seq(S)
  BY HeadTailProperties

LEMMA Appended ==
  ASSUME NEW S, NEW s \in Seq(S), NEW x \in S
  PROVE  /\ Append(s, x) \in Seq(S)
         /\ Len(Append(s, x)) = Len(s) + 1
         /\ Append(s, x)[Len(s) + 1] = x
         /\ \A i \in 1..Len(s) : Append(s, x)[i] = s[i]
  OBVIOUS

\* A path is a sequence of Nodes positions.
LEMMA PathIsSeq ==
  ASSUME NEW p \in Path
  PROVE  p \in Seq(Positions) /\ Len(p) = Nodes
  BY Constants DEF Path

LEMMA KnownIsSeq ==
  ASSUME NEW p \in Known
  PROVE  /\ p \in Seq(Positions) /\ (p = <<>> \/ Len(p) = Nodes)
         /\ \A i, j \in 1..Len(p) : i < j => p[i] <= p[j]
<1>1. CASE p = <<>>
  BY <1>1, EmptySeq
<1>2. CASE p \in Walked
  BY <1>2, PathIsSeq DEF Walked, Ascending
<1> QED
  BY <1>1, <1>2 DEF Known

\* What Next leaves when it pops the last of a sequence.
LEMMA FrontOf ==
  ASSUME NEW s \in Seq(Positions), s # <<>>
  PROVE  /\ Len(s) \in Nat \ {0}
         /\ Front(s) \in Seq(Positions)
         /\ Len(Front(s)) = Len(s) - 1
         /\ \A i \in 1..(Len(s) - 1) : Front(s)[i] = s[i]
         /\ Last(s) = s[Len(s)]
         /\ Last(s) \in Positions
<1>1. Len(s) \in Nat \ {0}
  BY EmptySeq
<1>2. \A i \in 1..(Len(s) - 1) : s[i] \in Positions
  BY <1>1, ElementOfSeq
<1>3. Len(s) - 1 \in Int /\ 1 \in Int
  BY <1>1
<1> DEFINE f == SubSeq(s, 1, Len(s) - 1)
<1>4. /\ f \in Seq(Positions)
      /\ Len(f) = IF 1 <= Len(s) - 1 THEN (Len(s) - 1) - 1 + 1 ELSE 0
      /\ \A i \in 1..(Len(s) - 1) - 1 + 1 : f[i] = s[1 + i - 1]
  BY <1>2, <1>3, SubSeqProperties
<1>5. Front(s) = f /\ Last(s) = s[Len(s)]
  BY DEF Front, Last
<1>6. Len(f) = Len(s) - 1
  <2> DEFINE n == Len(s)
             l == Len(f)
  <2>1. n \in Nat /\ n >= 1 /\ l = IF 1 <= n - 1 THEN (n - 1) - 1 + 1 ELSE 0
    BY <1>1, <1>4
  <2>2. l = n - 1
    <3> HIDE DEF n, l
    <3> QED
      BY <2>1
  <2> QED
    BY <2>2
<1> HIDE DEF f
<1>7. \A i \in 1..(Len(s) - 1) : f[i] = s[i]
  BY <1>1, <1>4
<1>8. s[Len(s)] \in Positions
  BY <1>1, ElementOfSeq
<1> QED
  BY <1>1, <1>4, <1>5, <1>6, <1>7, <1>8

(***************************************************************************)
(* The receiver turns a path round: its nodes descend, so that the         *)
(* controller, which pops them from the end, takes them as they were       *)
(* walked (WorldScript.js:721-725 and 892-894).                            *)
(***************************************************************************)
LEMMA TargetsOf ==
  ASSUME NEW p \in Known
  PROVE  /\ Targets(p) \in Seq(Positions)
         /\ Targets(p) = <<>> \/ Len(Targets(p)) = Nodes
         /\ \A i, j \in 1..Len(Targets(p)) :
               i < j => Targets(p)[j] <= Targets(p)[i]
<1>1. /\ p \in Seq(Positions) /\ Len(p) \in Nat
      /\ \A i \in 1..Len(p) : p[i] \in Positions
  BY KnownIsSeq, LenProperties, ElementOfSeq
<1>2. Targets(p) = [i \in 1..Len(p) |-> p[(Len(p) - i) + 1]]
  BY DEF Targets, Reverse
<1>3. \A i \in 1..Len(p) : (Len(p) - i) + 1 \in 1..Len(p)
  BY <1>1
<1>4. Targets(p) \in [1..Len(p) -> Positions]
  BY <1>1, <1>2, <1>3
<1>5. Targets(p) \in Seq(Positions) /\ Len(Targets(p)) = Len(p)
  BY <1>1, <1>4
<1>6. p = <<>> => Targets(p) = <<>>
  BY <1>5, EmptySeq
<1>7. ASSUME NEW i \in 1..Len(p), NEW j \in 1..Len(p), i < j
      PROVE  Targets(p)[j] <= Targets(p)[i]
  <2>1. (Len(p) - j) + 1 < (Len(p) - i) + 1
    BY <1>1, <1>7
  <2> QED
    BY <1>2, <1>3, <2>1, KnownIsSeq
<1> QED
  BY <1>5, <1>6, <1>7, KnownIsSeq

-----------------------------------------------------------------------------
LEMMA PathInit == Init => PathInv
<1> SUFFICES ASSUME Init PROVE PathInv
  OBVIOUS
<1>1. WalkInv
  BY Constants, EmptySeq DEF Init, WalkInv, Ascending
<1>2. WayInv
  BY Constants, EmptySeq DEF Init, WayInv, Known
<1>3. AvatarInv
  BY Constants, EmptySeq DEF Init, AvatarInv, CopyInv
<1> QED
  BY <1>1, <1>2, <1>3 DEF PathInv

\* The walker: what he records ascends, because he is where he comes last.
LEMMA UpdatePathInv ==
  ASSUME PathInv, UpdatePath
  PROVE  WalkInv'
<1> DEFINE next == Append(path, here)
<1>1. /\ path \in Seq(Positions) /\ here \in Positions
      /\ Len(path) \in Nat /\ Len(path) < Nodes
  BY LenProperties DEF PathInv, WalkInv
<1>2. /\ next \in Seq(Positions) /\ Len(next) = Len(path) + 1
      /\ next[Len(path) + 1] = here
      /\ \A i \in 1..Len(path) : next[i] = path[i]
  BY <1>1, Appended
<1> HIDE DEF next
<1>3. \A i \in 1..Len(next) : next[i] <= here
  BY <1>1, <1>2, Constants DEF PathInv, WalkInv
<1>4. Ascending(next)
  BY <1>1, <1>2, <1>3, Constants DEF PathInv, WalkInv, Ascending
<1>5. CASE Len(next) = Nodes
  <2>1. next \in Path
    BY <1>2, <1>5, LenProperties DEF Path
  <2>2. up' = Append(up, next) /\ path' = <<>> /\ here' = here
    BY <1>5 DEF UpdatePath, Recorded, next
  <2>3. up' \in Seq(Walked)
    BY <2>1, <2>2, <1>4, Appended DEF Walked, PathInv, WalkInv
  <2> QED
    BY <2>2, <2>3, <1>1, Constants, EmptySeq DEF WalkInv, Ascending
<1>6. CASE Len(next) # Nodes
  <2>1. up' = up /\ path' = next /\ here' = here
    BY <1>6 DEF UpdatePath, Recorded, next
  <2> QED
    BY <2>1, <1>1, <1>2, <1>3, <1>4, <1>6, Constants
    DEF WalkInv, PathInv, Ascending
<1> QED
  BY <1>5, <1>6

\* The server copies the path it has for every copy in the poll.
LEMMA ObjectsDataInv ==
  ASSUME PathInv, ObjectsData
  PROVE  WayInv'
<1> DEFINE copies == [k \in 1..Copies |-> TransformEntity(served)]
<1>1. TransformEntity(served) \in KnownElement /\ Reply \in KnownElement
  BY DEF PathInv, WayInv, KnownElement
<1>2. copies \in Seq(KnownElement)
  BY <1>1, Constants
<1>3. <<Reply>> \in Seq(KnownElement)
  BY <1>1
<1>4. down \o <<Reply>> \in Seq(KnownElement)
  BY <1>3, ConcatProperties DEF PathInv, WayInv
<1>5. (down \o <<Reply>>) \o copies \in Seq(KnownElement)
  BY <1>2, <1>4, ConcatProperties
<1>6. down' \in Seq(KnownElement)
  BY <1>5 DEF ObjectsData
<1>7. asked' \in Nat
  BY DEF PathInv, WayInv, ObjectsData
<1> HIDE DEF copies
<1> QED
  BY <1>6, <1>7 DEF PathInv, WayInv, ObjectsData

LEMMA EnqueueTransformInv ==
  ASSUME PathInv, EnqueueTransform
  PROVE  WayInv'
<1> PICK p \in Path \cup {<<>>} : /\ Receive(TransformEntity(p))
                                  /\ waiting' = Append(waiting, p)
  BY DEF EnqueueTransform
<1>1. Head(down) \in KnownElement /\ down' \in Seq(KnownElement)
  BY HeadTail DEF Receive, PathInv, WayInv
<1>2. PICK q \in Known : TransformEntity(p) = TransformEntity(q)
  BY <1>1 DEF Receive, KnownElement, Reply, TransformEntity
<1>3. p \in Known
  BY <1>2 DEF TransformEntity
<1>4. waiting' \in Seq(Known)
  BY <1>3, Appended DEF PathInv, WayInv
<1> QED
  BY <1>1, <1>4 DEF EnqueueTransform, PathInv, WayInv

-----------------------------------------------------------------------------
(***************************************************************************)
(* A frame of the observer, for one copy.  Whether its node timer is done  *)
(* or not, it goes back only from a path whose start it has not yet left.  *)
(***************************************************************************)
\* The copy after its controller has moved it, before paths are applied.
Moved(k, done) == IF k \in done THEN Arrive(k) ELSE at[k]
Aim(k, done) == IF k \in done THEN NextTarget(k) ELSE target[k]
Left(k, done) == IF k \in done /\ targets[k] # <<>> THEN Front(targets[k])
                 ELSE targets[k]

LEMMA CopyMoves ==
  ASSUME NEW k \in 1..Copies, NEW done, CopyInv(k)
  PROVE  /\ Left(k, done) \in Seq(Positions) /\ Len(Left(k, done)) <= Nodes
         /\ Aim(k, done) \in Positions \cup {NoTarget}
         /\ Moved(k, done) \in Positions
         /\ \A i, j \in 1..Len(Left(k, done)) :
               i < j => Left(k, done)[j] <= Left(k, done)[i]
         /\ Aim(k, done) = NoTarget =>
               /\ Left(k, done) = <<>> \/ Len(Left(k, done)) = Nodes
               /\ Moved(k, done) = at[k]
         /\ Aim(k, done) # NoTarget =>
               /\ Len(Left(k, done)) < Nodes =>
                     \A i \in 1..Len(Left(k, done)) :
                         Aim(k, done) <= Left(k, done)[i]
               /\ Len(Left(k, done)) < Nodes - 1 =>
                     Moved(k, done) <= Aim(k, done)
         /\ Len(targets[k]) < Nodes - 1 => at[k] <= Moved(k, done)
         /\ Len(targets[k]) < Nodes - 1 /\ Aim(k, done) # NoTarget =>
               at[k] <= Aim(k, done)
<1>1. CASE k \notin done
  <2>1. /\ Left(k, done) = targets[k] /\ Aim(k, done) = target[k]
        /\ Moved(k, done) = at[k] /\ at[k] \in Nat
    BY <1>1, Constants DEF CopyInv, Moved, Aim, Left
  <2> QED
    BY <2>1, Constants DEF CopyInv
<1>2. CASE k \in done /\ targets[k] = <<>>
  <2>1. /\ Left(k, done) = targets[k] /\ Aim(k, done) = target[k]
        /\ Len(targets[k]) = 0 /\ at[k] \in Nat
        /\ Moved(k, done) = IF target[k] = NoTarget THEN at[k] ELSE target[k]
    BY <1>2, Constants, EmptySeq
    DEF CopyInv, Moved, Aim, Left, Arrive, NextTarget
  <2>2. target[k] # NoTarget => target[k] \in Nat /\ target[k] \in Positions
    BY Constants DEF CopyInv
  <2> QED
    BY <1>2, <2>1, <2>2, Constants DEF CopyInv
<1>3. CASE k \in done /\ targets[k] # <<>>
  <2> DEFINE n == Len(targets[k])
  <2>1. /\ Left(k, done) = Front(targets[k])
        /\ Aim(k, done) = Last(targets[k])
        /\ Moved(k, done) = Arrive(k)
    BY <1>3 DEF Left, Aim, Moved, NextTarget
  <2>2. /\ n \in Nat \ {0} /\ n <= Nodes
        /\ Front(targets[k]) \in Seq(Positions) /\ Len(Front(targets[k])) = n - 1
        /\ \A i \in 1..(n - 1) : Front(targets[k])[i] = targets[k][i]
        /\ Last(targets[k]) = targets[k][n] /\ Last(targets[k]) \in Positions
    BY <1>3, FrontOf DEF CopyInv
  <2>3. Last(targets[k]) \in Nat /\ Last(targets[k]) # NoTarget
    BY <2>2, Constants
  <2>4. \A i \in 1..(n - 1) : Last(targets[k]) <= targets[k][i]
    BY <2>2 DEF CopyInv
  <2>5. /\ Left(k, done) \in Seq(Positions)
        /\ Len(Left(k, done)) = n - 1 /\ n - 1 <= Nodes
    BY <2>1, <2>2, Constants
  <2>6. \A i, j \in 1..Len(Left(k, done)) :
            i < j => Left(k, done)[j] <= Left(k, done)[i]
    BY <2>1, <2>2 DEF CopyInv
  <2>7. \A i \in 1..Len(Left(k, done)) : Aim(k, done) <= Left(k, done)[i]
    BY <2>1, <2>2, <2>4
  <2>8. Aim(k, done) # NoTarget /\ Aim(k, done) \in Positions
    BY <2>1, <2>2, <2>3
  <2> HIDE DEF n
  <2>9. CASE target[k] = NoTarget
    <3>1. /\ Arrive(k) = at[k] /\ at[k] \in Positions
          /\ ~ n - 1 < Nodes - 1 /\ ~ n < Nodes - 1
      BY <1>3, <2>9, Constants DEF CopyInv, Arrive, n
    <3>2. Moved(k, done) \in Positions
      BY <2>1, <3>1
    <3>3. ~ Len(Left(k, done)) < Nodes - 1
      BY <2>5, <3>1
    <3> QED
      BY <2>5, <2>6, <2>7, <2>8, <3>1, <3>2, <3>3 DEF n
  <2>10. CASE target[k] # NoTarget
    <3>1. Arrive(k) = target[k] /\ target[k] \in Positions /\ at[k] \in Positions
      BY <2>10 DEF CopyInv, Arrive
    <3>2. n < Nodes => target[k] <= Last(targets[k])
      BY <2>2, <2>10 DEF CopyInv, n
    <3>3. n < Nodes - 1 => at[k] <= target[k]
      BY <2>10 DEF CopyInv, n
    <3>4. Len(Left(k, done)) < Nodes - 1 => Moved(k, done) <= Aim(k, done)
      <4>1. n - 1 < Nodes - 1 => n < Nodes
        BY <2>2, Constants
      <4> QED
        BY <4>1, <2>1, <2>5, <3>1, <3>2
    <3>5. n < Nodes - 1 => n < Nodes
      BY <2>2, Constants
    <3>6. n < Nodes - 1 => at[k] <= Aim(k, done)
      <4>1. at[k] \in Nat /\ target[k] \in Nat /\ Aim(k, done) \in Nat
        BY <3>1, <2>1, <2>3, Constants
      <4>2. n < Nodes - 1 => at[k] <= target[k] /\ target[k] <= Aim(k, done)
        BY <3>2, <3>3, <3>5, <2>1
      <4> QED
        BY <4>1, <4>2
    <3>7. Moved(k, done) \in Positions
      BY <2>1, <3>1
    <3>8. n < Nodes - 1 => at[k] <= Moved(k, done)
      BY <2>1, <3>1, <3>3
    <3> QED
      BY <2>5, <2>6, <2>7, <2>8, <3>4, <3>6, <3>7, <3>8 DEF n
  <2> QED
    BY <2>9, <2>10
<1> QED
  BY <1>1, <1>2, <1>3

\* A frame either moves a copy only, or puts it at its target and replaces
\* what was left of its path.
LEMMA FrameOfCopy ==
  ASSUME PathInv, NEW done \in SUBSET (1..Copies), UpdateRemoteControls(done),
         NEW k \in 1..Copies
  PROVE  /\ target'[k] = Aim(k, done)
         /\ \/ at'[k] = Moved(k, done) /\ targets'[k] = Left(k, done)
            \/ /\ at'[k] = IF Aim(k, done) = NoTarget THEN Moved(k, done)
                           ELSE Aim(k, done)
               /\ targets'[k] \in Seq(Positions)
               /\ targets'[k] = <<>> \/ Len(targets'[k]) = Nodes
               /\ \A i, j \in 1..Len(targets'[k]) :
                     i < j => targets'[k][j] <= targets'[k][i]
<1>1. target'[k] = Aim(k, done)
  BY DEF UpdateRemoteControls, Aim
<1>2. CASE waiting = <<>>
  BY <1>1, <1>2 DEF UpdateRemoteControls, Moved, Left
<1>3. CASE waiting # <<>>
  <2>1. Applied \in Known
    BY <1>3, HeadTail DEF PathInv, WayInv, Applied
  <2>2. at'[k] = IF Aim(k, done) = NoTarget THEN Moved(k, done)
                 ELSE Aim(k, done)
    BY <1>1, <1>3 DEF UpdateRemoteControls, Moved
  <2>3. targets'[k] = IF k = 1 THEN Targets(Applied) ELSE <<>>
    BY <1>3 DEF UpdateRemoteControls
  <2> QED
    BY <1>1, <2>1, <2>2, <2>3, TargetsOf, EmptySeq
<1> QED
  BY <1>2, <1>3

LEMMA FrameInv ==
  ASSUME PathInv, NEW done \in SUBSET (1..Copies), UpdateRemoteControls(done)
  PROVE  AvatarInv'
<1>1. ASSUME NEW k \in 1..Copies
      PROVE  CopyInv(k)'
  <2>1. CopyInv(k)
    BY DEF PathInv, AvatarInv
  <2>2. CASE at'[k] = Moved(k, done) /\ targets'[k] = Left(k, done)
    BY <2>1, <2>2, CopyMoves, FrameOfCopy DEF CopyInv
  <2>3. CASE ~ (at'[k] = Moved(k, done) /\ targets'[k] = Left(k, done))
    <3>1. /\ target'[k] = Aim(k, done)
          /\ at'[k] = IF Aim(k, done) = NoTarget THEN Moved(k, done)
                      ELSE Aim(k, done)
          /\ targets'[k] \in Seq(Positions)
          /\ targets'[k] = <<>> \/ Len(targets'[k]) = Nodes
          /\ \A i, j \in 1..Len(targets'[k]) :
                i < j => targets'[k][j] <= targets'[k][i]
      BY <2>3, FrameOfCopy
    <3>2. /\ Aim(k, done) \in Positions \cup {NoTarget}
          /\ Moved(k, done) \in Positions
      BY <2>1, CopyMoves
    <3>3. at'[k] \in Positions /\ (target'[k] # NoTarget => at'[k] <= target'[k])
      <4>1. CASE Aim(k, done) = NoTarget
        BY <4>1, <3>1, <3>2
      <4>2. CASE Aim(k, done) # NoTarget
        <5>1. at'[k] = Aim(k, done) /\ target'[k] = Aim(k, done)
          BY <4>2, <3>1
        <5>2. Aim(k, done) \in Positions /\ Aim(k, done) \in Nat
          BY <4>2, <3>2, Constants
        <5> QED
          BY <5>1, <5>2
      <4> QED
        BY <4>1, <4>2
    <3>4. Len(targets'[k]) <= Nodes
      BY <3>1, EmptySeq, Constants
    <3>5. Len(targets'[k]) < Nodes =>
             \A i \in 1..Len(targets'[k]) : target'[k] <= targets'[k][i]
      BY <3>1, EmptySeq
    <3> QED
      BY <3>1, <3>2, <3>3, <3>4, <3>5 DEF CopyInv
  <2> QED
    BY <2>2, <2>3
<1>2. /\ targets' = [k \in 1..Copies |-> targets'[k]]
      /\ target' = [k \in 1..Copies |-> target'[k]]
      /\ at' = [k \in 1..Copies |-> at'[k]]
  BY DEF UpdateRemoteControls
<1> QED
  BY <1>1, <1>2 DEF AvatarInv, CopyInv

-----------------------------------------------------------------------------
LEMMA PathStep == PathInv /\ [Next]_vars => PathInv'
<1> SUFFICES ASSUME PathInv, [Next]_vars PROVE PathInv'
  OBVIOUS
<1>1. CASE Walk
  <2>1. WalkInv'
    BY <1>1, Constants
    DEF Walk, PathInv, WalkInv, Positions, Walked, Path, Ascending
  <2> QED
    BY <1>1, <2>1
    DEF Walk, avatarVars, PathInv, WayInv, AvatarInv, CopyInv
<1>2. CASE UpdatePath
  BY <1>2, UpdatePathInv
  DEF UpdatePath, avatarVars, PathInv, WayInv, AvatarInv, CopyInv
<1>3. CASE TransformData
  <2>1. Head(up) \in Walked /\ Tail(up) \in Seq(Walked)
    BY <1>3, HeadTail DEF TransformData, PathInv, WalkInv
  <2> QED
    BY <1>3, <2>1
    DEF TransformData, avatarVars, PathInv, WalkInv, WayInv, Known, AvatarInv,
        CopyInv, Ascending
<1>4. CASE ObjectsData
  BY <1>4, ObjectsDataInv
  DEF ObjectsData, walkerVars, avatarVars, PathInv, WalkInv, AvatarInv,
      CopyInv, Ascending
<1>5. CASE ObjectsReply
  <2>1. down' \in Seq(KnownElement)
    BY <1>5, HeadTail DEF ObjectsReply, Receive, PathInv, WayInv
  <2> QED
    BY <1>5, <2>1
    DEF ObjectsReply, walkerVars, avatarVars, PathInv, WalkInv, WayInv,
        AvatarInv, CopyInv, Ascending
<1>6. CASE EnqueueTransform
  BY <1>6, EnqueueTransformInv
  DEF EnqueueTransform, walkerVars, avatarVars, PathInv, WalkInv, AvatarInv,
      CopyInv, Ascending
<1>7. ASSUME NEW done \in SUBSET (1..Copies), UpdateRemoteControls(done)
      PROVE  PathInv'
  <2>1. waiting' \in Seq(Known)
    BY <1>7, EmptySeq DEF UpdateRemoteControls
  <2> QED
    BY <1>7, <2>1, FrameInv
    DEF UpdateRemoteControls, walkerVars, PathInv, WalkInv, WayInv, Ascending
<1>8. CASE UpdateSession \/ NoSession
  <2>1. asked' \in Nat /\ check' \in {0, 1} /\ stage' = "remote"
    BY <1>8 DEF UpdateSession, NoSession, PathInv, WayInv
  <2>2. UNCHANGED <<walkerVars, served, down, waiting, avatarVars>>
    BY <1>8 DEF UpdateSession, NoSession
  <2> QED
    BY <2>1, <2>2
    DEF walkerVars, avatarVars, PathInv, WalkInv, WayInv, AvatarInv, CopyInv,
        Ascending
<1>9. CASE UNCHANGED vars
  BY <1>9
  DEF vars, walkerVars, avatarVars, PathInv, WalkInv, WayInv, AvatarInv,
      CopyInv, Ascending
<1> QED
  BY <1>1, <1>2, <1>3, <1>4, <1>5, <1>6, <1>7, <1>8, <1>9 DEF Next

THEOREM PathInvariant == Spec => []PathInv
  BY PathInit, PathStep, PTL DEF Spec

(***************************************************************************)
(* Types.                                                                  *)
(***************************************************************************)
THEOREM TypeCorrect == Spec => []TypeOK
<1>1. PathInv => TypeOK
  <2> SUFFICES ASSUME PathInv PROVE TypeOK
    OBVIOUS
  <2>1. Walked \subseteq Path /\ Known \subseteq Path \cup {<<>>}
    BY DEF Walked, Known
  <2>2. KnownElement \subseteq Element
    BY <2>1 DEF KnownElement, Element
  <2>3. up \in Seq(Path) /\ waiting \in Seq(Path \cup {<<>>})
    BY <2>1, SeqMonotonic DEF PathInv, WalkInv, WayInv
  <2>4. down \in Seq(Element)
    BY <2>2, SeqMonotonic DEF PathInv, WayInv
  <2> QED
    BY <2>1, <2>3, <2>4 DEF PathInv, WalkInv, WayInv, AvatarInv, TypeOK
<1> QED
  BY <1>1, PathInvariant, PTL

(***************************************************************************)
(* The nodes an avatar has before it are in the order they were walked.    *)
(***************************************************************************)
THEOREM InOrderCorrect == Spec => []InOrder
<1>1. PathInv => InOrder
  BY DEF PathInv, AvatarInv, CopyInv, InOrder
<1> QED
  BY <1>1, PathInvariant, PTL

(***************************************************************************)
(* An avatar goes back only to start a path.                               *)
(***************************************************************************)
THEOREM BackToTheStartCorrect == Spec => BackToTheStart
<1>1. ASSUME PathInv, [Next]_vars, NEW k \in 1..Copies, at'[k] < at[k]
      PROVE  Len(targets[k]) >= Nodes - 1
  <2>1. at[k] \in Nat /\ Len(targets[k]) \in Nat
    BY <1>1, Constants, LenProperties DEF PathInv, AvatarInv, CopyInv
  <2>2. CASE at' = at
    BY <1>1, <2>1, <2>2
  <2>3. ASSUME NEW done \in SUBSET (1..Copies), UpdateRemoteControls(done),
               Len(targets[k]) < Nodes - 1
        PROVE  FALSE
    <3>1. /\ at[k] <= Moved(k, done) /\ Moved(k, done) \in Nat
          /\ Aim(k, done) # NoTarget =>
                at[k] <= Aim(k, done) /\ Aim(k, done) \in Nat
      BY <1>1, <2>3, CopyMoves, Constants DEF PathInv, AvatarInv
    <3>2. \/ at'[k] = Moved(k, done)
          \/ at'[k] = Aim(k, done) /\ Aim(k, done) # NoTarget
      BY <1>1, <2>3, FrameOfCopy
    <3> QED
      BY <1>1, <2>1, <3>1, <3>2
  <2>4. \/ at' = at
        \/ \E done \in SUBSET (1..Copies) : UpdateRemoteControls(done)
    BY <1>1
    DEF Next, vars, avatarVars, Walk, UpdatePath, TransformData, ObjectsData,
        ObjectsReply, EnqueueTransform, UpdateSession, NoSession
  <2> QED
    BY <2>1, <2>2, <2>3, <2>4, Constants
<1>2. PathInv /\ [Next]_vars =>
         [\A k \in 1..Copies : at'[k] < at[k] => Len(targets[k]) >= Nodes - 1]_vars
  BY <1>1
<1> QED
  BY <1>2, PathInvariant, PTL DEF Spec, BackToTheStart

-----------------------------------------------------------------------------
(***************************************************************************)
(* How many paths wait.  Of the observer's poll, the answer to it and the  *)
(* permission to poll again there is one at a time; an answer is read from *)
(* its reply on, and so no more than the paths of one answer are before    *)
(* the next reply.                                                         *)
(***************************************************************************)
Answered == check = 0 /\ asked = 0
Before(p) ==
    /\ p \in 1..Copies + 1 /\ Len(down) = p + Copies /\ down[p] = Reply
    /\ \A k \in 1..Len(down) : k # p => down[k] # Reply
TurnInv ==
    /\ asked \in {0, 1}
    /\ check = 1 => asked = 0
    /\ ~ Answered => Len(down) <= Copies /\ \A k \in 1..Len(down) : down[k] # Reply
    /\ Answered => \E p \in 1..Copies + 1 : Before(p)

\* The paths that wait, with those that a poll under way will bring.
Load == Len(down) - (IF Answered THEN 1 ELSE 0) + Len(waiting)
        + (IF asked = 1 THEN Copies ELSE 0)
LoadInv == Load <= 3 * Copies /\ (stage = "timers" => Load <= 2 * Copies)

WaitInv == TurnInv /\ LoadInv

LEMMA WaitTypes ==
  ASSUME PathInv
  PROVE  /\ down \in Seq(KnownElement) /\ waiting \in Seq(Known)
         /\ Len(down) \in Nat /\ Len(waiting) \in Nat /\ asked \in Nat /\ check \in {0, 1}
         /\ stage \in {"remote", "timers"} /\ Copies \in Nat /\ Copies > 0
  BY RemotePathAssumption DEF PathInv, WayInv

LEMMA UpTo ==
  ASSUME NEW n \in Nat
  PROVE  IsFiniteSet(1..n) /\ Cardinality(1..n) = n
<1>1. IsFiniteSet(1..n) /\ Cardinality(1..n) = IF 1 > n THEN 0 ELSE n - 1 + 1
  BY FS_Interval
<1> QED
  BY <1>1

LEMMA WaitInit == Init => WaitInv
  BY RemotePathAssumption DEF Init, WaitInv, TurnInv, LoadInv, Load, Answered

LEMMA Others ==
  ASSUME PathInv, WaitInv, UNCHANGED <<asked, down, check, waiting, stage>>
  PROVE  WaitInv'
  BY DEF WaitInv, TurnInv, LoadInv, Load, Answered, Before

LEMMA Joined ==
  ASSUME NEW S, NEW s \in Seq(S), NEW t \in Seq(S)
  PROVE  /\ Len(s \o t) = Len(s) + Len(t)
         /\ \A k \in 1..Len(s) : (s \o t)[k] = s[k]
         /\ \A k \in Len(s) + 1..Len(s) + Len(t) : (s \o t)[k] = t[k - Len(s)]
  OBVIOUS

LEMMA ObjectsDataWait ==
  ASSUME PathInv, WaitInv, ObjectsData
  PROVE  WaitInv'
<1> PICK n \in Nat : n = Len(down)
  BY WaitTypes
<1>1. /\ asked = 1 /\ asked' = 0 /\ check = 0 /\ check' = 0 /\ ~ Answered /\ Answered'
      /\ waiting' = waiting /\ stage' = stage
  <2>1. asked > 0 /\ asked' = asked - 1
    BY DEF ObjectsData
  <2>2. check' = check /\ waiting' = waiting /\ stage' = stage
    BY DEF ObjectsData, avatarVars
  <2>3. asked = 1 /\ check = 0
    BY <2>1, WaitTypes DEF WaitInv, TurnInv
  <2> QED
    BY <2>1, <2>2, <2>3 DEF Answered
<1>2. down' = (down \o <<Reply>>) \o [k \in 1..Copies |-> TransformEntity(served)]
  BY DEF ObjectsData
<1>3. \A p : TransformEntity(p) # Reply
  BY DEF TransformEntity, Reply
<1>4. n <= Copies /\ n \in Nat /\ \A k \in 1..n : down[k] # Reply
  BY <1>1, WaitTypes DEF WaitInv, TurnInv
<1>5. /\ Len(down') = n + 1 + Copies /\ down'[n + 1] = Reply
      /\ \A k \in 1..n : down'[k] = down[k]
      /\ \A k \in n + 2..n + 1 + Copies : down'[k] = TransformEntity(served)
  <2> DEFINE q == [k \in 1..Copies |-> TransformEntity(served)]
             S == KnownElement \cup {TransformEntity(served)}
  <2>1. q \in Seq(S) /\ Len(q) = Copies /\ \A k \in 1..Copies : q[k] = TransformEntity(served)
    BY WaitTypes
  <2>2. down \in Seq(S) /\ Reply \in S
    BY WaitTypes DEF KnownElement
  <2> HIDE DEF q, S
  <2>3. down \o <<Reply>> \in Seq(S) /\ Len(down \o <<Reply>>) = n + 1
        /\ (down \o <<Reply>>)[n + 1] = Reply
        /\ \A k \in 1..n : (down \o <<Reply>>)[k] = down[k]
    BY <2>2
  <2> DEFINE d == down \o <<Reply>>
  <2>4. down' = d \o q
    BY <1>2 DEF q
  <2> HIDE DEF d
  <2>5. d \in Seq(S) /\ Len(d) = n + 1 /\ d[n + 1] = Reply /\ \A k \in 1..n : d[k] = down[k]
    BY <2>3 DEF d
  <2>6. /\ Len(down') = n + 1 + Copies
        /\ \A k \in 1..n + 1 : down'[k] = d[k]
        /\ \A k \in n + 2..n + 1 + Copies : down'[k] = q[k - (n + 1)]
    <3>1. q \in Seq(S) /\ d \in Seq(S) /\ Len(d) = n + 1 /\ Len(q) = Copies
      BY <2>1, <2>5
    <3>2. /\ Len(d \o q) = Len(d) + Len(q)
          /\ \A k \in 1..Len(d) : (d \o q)[k] = d[k]
          /\ \A k \in Len(d) + 1..Len(d) + Len(q) : (d \o q)[k] = q[k - Len(d)]
      BY <3>1, Joined
    <3>3. Len(d) + Len(q) = n + 1 + Copies /\ Len(d) + 1 = n + 2
      BY <1>4, <3>1, WaitTypes
    <3> QED
      BY <2>4, <3>1, <3>2, <3>3
  <2>7. \A k \in n + 2..n + 1 + Copies : k - (n + 1) \in 1..Copies
    BY <1>4, WaitTypes
  <2>8. n + 1 \in 1..n + 1 /\ \A k \in 1..n : k \in 1..n + 1
    BY <1>4
  <2> QED
    BY <2>1, <2>5, <2>6, <2>7, <2>8
<1>6. \A k \in 1..Len(down') : k # n + 1 => down'[k] # Reply
  <2> SUFFICES ASSUME NEW k \in 1..Len(down'), k # n + 1
               PROVE  down'[k] # Reply
    OBVIOUS
  <2>1. k \in 1..n \/ k \in n + 2..n + 1 + Copies
    BY <1>4, <1>5, WaitTypes
  <2> QED
    BY <1>3, <1>4, <1>5, <2>1
<1>7. Before(n + 1)'
  BY <1>4, <1>5, <1>6, WaitTypes DEF Before
<1>8. n + 1 \in 1..Copies + 1
  BY <1>4, WaitTypes
<1>9. TurnInv'
  BY <1>1, <1>7, <1>8 DEF TurnInv
<1>10. Load' = Load
  BY <1>1, <1>4, <1>5, WaitTypes DEF Load
<1> QED
  BY <1>1, <1>9, <1>10 DEF WaitInv, LoadInv

LEMMA TakeFirst ==
  ASSUME PathInv, down # <<>>
  PROVE  /\ Head(down) = down[1] /\ Len(down) > 0 /\ Len(Tail(down)) = Len(down) - 1
         /\ \A k \in 1..Len(Tail(down)) : Tail(down)[k] = down[k + 1]
<1>1. down \in Seq(KnownElement)
  BY WaitTypes
<1> QED
  BY <1>1

LEMMA ObjectsReplyWait ==
  ASSUME PathInv, WaitInv, ObjectsReply
  PROVE  WaitInv'
<1>1. /\ down # <<>> /\ Head(down) = Reply /\ down' = Tail(down) /\ check' = 1
      /\ asked' = asked /\ waiting' = waiting /\ stage' = stage
  BY DEF ObjectsReply, Receive
<1>2. /\ down[1] = Reply /\ Len(down) > 0 /\ Len(down') = Len(down) - 1
      /\ \A k \in 1..Len(down') : down'[k] = down[k + 1]
  BY <1>1, TakeFirst
<1>3. Answered /\ ~ Answered' /\ asked = 0
  BY <1>1, <1>2, WaitTypes DEF WaitInv, TurnInv, Answered
<1>4. PICK p \in 1..Copies + 1 : Before(p)
  BY <1>3 DEF WaitInv, TurnInv
<1>5. p = 1 /\ Len(down) = 1 + Copies
  BY <1>2, <1>4, WaitTypes DEF Before
<1>6. Len(down') <= Copies /\ \A k \in 1..Len(down') : down'[k] # Reply
  BY <1>2, <1>4, <1>5, WaitTypes DEF Before
<1>7. Load' = Load
  BY <1>1, <1>2, <1>3, WaitTypes DEF Load
<1> QED
  BY <1>1, <1>3, <1>6, <1>7 DEF WaitInv, TurnInv, LoadInv

LEMMA EnqueueTransformWait ==
  ASSUME PathInv, WaitInv, EnqueueTransform
  PROVE  WaitInv'
<1>1. PICK p \in Path \cup {<<>>} : Receive(TransformEntity(p)) /\ waiting' = Append(waiting, p)
  BY DEF EnqueueTransform
<1>2. /\ down # <<>> /\ Head(down) # Reply /\ down' = Tail(down)
      /\ asked' = asked /\ check' = check /\ stage' = stage
  BY <1>1 DEF EnqueueTransform, Receive, TransformEntity, Reply
<1>3. /\ down[1] # Reply /\ Len(down) > 0 /\ Len(down') = Len(down) - 1
      /\ \A k \in 1..Len(down') : down'[k] = down[k + 1]
  BY <1>2, TakeFirst
<1>4. Len(waiting') = Len(waiting) + 1
  BY <1>1, WaitTypes
<1>5. Answered' <=> Answered
  BY <1>2 DEF Answered
<1>6. Load' = Load
  BY <1>2, <1>3, <1>4, <1>5, WaitTypes DEF Load
<1>7. CASE ~ Answered
  <2>1. Len(down') <= Copies /\ \A k \in 1..Len(down') : down'[k] # Reply
    BY <1>3, <1>7, WaitTypes DEF WaitInv, TurnInv
  <2> QED
    BY <1>2, <1>5, <1>6, <1>7, <2>1 DEF WaitInv, TurnInv, LoadInv
<1>8. CASE Answered
  <2>1. PICK q \in 1..Copies + 1 : Before(q)
    BY <1>8 DEF WaitInv, TurnInv
  <2>2. q # 1
    BY <1>3, <2>1 DEF Before
  <2>3. q - 1 \in 1..Copies + 1 /\ Len(down') = q - 1 + Copies /\ down'[q - 1] = Reply
    BY <1>3, <2>1, <2>2, WaitTypes DEF Before
  <2>4. ASSUME NEW k \in 1..Len(down'), k # q - 1
        PROVE  down'[k] # Reply
    <3>1. k + 1 \in 1..Len(down) /\ k + 1 # q /\ down'[k] = down[k + 1]
      BY <1>3, <2>1, <2>4, WaitTypes
    <3> QED
      BY <2>1, <3>1 DEF Before
  <2>5. Before(q - 1)'
    BY <2>3, <2>4 DEF Before
  <2> QED
    BY <1>2, <1>5, <1>6, <1>8, <2>3, <2>5 DEF WaitInv, TurnInv, LoadInv
<1> QED
  BY <1>7, <1>8

\* A frame empties the queue: of one answer read and one to come, the paths
\* are left.
LEMMA FrameWait ==
  ASSUME PathInv, WaitInv, NEW done \in SUBSET (1..Copies), UpdateRemoteControls(done)
  PROVE  WaitInv'
<1>1. waiting' = <<>> /\ stage' = "timers" /\ UNCHANGED <<asked, down, check>>
  BY DEF UpdateRemoteControls
<1>2. TurnInv'
  BY <1>1 DEF WaitInv, TurnInv, Answered, Before
<1>3. Len(waiting') = 0
  BY <1>1
<1>4. Load' <= 2 * Copies
  <2>1. CASE Answered
    <3>1. Len(down) <= 2 * Copies + 1 /\ asked = 0
      BY <2>1, WaitTypes DEF WaitInv, TurnInv, Answered, Before
    <3> QED
      BY <1>1, <1>3, <2>1, <3>1, WaitTypes DEF Load, Answered
  <2>2. CASE ~ Answered
    <3>1. Len(down) <= Copies
      BY <2>2 DEF WaitInv, TurnInv
    <3> QED
      BY <1>1, <1>3, <2>2, <3>1, WaitTypes DEF Load, Answered
  <2> QED
    BY <2>1, <2>2
<1>5. Load' <= 3 * Copies
  <2>1. Load' \in Int
    BY <1>1, <1>3, WaitTypes DEF Load
  <2> QED
    BY <1>4, <2>1, WaitTypes
<1> QED
  BY <1>2, <1>4, <1>5 DEF WaitInv, LoadInv

LEMMA TimersWait ==
  ASSUME PathInv, WaitInv, UpdateSession \/ NoSession
  PROVE  WaitInv'
<1>1. /\ stage = "timers" /\ stage' = "remote" /\ UNCHANGED <<down, waiting>>
  BY DEF UpdateSession, NoSession
<1>2. Load <= 2 * Copies /\ Load \in Int
  BY <1>1, WaitTypes DEF WaitInv, LoadInv, Load
<1>3. CASE UpdateSession /\ MayPoll
  <2>1. check = 1 /\ asked = 0 /\ asked' = 1 /\ check' = 0 /\ ~ Answered /\ ~ Answered'
    BY <1>3, WaitTypes DEF UpdateSession, MayPoll, WaitInv, TurnInv, Answered
  <2>2. Load' = Load + Copies
    BY <1>1, <2>1, WaitTypes DEF Load
  <2>3. Load' <= 3 * Copies
    BY <1>2, <2>2, WaitTypes
  <2> QED
    BY <1>1, <2>1, <2>3 DEF WaitInv, TurnInv, LoadInv
<1>4. CASE UNCHANGED <<asked, check>>
  <2>1. Load' = Load
    BY <1>1, <1>4 DEF Load, Answered
  <2>2. Load' <= 3 * Copies
    BY <1>2, <2>1, WaitTypes
  <2> QED
    BY <1>1, <1>4, <2>2 DEF WaitInv, TurnInv, LoadInv, Answered, Before
<1> QED
  BY <1>3, <1>4 DEF UpdateSession, NoSession

LEMMA WaitStep == PathInv /\ WaitInv /\ [Next]_vars => WaitInv'
<1> SUFFICES ASSUME PathInv, WaitInv, [Next]_vars
             PROVE  WaitInv'
  OBVIOUS
<1>1. CASE Walk \/ UpdatePath \/ TransformData \/ UNCHANGED vars
  <2>1. UNCHANGED <<asked, down, check, waiting, stage>>
    BY <1>1 DEF Walk, UpdatePath, TransformData, vars
  <2> QED
    BY <2>1, Others
<1> QED
  BY <1>1, ObjectsDataWait, ObjectsReplyWait, EnqueueTransformWait, FrameWait, TimersWait
     DEF Next

(***************************************************************************)
(* Never more than three paths of a copy wait between the server and a     *)
(* frame, however the threads interleave (Network.js, ObjectsReply,        *)
(* TransformEntityData; WorldScript.js, UpdateRemoteControls).             *)
(***************************************************************************)
THEOREM ThreePathsCorrect == Spec => []ThreePaths
<1>1. ASSUME PathInv, WaitInv PROVE ThreePaths
  <2> DEFINE P == PathsAt(down)
  <2>1. CASE ~ Answered
    <3>1. P = 1..Len(down)
      BY <1>1, <2>1 DEF PathsAt, WaitInv, TurnInv
    <3>2. Cardinality(P) = Len(down)
      BY <1>1, <3>1, UpTo, WaitTypes
    <3> QED
      BY <1>1, <2>1, <3>2, WaitTypes DEF ThreePaths, WaitInv, LoadInv, Load, TurnInv
  <2>2. CASE Answered
    <3>1. PICK p \in 1..Copies + 1 : Before(p)
      BY <1>1, <2>2 DEF WaitInv, TurnInv
    <3>2. P = (1..Len(down)) \ {p} /\ p \in 1..Len(down)
      BY <1>1, <3>1, WaitTypes DEF PathsAt, Before
    <3>3. IsFiniteSet(1..Len(down)) /\ Cardinality(1..Len(down)) = Len(down)
      BY <1>1, UpTo, WaitTypes
    <3>4. Cardinality(P) = Len(down) - 1
      BY <3>2, <3>3, FS_RemoveElement
    <3> QED
      BY <1>1, <2>2, <3>4, WaitTypes DEF ThreePaths, WaitInv, LoadInv, Load, Answered
  <2> QED
    BY <2>1, <2>2
<1> QED
  BY <1>1, PathInvariant, WaitInit, WaitStep, PTL DEF Spec
=============================================================================
