-------------------------------- MODULE Framing --------------------------------
(***************************************************************************)
(* Packets on a stream of bytes, in one direction of one connection: how   *)
(* the server, the game client and the native client write packets and how *)
(* each finds the packets in what has arrived (LoginServer.cpp,            *)
(* onSocketReadable; Network.js, ReceivePacket; Client.cpp, run).          *)
(*                                                                         *)
(* The stream is counted in words.  A packet is a head of four words       *)
(* (begin, opcode, bodysize, end) and a body.  TCP delivers the words in   *)
(* order, in pieces of any length, so that packets arrive together or in   *)
(* parts.  Every end asks for a head and then for the body in one receive  *)
(* each, and takes what is there for what it asked for: a short receive    *)
(* loses the boundary between packets.                                     *)
(***************************************************************************)
EXTENDS Integers, Sequences

CONSTANTS
    Sizes,      \* lengths of bodies; every packet of the code has one
    MaxSent     \* bound: packets sent

ASSUME FramingAssumption ==
    /\ Sizes \subseteq Nat \ {0}
    /\ MaxSent \in Nat

HeadSize == 4           \* HeadSize::size, in words
Junk == 0               \* what is no packet

\* Who writes and who reads.
Links == {<<"game", "server">>, <<"native", "server">>,
          <<"server", "game">>, <<"server", "native">>}

VARIABLES
    link,       \* one of Links
    sent,       \* the lengths of the bodies sent
    stream,     \* words sent and not yet received
    arrived,    \* how many of them have arrived
    stage,      \* what the reader asks for next: "head" or "body"
    want,       \* how many words of body it asks for
    handled,    \* the packets its handlers were called with
    torn,       \* a packet was written or received in part
    cut         \* something less than whole packets was written or arrived

vars == <<link, sent, stream, arrived, stage, want, handled, torn, cut>>

Writer == link[1]
Reader == link[2]

\* Word w of packet p.
Word == [p : Nat, w : Nat]

Init ==
    /\ link \in Links
    /\ sent = <<>> /\ stream = <<>> /\ arrived = 0
    /\ stage = "head" /\ want = 0 /\ handled = <<>>
    /\ torn = FALSE /\ cut = FALSE

\* The words of the next packet, of body length s.
Packet(s) == [w \in 1..(HeadSize + s) |-> [p |-> Len(sent) + 1, w |-> w]]

Send(s) ==
    /\ Len(sent) < MaxSent
    /\ sent' = Append(sent, s)
    /\ stream' = stream \o Packet(s)
    /\ UNCHANGED <<link, arrived, stage, want, handled, torn, cut>>

\* The native client's socket does not block.  A send that gets rid of a part
\* only is not Done, and the whole packet is sent again.
SendPartly(s, k) ==
    /\ Writer = "native" /\ Len(sent) < MaxSent
    /\ k < HeadSize + s
    /\ Len(stream) < MaxSent * HeadSize
    /\ stream' = stream \o SubSeq(Packet(s), 1, k)
    /\ torn' = TRUE /\ cut' = TRUE
    /\ UNCHANGED <<link, sent, arrived, stage, want, handled>>

\* Whether a word is the last of its packet.
Ends(x) == x.p \in DOMAIN sent /\ x.w = HeadSize + sent[x.p]

Arrive(n) ==
    /\ n > 0 /\ arrived + n <= Len(stream)
    /\ arrived' = arrived + n
    /\ cut' = (cut \/ ~Ends(stream[arrived + n]))
    /\ UNCHANGED <<link, sent, stream, stage, want, handled, torn>>

-----------------------------------------------------------------------------
\* What a receive that asks for k words gets.
Received_All(k) == k
Received(k) == IF k <= arrived THEN k ELSE arrived

\* Words w..w+r-1 of packet p come next.
IsNext(p, w, r) == \A i \in 1..r : stream[i] = [p |-> p, w |-> w + i - 1]

Take(r) ==
    /\ stream' = SubSeq(stream, r + 1, Len(stream))
    /\ arrived' = arrived - r

\* The length in the head of packet p; other words can be taken for any.
BodySize_WithEnd(p) == sent[p] + 1
BodySize_Short(p) == sent[p] - 1
BodySize(p) == sent[p]

BodySizes(r) ==
    {BodySize(p) : p \in {q \in DOMAIN sent : IsNext(q, 1, r)}}
    \cup {s \in {0} \cup Sizes : \A q \in DOMAIN sent : ~IsNext(q, 1, r)}

ReadHead ==
    /\ stage = "head" /\ arrived > 0
    /\ LET r == Received(HeadSize) IN
       /\ Take(r)
       /\ torn' = (torn \/ r < HeadSize)
       /\ \/ r = HeadSize                   \* the length is the third word
             /\ stage' = "body" /\ want' \in BodySizes(r)
          \/ r < HeadSize /\ Reader = "game"
             /\ stage' = "body" /\ want' \in (IF r = 3 THEN BodySizes(r) ELSE {0})
          \/ r < HeadSize /\ Reader # "game"
             /\ UNCHANGED <<stage, want>>
    /\ UNCHANGED <<link, sent, handled, cut>>

\* The packet whose body the next r words are, if they are what was asked for.
Body(r) ==
    IF r = want /\ \E p \in DOMAIN sent : sent[p] = r /\ IsNext(p, HeadSize + 1, r)
    THEN CHOOSE p \in DOMAIN sent : IsNext(p, HeadSize + 1, r)
    ELSE Junk

\* The opcode of what is no packet may have a handler or not.
Handle(p) ==
    \/ handled' = Append(handled, p)
    \/ p = Junk /\ UNCHANGED handled

Waits == want = 0 \/ arrived > 0

\* Two of the readers wait for a body of which nothing has arrived; the native
\* client does not, and forgets the head.
NativeHandles_Long(r) == r > 1
NativeHandles(r) == r > 0

ReadBody ==
    /\ stage = "body"
    /\ LET r == Received(want) IN
       /\ \/ Reader # "native" /\ Waits /\ Handle(Body(r))
          \/ Reader = "native" /\ NativeHandles(r) /\ Handle(Body(r))
          \/ Reader = "native" /\ ~NativeHandles(r) /\ UNCHANGED handled
       /\ Take(r)
       /\ torn' = (torn \/ r < want)
    /\ stage' = "head" /\ want' = 0
    /\ UNCHANGED <<link, sent, cut>>

Read == ReadHead \/ ReadBody

Next ==
    \/ \E s \in Sizes : Send(s) \/ \E k \in 1..(HeadSize + s) : SendPartly(s, k)
    \/ \E n \in 1..Len(stream) : Arrive(n)
    \/ Read

Spec == Init /\ [][Next]_vars

\* The network delivers what was sent, and the reader reads.
Fairness == WF_vars(\E n \in 1..Len(stream) : Arrive(n)) /\ WF_vars(Read)
FairSpec == Spec /\ Fairness

-----------------------------------------------------------------------------
\* Types of the variables.
TypeOK ==
    /\ link \in Links
    /\ sent \in Seq(Sizes) /\ Len(sent) <= MaxSent
    /\ stream \in Seq(Word) /\ arrived \in 0..Len(stream)
    /\ stage \in {"head", "body"} /\ want \in Nat
    /\ handled \in Seq(Nat)
    /\ torn \in BOOLEAN /\ cut \in BOOLEAN

\* Packets may arrive together or apart, the next one while the last is being
\* read: as long as no piece ends inside a packet and none was written in part,
\* no receive of any reader comes up short (LoginServer.cpp:83-113,
\* Network.js:626-650, Client.cpp:64-73).
TornByCut == torn => cut

\* The three readers, over the three writers, implement the channel the
\* handlers rely on: until a receive comes up short, every handler is called
\* with whole packets, in order, each once (the same lines).
Channel == INSTANCE PacketChannel WITH count <- Len(sent)
ImplementsChannel == Channel!Spec

\* Every packet is handled in the end, in whatever pieces it arrives, if no
\* receive ever comes up short, even when several packets have arrived before
\* the reader looks (the readers take one packet a turn and are called again).
AllHandled ==
    [](~torn) => \A i \in 1..MaxSent : Len(sent) >= i ~> Len(handled) >= i
=============================================================================
