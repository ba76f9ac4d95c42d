---------------------------- MODULE FramingProofs ----------------------------
(***************************************************************************)
(* Framing keeps its types, tears only when something cuts a packet, and   *)
(* implements PacketChannel, for every set of lengths and any number of    *)
(* packets.  Until it tears, the words on their way are whole packets but  *)
(* for the head the reader has taken.                                      *)
(***************************************************************************)
EXTENDS Framing, SequenceTheorems, TLAPS

\* The number of words of packet p.
Whole(p) == HeadSize + sent[p]

\* The last place of the packet that has word w of packet p at place i.
End(i, p, w) == i + Whole(p) - w

\* From word w of packet p at place i the packet goes on to its last word; then
\* comes the next packet, or p is the last one sent.
Run(i, p, w) ==
    /\ p \in 1..Len(sent) /\ w \in 1..Whole(p) /\ End(i, p, w) <= Len(stream)
    /\ \A k \in i..End(i, p, w) : stream[k] = [p |-> p, w |-> w + k - i]
    /\ IF End(i, p, w) < Len(stream)
       THEN stream[End(i, p, w) + 1] = [p |-> p + 1, w |-> 1]
       ELSE p = Len(sent)

StreamInv == \A i \in 1..Len(stream) : \E p \in 1..Len(sent), w \in Nat : Run(i, p, w)

\* What the reader gets next.
FirstInv ==
    /\ stage = "head" =>
          IF stream = <<>> THEN Len(handled) = Len(sent)
                           ELSE stream[1] = [p |-> Len(handled) + 1, w |-> 1]
    /\ stage = "body" =>
          /\ Len(handled) < Len(sent) /\ want = sent[Len(handled) + 1]
          /\ stream # <<>> /\ stream[1] = [p |-> Len(handled) + 1, w |-> HeadSize + 1]

\* Nothing has been cut: what has arrived is whole packets.
CutInv ==
    ~cut => /\ arrived > 0 => Ends(stream[arrived])
            /\ stage = "body" => arrived > 0

FrameInv ==
    /\ TypeOK
    /\ torn => cut
    /\ ~torn => StreamInv /\ FirstInv /\ CutInv

-----------------------------------------------------------------------------
LEMMA Lengths ==
  ASSUME TypeOK
  PROVE  /\ Len(sent) \in Nat /\ Len(stream) \in Nat /\ Len(handled) \in Nat
         /\ arrived \in Nat /\ arrived <= Len(stream) /\ want \in Nat
<1>1. sent \in Seq(Sizes) /\ stream \in Seq(Word) /\ handled \in Seq(Nat)
      /\ arrived \in 0..Len(stream) /\ want \in Nat
  BY DEF TypeOK
<1> QED
  BY <1>1

LEMMA Bodies ==
  ASSUME TypeOK
  PROVE  /\ DOMAIN sent = 1..Len(sent)
         /\ \A p \in 1..Len(sent) : sent[p] \in Sizes /\ sent[p] \in Nat /\ sent[p] > 0
<1>1. sent \in Seq(Sizes)
  BY DEF TypeOK
<1>2. DOMAIN sent = 1..Len(sent) /\ \A p \in 1..Len(sent) : sent[p] \in Sizes
  BY <1>1
<1>3. ASSUME NEW n \in Sizes PROVE n \in Nat /\ n > 0
  <2>1. n \in Nat /\ n # 0
    BY FramingAssumption
  <2> QED
    BY <2>1
<1> QED
  BY <1>2, <1>3

LEMMA Words ==
  ASSUME TypeOK
  PROVE  stream \in Seq(Word) /\ \A i \in 1..Len(stream) : stream[i] \in Word
<1>1. stream \in Seq(Word)
  BY DEF TypeOK
<1> QED
  BY <1>1

LEMMA InitInv == Init => FrameInv
<1> SUFFICES ASSUME Init PROVE FrameInv
  OBVIOUS
<1>1. sent = <<>> /\ stream = <<>> /\ handled = <<>> /\ Len(stream) = 0
      /\ Len(sent) = 0 /\ Len(handled) = 0
  BY DEF Init
<1>2. TypeOK
  <2>1. link \in Links /\ torn \in BOOLEAN /\ cut \in BOOLEAN
    BY DEF Init
  <2>2. sent \in Seq(Sizes) /\ stream \in Seq(Word) /\ handled \in Seq(Nat)
    BY <1>1
  <2>3. arrived \in 0..Len(stream) /\ want \in Nat /\ stage \in {"head", "body"}
    BY <1>1 DEF Init
  <2>4. Len(sent) <= MaxSent
    BY <1>1, FramingAssumption
  <2> QED
    BY <2>1, <2>2, <2>3, <2>4 DEF TypeOK
<1>3. StreamInv
  BY <1>1 DEF StreamInv
<1>4. FirstInv /\ CutInv
  BY <1>1 DEF Init, FirstInv, CutInv
<1> QED
  BY <1>2, <1>3, <1>4 DEF Init, FrameInv

\* What a receive leaves.
LEMMA TakeLeaves ==
  ASSUME TypeOK, NEW r \in Nat, r <= arrived, Take(r)
  PROVE  /\ stream' \in Seq(Word) /\ Len(stream') = Len(stream) - r
         /\ \A k \in 1..Len(stream) - r : stream'[k] = stream[k + r]
         /\ arrived' = arrived - r /\ arrived' \in 0..Len(stream')
<1>1. r + 1 \in Int /\ Len(stream) \in Int /\ \A k \in r + 1..Len(stream) : stream[k] \in Word
  BY Lengths, Words
<1>2. /\ stream' \in Seq(Word)
      /\ Len(stream') = IF r + 1 <= Len(stream) THEN Len(stream) - (r + 1) + 1 ELSE 0
      /\ \A k \in 1..Len(stream) - (r + 1) + 1 : stream'[k] = stream[r + 1 + k - 1]
  <2>1. stream' = SubSeq(stream, r + 1, Len(stream))
    BY DEF Take
  <2> QED
    BY <1>1, <2>1, SubSeqProperties
<1>3. Len(stream) - (r + 1) + 1 = Len(stream) - r /\ r <= Len(stream)
      /\ (~(r + 1 <= Len(stream)) => r = Len(stream))
  BY Lengths
<1>4. Len(stream') = Len(stream) - r
  <2>1. Len(stream') = IF r + 1 <= Len(stream) THEN Len(stream) - (r + 1) + 1 ELSE 0
    BY <1>2
  <2>2. CASE r + 1 <= Len(stream)
    BY <1>3, <2>1, <2>2
  <2>3. CASE ~ (r + 1 <= Len(stream))
    <3>1. Len(stream') = 0 /\ Len(stream) = r
      BY <1>3, <2>1, <2>3
    <3> QED
      BY <3>1
  <2> QED
    BY <2>2, <2>3
<1>5. ASSUME NEW k \in 1..Len(stream) - r
      PROVE  stream'[k] = stream[k + r]
  <2>1. r + 1 + k - 1 = k + r
    OBVIOUS
  <2> QED
    BY <1>2, <1>3, <2>1
<1>6. arrived' = arrived - r
  BY DEF Take
<1> QED
  BY <1>2, <1>4, <1>5, <1>6, Lengths

LEMMA TakeStream ==
  ASSUME TypeOK, StreamInv, NEW r \in Nat, r <= arrived, Take(r), UNCHANGED sent
  PROVE  StreamInv'
<1> SUFFICES ASSUME NEW i \in 1..Len(stream')
             PROVE  \E p \in 1..Len(sent'), w \in Nat : Run(i, p, w)'
  BY DEF StreamInv
<1>1. /\ i \in 1..Len(stream) - r /\ i + r \in 1..Len(stream)
      /\ Len(stream') = Len(stream) - r
      /\ \A k \in 1..Len(stream) - r : stream'[k] = stream[k + r]
  <2>1. /\ Len(stream') = Len(stream) - r
        /\ \A k \in 1..Len(stream) - r : stream'[k] = stream[k + r]
    BY TakeLeaves
  <2>2. i \in 1..Len(stream) - r
    BY <2>1
  <2>3. i + r \in 1..Len(stream)
    BY <2>2, Lengths
  <2> QED
    BY <2>1, <2>2, <2>3
<1>2. PICK p \in 1..Len(sent), w \in Nat : Run(i + r, p, w)
  BY <1>1 DEF StreamInv
<1>3. p \in Nat /\ Whole(p) \in Nat /\ w \in 1..Whole(p) /\ r \in Nat /\ i \in Nat
  <2>1. sent[p] \in Nat
    BY Bodies
  <2>2. w \in 1..Whole(p)
    BY <1>2 DEF Run
  <2> QED
    BY <1>1, <2>1, <2>2, Lengths DEF Whole, HeadSize
<1>4. Whole(p)' = Whole(p)
  BY DEF Whole
<1>5. End(i, p, w)' = End(i + r, p, w) - r /\ End(i + r, p, w) \in Nat
      /\ End(i + r, p, w) >= i + r
  BY <1>1, <1>3, <1>4 DEF End
<1> PICK e \in Nat : e = End(i + r, p, w)
  BY <1>5
<1>6. /\ e <= Len(stream)
      /\ \A k \in i + r..e : stream[k] = [p |-> p, w |-> w + k - (i + r)]
      /\ IF e < Len(stream) THEN stream[e + 1] = [p |-> p + 1, w |-> 1] ELSE p = Len(sent)
  BY <1>2 DEF Run
<1>7. ASSUME NEW k \in i..e - r
      PROVE  stream'[k] = [p |-> p, w |-> w + k - i]
  <2>1. k + r \in i + r..e /\ k \in 1..Len(stream) - r /\ w + (k + r) - (i + r) = w + k - i
    BY <1>1, <1>3, <1>6, Lengths, SMTT(30)
  <2> QED
    BY <1>1, <1>6, <2>1
<1>8. IF e - r < Len(stream') THEN stream'[e - r + 1] = [p |-> p + 1, w |-> 1]
                              ELSE p = Len(sent)
  <2>1. CASE e < Len(stream)
    <3>1. e - r + 1 \in 1..Len(stream) - r /\ e - r + 1 + r = e + 1 /\ e - r < Len(stream')
      BY <1>1, <1>5, <2>1, Lengths, SMTT(30)
    <3> QED
      BY <1>1, <1>6, <2>1, <3>1
  <2>2. CASE ~ (e < Len(stream))
    BY <1>1, <1>6, <2>2, Lengths
  <2> QED
    BY <2>1, <2>2
<1>9. e - r <= Len(stream')
  BY <1>1, <1>6, Lengths
<1>10. Run(i, p, w)'
  BY <1>3, <1>4, <1>5, <1>7, <1>8, <1>9 DEF Run
<1> QED
  BY <1>10

-----------------------------------------------------------------------------
LEMMA Joined ==
  ASSUME NEW S, NEW s \in Seq(S), NEW t \in Seq(S)
  PROVE  /\ s \o t \in Seq(S) /\ Len(s \o t) = Len(s) + Len(t)
         /\ \A k \in 1..Len(s) : (s \o t)[k] = s[k]
         /\ \A k \in Len(s) + 1..Len(s) + Len(t) : (s \o t)[k] = t[k - Len(s)]
  OBVIOUS

\* A packet goes to the end of the stream.
LEMMA SendWrites ==
  ASSUME TypeOK, NEW s \in Sizes, Send(s), NEW l \in Nat, l = Len(stream)
  PROVE  /\ stream' \in Seq(Word) /\ Len(stream') = l + HeadSize + s
         /\ \A k \in 1..l : stream'[k] = stream[k]
         /\ \A k \in l + 1..l + HeadSize + s :
               stream'[k] = [p |-> Len(sent) + 1, w |-> k - l]
         /\ sent' \in Seq(Sizes) /\ Len(sent') = Len(sent) + 1 /\ s \in Nat /\ s > 0
         /\ sent'[Len(sent) + 1] = s /\ \A p \in 1..Len(sent) : sent'[p] = sent[p]
<1>1. s \in Nat /\ s > 0 /\ HeadSize + s \in Nat
  <2>1. s \in Nat /\ s # 0
    BY FramingAssumption
  <2> QED
    BY <2>1 DEF HeadSize
<1>2. sent \in Seq(Sizes) /\ sent' = Append(sent, s)
  BY DEF TypeOK, Send
<1>3. /\ sent' \in Seq(Sizes) /\ Len(sent') = Len(sent) + 1
      /\ sent'[Len(sent) + 1] = s /\ \A p \in 1..Len(sent) : sent'[p] = sent[p]
  BY <1>2
<1>4. ASSUME NEW w \in 1..HeadSize + s
      PROVE  [p |-> Len(sent) + 1, w |-> w] \in Word
  BY <1>1, Lengths DEF Word
<1>5. /\ Packet(s) \in Seq(Word) /\ Len(Packet(s)) = HeadSize + s
      /\ \A w \in 1..HeadSize + s : Packet(s)[w] = [p |-> Len(sent) + 1, w |-> w]
  BY <1>1, <1>4 DEF Packet
<1>6. stream \in Seq(Word) /\ stream' = stream \o Packet(s)
  BY DEF TypeOK, Send
<1>7. /\ stream' \in Seq(Word) /\ Len(stream') = l + Len(Packet(s))
      /\ \A k \in 1..l : stream'[k] = stream[k]
      /\ \A k \in l + 1..l + Len(Packet(s)) : stream'[k] = Packet(s)[k - l]
  BY <1>5, <1>6, Joined
<1>8. l + Len(Packet(s)) = l + HeadSize + s
  BY <1>1, <1>5 DEF HeadSize
<1>9. ASSUME NEW k \in l + 1..l + HeadSize + s
      PROVE  stream'[k] = [p |-> Len(sent) + 1, w |-> k - l]
  <2>1. k - l \in 1..HeadSize + s
    BY <1>1 DEF HeadSize
  <2> QED
    BY <1>5, <1>7, <1>8, <2>1
<1> QED
  BY <1>1, <1>3, <1>7, <1>8, <1>9

LEMMA SendStream ==
  ASSUME TypeOK, StreamInv, NEW s \in Sizes, Send(s)
  PROVE  StreamInv'
<1> PICK l \in Nat : l = Len(stream)
  BY Lengths
<1> PICK n \in Nat : n = Len(sent) + 1
  BY Lengths
<1> SUFFICES ASSUME NEW i \in 1..Len(stream')
             PROVE  \E p \in 1..Len(sent'), w \in Nat : Run(i, p, w)'
  BY DEF StreamInv
<1>1. /\ Len(stream') = l + HeadSize + s
      /\ \A k \in 1..l : stream'[k] = stream[k]
      /\ \A k \in l + 1..l + HeadSize + s : stream'[k] = [p |-> n, w |-> k - l]
      /\ Len(sent') = n /\ s \in Nat /\ s > 0 /\ sent'[n] = s
      /\ \A p \in 1..n - 1 : sent'[p] = sent[p]
  BY SendWrites, Lengths
<1>2. CASE i <= l
  <2>1. PICK p \in 1..n - 1, w \in Nat : Run(i, p, w)
    BY <1>2, Lengths DEF StreamInv
  <2>2. Whole(p) \in Nat /\ w \in 1..Whole(p)
    <3>1. sent[p] \in Nat
      BY Bodies
    <3>2. w \in 1..Whole(p)
      BY <2>1 DEF Run
    <3> QED
      BY <3>1, <3>2 DEF Whole, HeadSize
  <2>3. Whole(p)' = Whole(p) /\ End(i, p, w)' = End(i, p, w)
    BY <1>1 DEF Whole, End
  <2> PICK e \in Nat : e = End(i, p, w)
    BY <2>2, Lengths DEF End
  <2>4. /\ e <= l /\ \A k \in i..e : stream[k] = [p |-> p, w |-> w + k - i]
        /\ IF e < l THEN stream[e + 1] = [p |-> p + 1, w |-> 1] ELSE p = n - 1
    BY <2>1, Lengths DEF Run
  <2>5. e < Len(stream')
    BY <1>1, <2>4 DEF HeadSize
  <2>6. \A k \in i..e : stream'[k] = [p |-> p, w |-> w + k - i]
    BY <1>1, <2>4
  <2>7. stream'[e + 1] = [p |-> p + 1, w |-> 1]
    <3>1. CASE e < l
      BY <1>1, <2>4, <3>1
    <3>2. CASE e = l
      <4>1. e + 1 \in l + 1..l + HeadSize + s /\ e + 1 - l = 1 /\ n = p + 1
        BY <1>1, <2>4, <3>2, SMTT(30) DEF HeadSize
      <4> QED
        BY <1>1, <4>1
    <3> QED
      BY <2>4, <3>1, <3>2
  <2>8. p \in 1..Len(sent')
    BY <1>1
  <2>9. Run(i, p, w)'
    BY <2>2, <2>3, <2>5, <2>6, <2>7, <2>8 DEF Run
  <2> QED
    BY <2>8, <2>9
<1>3. CASE i > l
  <2>1. n \in 1..Len(sent') /\ n = Len(sent') /\ i - l \in Nat
    BY <1>1, <1>3, Lengths
  <2>2. Whole(n)' = HeadSize + s /\ End(i, n, i - l)' = l + HeadSize + s
    BY <1>1 DEF Whole, End, HeadSize
  <2>3. i - l \in 1..HeadSize + s
    BY <1>1, <1>3 DEF HeadSize
  <2>4. ASSUME NEW k \in i..l + HeadSize + s
        PROVE  stream'[k] = [p |-> n, w |-> i - l + k - i]
    <3>1. k \in l + 1..l + HeadSize + s /\ i - l + k - i = k - l
      BY <1>1, <1>3 DEF HeadSize
    <3> QED
      BY <1>1, <3>1
  <2>5. Run(i, n, i - l)'
    BY <1>1, <2>1, <2>2, <2>3, <2>4 DEF Run, HeadSize
  <2> QED
    BY <2>1, <2>5
<1> QED
  BY <1>2, <1>3

LEMMA SendKeeps ==
  ASSUME TypeOK, NEW s \in Sizes, Send(s)
  PROVE  /\ TypeOK'
         /\ FirstInv => FirstInv'
         /\ CutInv => CutInv'
<1> PICK l \in Nat : l = Len(stream)
  BY Lengths
<1> PICK n \in Nat : n = Len(sent) + 1
  BY Lengths
<1>1. /\ stream' \in Seq(Word) /\ Len(stream') = l + HeadSize + s
      /\ \A k \in 1..l : stream'[k] = stream[k]
      /\ \A k \in l + 1..l + HeadSize + s : stream'[k] = [p |-> n, w |-> k - l]
      /\ Len(sent') = n /\ s \in Nat /\ s > 0 /\ sent'[n] = s /\ sent' \in Seq(Sizes)
      /\ \A p \in 1..n - 1 : sent'[p] = sent[p]
  BY SendWrites, Lengths
<1>2. n <= MaxSent /\ UNCHANGED <<link, arrived, stage, want, handled, torn, cut>>
  BY Lengths, FramingAssumption DEF Send
<1>3. Len(stream') > l /\ Len(stream') \in Nat
  BY <1>1 DEF HeadSize
<1>4. TypeOK'
  BY <1>1, <1>2, <1>3, Lengths DEF TypeOK
<1>5. ASSUME FirstInv PROVE FirstInv'
  <2>1. stream' # <<>>
    BY <1>1, <1>3
  <2>2. CASE stage = "head"
    <3>1. CASE stream = <<>>
      <4>1. l = 0 /\ n = Len(handled) + 1 /\ 1 \in l + 1..l + HeadSize + s
        BY <1>1, <1>5, <2>2, <3>1 DEF FirstInv, HeadSize
      <4>2. stream'[1] = [p |-> n, w |-> 1]
        BY <1>1, <4>1
      <4> QED
        BY <1>2, <2>1, <2>2, <4>1, <4>2 DEF FirstInv
    <3>2. CASE stream # <<>>
      <4>1. 1 \in 1..l
        BY <3>2, Words
      <4> QED
        BY <1>1, <1>2, <1>5, <2>1, <2>2, <3>2, <4>1 DEF FirstInv
    <3> QED
      BY <3>1, <3>2
  <2>3. CASE stage = "body"
    <3>1. /\ Len(handled) < Len(sent) /\ want = sent[Len(handled) + 1] /\ stream # <<>>
          /\ stream[1] = [p |-> Len(handled) + 1, w |-> HeadSize + 1]
      BY <1>5, <2>3 DEF FirstInv
    <3>2. 1 \in 1..l /\ Len(handled) + 1 \in 1..n - 1 /\ Len(handled) < n
      BY <3>1, Words, Lengths
    <3> QED
      BY <1>1, <1>2, <2>1, <2>3, <3>1, <3>2 DEF FirstInv
  <2> QED
    BY <2>2, <2>3 DEF TypeOK
<1>6. ASSUME CutInv PROVE CutInv'
  <2>1. ASSUME arrived > 0, Ends(stream[arrived])
        PROVE  Ends(stream[arrived])'
    <3>1. stream'[arrived] = stream[arrived] /\ arrived' = arrived
      BY <1>1, <1>2, <2>1, Lengths
    <3>2. stream[arrived].p \in 1..n - 1 /\ stream[arrived].w = HeadSize + sent[stream[arrived].p]
      BY <2>1, Bodies, Lengths DEF Ends
    <3>3. DOMAIN sent' = 1..n /\ stream[arrived].p \in 1..n
      BY <1>1, <3>2
    <3> QED
      BY <1>1, <3>1, <3>2, <3>3 DEF Ends
  <2> QED
    BY <1>2, <1>6, <2>1 DEF CutInv
<1> QED
  BY <1>4, <1>5, <1>6

\* A part of a packet goes to the end of the stream.
LEMMA SendPartlyTypes ==
  ASSUME TypeOK, NEW s \in Sizes, NEW k \in 1..HeadSize + s, SendPartly(s, k)
  PROVE  TypeOK'
<1>1. s \in Nat /\ k \in Nat /\ k <= HeadSize + s /\ HeadSize + s \in Nat
  BY FramingAssumption DEF HeadSize
<1>2. ASSUME NEW w \in 1..k
      PROVE  Packet(s)[w] \in Word
  <2>1. w \in 1..HeadSize + s /\ w \in Nat
    BY <1>1
  <2> QED
    BY <2>1, Lengths DEF Packet, Word
<1>3. SubSeq(Packet(s), 1, k) \in Seq(Word)
  BY <1>1, <1>2, SubSeqProperties
<1>4. stream \in Seq(Word) /\ stream' = stream \o SubSeq(Packet(s), 1, k)
  BY DEF TypeOK, SendPartly
<1>5. stream' \in Seq(Word) /\ Len(stream') = Len(stream) + Len(SubSeq(Packet(s), 1, k))
  BY <1>3, <1>4, Joined
<1>6. Len(SubSeq(Packet(s), 1, k)) \in Nat
  BY <1>3
<1>7. arrived \in 0..Len(stream')
  BY <1>5, <1>6, Lengths
<1> QED
  BY <1>5, <1>7 DEF SendPartly, TypeOK

LEMMA ArriveKeeps ==
  ASSUME TypeOK, NEW n \in 1..Len(stream), Arrive(n)
  PROVE  /\ TypeOK'
         /\ StreamInv => StreamInv'
         /\ FirstInv => FirstInv'
         /\ CutInv => CutInv'
<1>1. /\ arrived' = arrived + n /\ n > 0 /\ arrived + n <= Len(stream)
      /\ cut' = (cut \/ ~Ends(stream[arrived + n]))
      /\ UNCHANGED <<link, sent, stream, stage, want, handled, torn>>
  BY DEF Arrive
<1>2. arrived + n \in 0..Len(stream) /\ arrived + n > 0
  BY <1>1, Lengths
<1>3. TypeOK'
  BY <1>1, <1>2 DEF TypeOK
<1>4. StreamInv => StreamInv'
  <2>1. ASSUME NEW i, NEW p, NEW w
        PROVE  Run(i, p, w)' <=> Run(i, p, w)
    BY <1>1 DEF Run, End, Whole
  <2> QED
    BY <1>1, <2>1 DEF StreamInv
<1>5. FirstInv => FirstInv'
  BY <1>1 DEF FirstInv
<1>6. CutInv'
  BY <1>1, <1>2 DEF CutInv, Ends
<1> QED
  BY <1>3, <1>4, <1>5, <1>6

-----------------------------------------------------------------------------
\* A receive.
LEMMA ReceivedBound ==
  ASSUME TypeOK, NEW k \in Nat
  PROVE  Received(k) \in Nat /\ Received(k) <= arrived /\ Received(k) <= k
  BY Lengths DEF Received

LEMMA HeadTypes ==
  ASSUME TypeOK, ReadHead
  PROVE  TypeOK'
<1> PICK r \in Nat : r = Received(HeadSize) /\ r <= arrived
  BY ReceivedBound DEF HeadSize
<1>1. Take(r) /\ torn' = (torn \/ r < HeadSize)
      /\ UNCHANGED <<link, sent, handled, cut>>
  BY DEF ReadHead
<1>2. stream' \in Seq(Word) /\ arrived' \in 0..Len(stream')
  BY <1>1, TakeLeaves
<1>3. BodySizes(r) \subseteq Nat
  <2>1. \A q \in DOMAIN sent : BodySize(q) \in Nat
    BY Bodies DEF BodySize
  <2> QED
    BY <2>1, FramingAssumption DEF BodySizes
<1>4. stage' \in {"head", "body"} /\ want' \in Nat
  <2>1. \/ stage' = "body" /\ want' \in BodySizes(r)
        \/ stage' = "body" /\ want' \in (IF r = 3 THEN BodySizes(r) ELSE {0})
        \/ UNCHANGED <<stage, want>>
    BY DEF ReadHead
  <2> QED
    BY <1>3, <2>1 DEF TypeOK
<1> QED
  BY <1>1, <1>2, <1>4 DEF TypeOK

LEMMA BodyTypes ==
  ASSUME TypeOK, ReadBody
  PROVE  TypeOK'
<1> PICK r \in Nat : r = Received(want) /\ r <= arrived
  BY ReceivedBound, Lengths
<1>1. Take(r) /\ torn' = (torn \/ r < want) /\ stage' = "head" /\ want' = 0
      /\ UNCHANGED <<link, sent, cut>>
  BY DEF ReadBody
<1>2. stream' \in Seq(Word) /\ arrived' \in 0..Len(stream')
  BY <1>1, TakeLeaves
<1>3. Body(r) \in Nat
  <2>1. Body(r) \in DOMAIN sent \/ Body(r) = Junk
    BY DEF Body
  <2> QED
    BY <2>1, Bodies, Lengths DEF Junk
<1>4. handled' = handled \/ handled' = Append(handled, Body(r))
  BY DEF ReadBody, Handle
<1>5. handled' \in Seq(Nat)
  <2>1. handled \in Seq(Nat)
    BY DEF TypeOK
  <2>2. Append(handled, Body(r)) \in Seq(Nat)
    BY <1>3, <2>1
  <2> QED
    BY <1>4, <2>1, <2>2
<1> QED
  BY <1>1, <1>2, <1>5 DEF TypeOK

\* The first words are those of the packet after the last one handled.
LEMMA HeadFirst ==
  ASSUME TypeOK, StreamInv, FirstInv, stage = "head", stream # <<>>,
         NEW p \in Nat, p = Len(handled) + 1
  PROVE  /\ p \in 1..Len(sent) /\ Whole(p) \in Nat /\ Whole(p) > HeadSize
         /\ Whole(p) <= Len(stream)
         /\ \A k \in 1..Whole(p) : stream[k] = [p |-> p, w |-> k]
<1>1. stream[1] = [p |-> p, w |-> 1]
  BY DEF FirstInv
<1>2. 1 \in 1..Len(stream)
  BY Words
<1>3. PICK q \in 1..Len(sent), w \in Nat : Run(1, q, w)
  BY <1>2 DEF StreamInv
<1>4. Whole(q) \in Nat /\ Whole(q) > HeadSize
  <2>1. sent[q] \in Nat /\ sent[q] > 0
    BY Bodies
  <2> QED
    BY <2>1 DEF Whole, HeadSize
<1>5. /\ w \in 1..Whole(q) /\ End(1, q, w) <= Len(stream)
      /\ \A k \in 1..End(1, q, w) : stream[k] = [p |-> q, w |-> w + k - 1]
  BY <1>3 DEF Run
<1>6. 1 \in 1..End(1, q, w)
  BY <1>4, <1>5 DEF End
<1>7. stream[1] = [p |-> q, w |-> w + 1 - 1]
  BY <1>5, <1>6
<1>8. q = p /\ w + 1 - 1 = 1
  BY <1>1, <1>7
<1>9. w = 1
  BY <1>8
<1>10. End(1, q, w) = Whole(q)
  BY <1>4, <1>9 DEF End
<1>11. \A k \in 1..Whole(p) : stream[k] = [p |-> p, w |-> k]
  BY <1>4, <1>5, <1>8, <1>9, <1>10
<1> QED
  BY <1>4, <1>5, <1>8, <1>10, <1>11

LEMMA BodyFirst ==
  ASSUME TypeOK, StreamInv, FirstInv, stage = "body",
         NEW p \in Nat, p = Len(handled) + 1
  PROVE  /\ p \in 1..Len(sent) /\ want = sent[p] /\ want > 0 /\ want <= Len(stream)
         /\ \A k \in 1..want : stream[k] = [p |-> p, w |-> HeadSize + k]
         /\ IF want < Len(stream) THEN stream[want + 1] = [p |-> p + 1, w |-> 1]
                                  ELSE p = Len(sent)
<1>1. /\ stream[1] = [p |-> p, w |-> HeadSize + 1] /\ stream # <<>>
      /\ Len(handled) < Len(sent) /\ want = sent[p]
  BY DEF FirstInv
<1>2. 1 \in 1..Len(stream)
  BY <1>1, Words
<1>3. PICK q \in 1..Len(sent), w \in Nat : Run(1, q, w)
  BY <1>2 DEF StreamInv
<1>4. sent[q] \in Nat /\ sent[q] > 0
  BY Bodies
<1>5. /\ w \in 1..Whole(q) /\ End(1, q, w) <= Len(stream)
      /\ \A k \in 1..End(1, q, w) : stream[k] = [p |-> q, w |-> w + k - 1]
      /\ IF End(1, q, w) < Len(stream) THEN stream[End(1, q, w) + 1] = [p |-> q + 1, w |-> 1]
                                       ELSE q = Len(sent)
  BY <1>3 DEF Run
<1>6. 1 \in 1..End(1, q, w)
  BY <1>4, <1>5 DEF End, Whole, HeadSize
<1>7. stream[1] = [p |-> q, w |-> w + 1 - 1]
  BY <1>5, <1>6
<1>8. q = p /\ w + 1 - 1 = HeadSize + 1
  BY <1>1, <1>7
<1>9. w = HeadSize + 1
  BY <1>8
<1>10. End(1, q, w) = want
  BY <1>1, <1>4, <1>8, <1>9 DEF End, Whole, HeadSize
<1>11. \A k \in 1..want : w + k - 1 = HeadSize + k
  BY <1>9, Lengths DEF HeadSize
<1> QED
  BY <1>1, <1>4, <1>5, <1>8, <1>10, <1>11

-----------------------------------------------------------------------------
\* Without a cut, whole packets are there.
LEMMA HeadThere ==
  ASSUME TypeOK, StreamInv, FirstInv, CutInv, ~cut, stage = "head", arrived > 0
  PROVE  arrived > HeadSize
<1> PICK p \in Nat : p = Len(handled) + 1
  BY Lengths
<1>1. stream # <<>> /\ arrived \in 1..Len(stream)
  BY Words, Lengths
<1>2. /\ p \in 1..Len(sent) /\ Whole(p) > HeadSize /\ Whole(p) \in Nat
      /\ \A k \in 1..Whole(p) : stream[k] = [p |-> p, w |-> k]
  BY <1>1, HeadFirst
<1> SUFFICES ASSUME arrived <= HeadSize PROVE FALSE
  BY Lengths DEF HeadSize
<1>3. arrived \in 1..Whole(p)
  BY <1>1, <1>2 DEF HeadSize
<1>4. stream[arrived] = [p |-> p, w |-> arrived] /\ Ends(stream[arrived])
  BY <1>2, <1>3 DEF CutInv
<1>5. arrived = Whole(p)
  BY <1>4 DEF Ends, Whole
<1> QED
  BY <1>2, <1>5, Lengths DEF HeadSize

LEMMA BodyThere ==
  ASSUME TypeOK, StreamInv, FirstInv, CutInv, ~cut, stage = "body"
  PROVE  arrived >= want
<1> PICK p \in Nat : p = Len(handled) + 1
  BY Lengths
<1>1. /\ p \in 1..Len(sent) /\ want = sent[p] /\ want > 0
      /\ \A k \in 1..want : stream[k] = [p |-> p, w |-> HeadSize + k]
  BY BodyFirst
<1> SUFFICES ASSUME arrived < want PROVE FALSE
  BY Lengths
<1>2. arrived \in 1..want
  BY Lengths DEF CutInv
<1>3. stream[arrived] = [p |-> p, w |-> HeadSize + arrived] /\ Ends(stream[arrived])
  BY <1>1, <1>2, Lengths DEF CutInv
<1>4. HeadSize + arrived = HeadSize + sent[p]
  BY <1>3 DEF Ends
<1> QED
  BY <1>1, <1>4, Lengths DEF HeadSize

\* A receive of a head takes a whole head, or something was cut.
LEMMA HeadStep ==
  ASSUME TypeOK, StreamInv, FirstInv, CutInv, ReadHead
  PROVE  /\ torn' => torn \/ cut'
         /\ torn' \/ (StreamInv' /\ FirstInv' /\ CutInv')
<1> PICK r \in Nat : r = Received(HeadSize) /\ r <= arrived /\ r <= HeadSize
  BY ReceivedBound DEF HeadSize
<1> PICK p \in Nat : p = Len(handled) + 1
  BY Lengths
<1>1. /\ stage = "head" /\ arrived > 0 /\ Take(r) /\ torn' = (torn \/ r < HeadSize)
      /\ UNCHANGED <<link, sent, handled, cut>>
      /\ r = HeadSize => stage' = "body" /\ want' \in BodySizes(r)
  BY DEF ReadHead
<1>2. ~cut => arrived > HeadSize /\ r = HeadSize
  <2>1. ~cut => arrived > HeadSize
    BY <1>1, HeadThere
  <2> QED
    BY <2>1, Lengths DEF Received, HeadSize
<1>3. torn' => torn \/ cut'
  <2>1. (torn' <=> torn \/ r < HeadSize) /\ (cut' <=> cut)
    BY <1>1
  <2>2. r = HeadSize => ~(r < HeadSize)
    BY DEF HeadSize
  <2> QED
    BY <1>2, <2>1, <2>2
<1>4. CASE r < HeadSize
  BY <1>1, <1>3, <1>4
<1>5. CASE r = HeadSize
  <2>1. stream # <<>> /\ HeadSize <= arrived
    BY <1>1, <1>5, Words, Lengths DEF HeadSize
  <2>2. /\ p \in 1..Len(sent) /\ Whole(p) \in Nat /\ Whole(p) > HeadSize
        /\ Whole(p) <= Len(stream)
        /\ \A k \in 1..Whole(p) : stream[k] = [p |-> p, w |-> k]
    BY <1>1, <2>1, HeadFirst
  <2>3. StreamInv'
    BY <1>1, TakeStream
  <2>4. /\ Len(stream') = Len(stream) - HeadSize
        /\ \A k \in 1..Len(stream) - HeadSize : stream'[k] = stream[k + HeadSize]
        /\ arrived' = arrived - HeadSize /\ arrived' \in 0..Len(stream')
    BY <1>1, <1>5, TakeLeaves
  <2>5. IsNext(p, 1, r)
    <3>1. \A k \in 1..r : k \in 1..Whole(p) /\ 1 + k - 1 = k
      BY <1>5, <2>2 DEF HeadSize
    <3> QED
      BY <2>2, <3>1 DEF IsNext
  <2>6. ASSUME NEW q \in DOMAIN sent, IsNext(q, 1, r)
        PROVE  q = p
    <3>1. 1 \in 1..r /\ 1 \in 1..Whole(p)
      BY <1>5, <2>2 DEF HeadSize
    <3>2. stream[1] = [p |-> q, w |-> 1 + 1 - 1] /\ stream[1] = [p |-> p, w |-> 1]
      BY <2>2, <2>6, <3>1 DEF IsNext
    <3> QED
      BY <3>2
  <2>7. want' = sent[p]
    BY <1>1, <1>5, <2>2, <2>5, <2>6, Bodies DEF BodySizes, BodySize
  <2>8. 1 \in 1..Len(stream) - HeadSize /\ 1 + HeadSize \in 1..Whole(p)
    BY <2>2, Lengths DEF HeadSize
  <2>9. stream'[1] = [p |-> p, w |-> HeadSize + 1] /\ stream' # <<>>
    <3>1. stream'[1] = stream[1 + HeadSize] /\ Len(stream') > 0
      BY <2>4, <2>8
    <3> QED
      BY <2>2, <2>8, <3>1 DEF HeadSize
  <2>10. FirstInv'
    BY <1>1, <1>5, <2>2, <2>7, <2>9, Lengths DEF FirstInv
  <2>11. CutInv'
    <3> SUFFICES ASSUME ~cut PROVE arrived' > 0 /\ Ends(stream[arrived])'
      BY <1>1 DEF CutInv
    <3>1. arrived' > 0 /\ arrived' \in 1..Len(stream) - HeadSize /\ arrived' + HeadSize = arrived
      BY <1>2, <2>4, Lengths DEF HeadSize
    <3>2. stream'[arrived'] = stream[arrived] /\ Ends(stream[arrived])
      BY <1>1, <2>4, <3>1 DEF CutInv
    <3> QED
      BY <1>1, <3>1, <3>2 DEF Ends
  <2> QED
    BY <1>3, <2>3, <2>10, <2>11
<1> QED
  BY <1>4, <1>5 DEF HeadSize

\* A receive of a body takes a whole body, for which a handler is called with
\* the next packet, or something was cut.
LEMMA BodyStep ==
  ASSUME TypeOK, StreamInv, FirstInv, CutInv, ReadBody
  PROVE  /\ torn' => torn \/ cut'
         /\ torn' \/ (StreamInv' /\ FirstInv' /\ CutInv')
         /\ torn' \/ (Len(handled) < Len(sent) /\ handled' = Append(handled, Len(handled) + 1))
<1> PICK r \in Nat : r = Received(want) /\ r <= arrived /\ r <= want
  BY ReceivedBound, Lengths
<1> PICK p \in Nat : p = Len(handled) + 1
  BY Lengths
<1>1. /\ stage = "body" /\ Take(r) /\ torn' = (torn \/ r < want)
      /\ stage' = "head" /\ want' = 0 /\ UNCHANGED <<link, sent, cut>>
      /\ Handle(Body(r)) \/ (~NativeHandles(r) /\ UNCHANGED handled)
  BY DEF ReadBody
<1>2. /\ p \in 1..Len(sent) /\ want = sent[p] /\ want > 0 /\ want <= Len(stream)
      /\ \A k \in 1..want : stream[k] = [p |-> p, w |-> HeadSize + k]
      /\ IF want < Len(stream) THEN stream[want + 1] = [p |-> p + 1, w |-> 1]
                               ELSE p = Len(sent)
  BY <1>1, BodyFirst
<1>3. ~cut => r = want
  <2>1. ~cut => arrived >= want
    BY <1>1, BodyThere
  <2> QED
    BY <2>1, Lengths DEF Received
<1>4. torn' => torn \/ cut'
  <2>1. (torn' <=> torn \/ r < want) /\ (cut' <=> cut)
    BY <1>1
  <2>2. r = want => ~(r < want)
    BY Lengths
  <2> QED
    BY <1>3, <2>1, <2>2
<1>5. CASE r < want
  BY <1>1, <1>4, <1>5
<1>6. CASE r = want
  <2>1. StreamInv'
    BY <1>1, TakeStream
  <2>2. /\ stream' \in Seq(Word) /\ Len(stream') = Len(stream) - want
        /\ \A k \in 1..Len(stream) - want : stream'[k] = stream[k + want]
        /\ arrived' = arrived - want /\ arrived' \in 0..Len(stream')
    BY <1>1, <1>6, TakeLeaves
  <2>3. sent[p] = r /\ IsNext(p, HeadSize + 1, r)
    <3>1. \A k \in 1..r : HeadSize + 1 + k - 1 = HeadSize + k
      BY DEF HeadSize
    <3> QED
      BY <1>2, <1>6, <3>1 DEF IsNext
  <2>4. ASSUME NEW q \in DOMAIN sent, IsNext(q, HeadSize + 1, r)
        PROVE  q = p
    <3>1. 1 \in 1..want
      BY <1>2, Lengths
    <3>2. /\ stream[1] = [p |-> q, w |-> HeadSize + 1 + 1 - 1]
          /\ stream[1] = [p |-> p, w |-> HeadSize + 1]
      BY <1>2, <1>6, <2>4, <3>1 DEF IsNext
    <3> QED
      BY <3>2
  <2>5. Body(r) = p
    <3>1. p \in DOMAIN sent
      BY <1>2, Bodies
    <3>2. (CHOOSE q \in DOMAIN sent : IsNext(q, HeadSize + 1, r)) = p
      BY <2>3, <2>4, <3>1
    <3> QED
      BY <1>6, <2>3, <3>1, <3>2 DEF Body
  <2>6. handled' = Append(handled, p)
    BY <1>1, <1>2, <1>6, <2>5 DEF Handle, Junk, NativeHandles
  <2>7. Len(handled') = p /\ Len(handled) < Len(sent)
    <3>1. handled \in Seq(Nat)
      BY DEF TypeOK
    <3> QED
      BY <1>2, <2>6, <3>1, Lengths
  <2>8. FirstInv'
    <3>1. CASE want < Len(stream)
      <4>1. 1 \in 1..Len(stream) - want /\ 1 + want = want + 1 /\ Len(stream') > 0
        BY <2>2, <3>1, Lengths
      <4>2. stream'[1] = [p |-> p + 1, w |-> 1] /\ stream' # <<>>
        BY <1>2, <2>2, <3>1, <4>1
      <4> QED
        BY <1>1, <2>7, <4>2 DEF FirstInv
    <3>2. CASE ~ (want < Len(stream))
      <4>1. Len(stream') = 0 /\ p = Len(sent)
        BY <1>2, <2>2, <3>2, Lengths
      <4>2. stream' = <<>>
        BY <2>2, <4>1
      <4> QED
        BY <1>1, <2>7, <4>1, <4>2 DEF FirstInv
    <3> QED
      BY <3>1, <3>2
  <2>9. CutInv'
    <3> SUFFICES ASSUME ~cut, arrived' > 0 PROVE Ends(stream[arrived])'
      BY <1>1 DEF CutInv
    <3>1. arrived' \in 1..Len(stream) - want /\ arrived' + want = arrived /\ arrived > 0
      BY <2>2, Lengths
    <3>2. stream'[arrived'] = stream[arrived] /\ Ends(stream[arrived])
      BY <2>2, <3>1 DEF CutInv
    <3> QED
      BY <1>1, <3>2 DEF Ends
  <2> QED
    BY <1>4, <2>1, <2>6, <2>7, <2>8, <2>9
<1> QED
  BY <1>5, <1>6, Lengths

LEMMA Step == FrameInv /\ [Next]_vars => FrameInv'
<1> SUFFICES ASSUME FrameInv, [Next]_vars PROVE FrameInv'
  OBVIOUS
<1>1. TypeOK /\ (torn => cut) /\ (~torn => StreamInv /\ FirstInv /\ CutInv)
  BY DEF FrameInv
<1>2. ASSUME NEW s \in Sizes, Send(s) PROVE FrameInv'
  <2>1. UNCHANGED <<torn, cut>>
    BY <1>2 DEF Send
  <2> QED
    BY <1>1, <1>2, <2>1, SendStream, SendKeeps DEF FrameInv
<1>3. ASSUME NEW s \in Sizes, NEW k \in 1..HeadSize + s, SendPartly(s, k) PROVE FrameInv'
  <2>1. torn' /\ cut'
    BY <1>3 DEF SendPartly
  <2> QED
    BY <1>1, <1>3, <2>1, SendPartlyTypes DEF FrameInv
<1>4. ASSUME NEW n \in 1..Len(stream), Arrive(n) PROVE FrameInv'
  <2>1. torn' = torn /\ (cut => cut')
    BY <1>4 DEF Arrive
  <2> QED
    BY <1>1, <1>4, <2>1, ArriveKeeps DEF FrameInv
<1>5. CASE ReadHead
  <2>1. (torn => torn') /\ cut' = cut
    BY <1>5 DEF ReadHead
  <2>2. TypeOK'
    BY <1>1, <1>5, HeadTypes
  <2>3. ~torn => (torn' => cut') /\ (torn' \/ (StreamInv' /\ FirstInv' /\ CutInv'))
    BY <1>1, <1>5, HeadStep
  <2> QED
    BY <1>1, <2>1, <2>2, <2>3 DEF FrameInv
<1>6. CASE ReadBody
  <2>1. (torn => torn') /\ cut' = cut
    BY <1>6 DEF ReadBody
  <2>2. TypeOK'
    BY <1>1, <1>6, BodyTypes
  <2>3. ~torn => (torn' => cut') /\ (torn' \/ (StreamInv' /\ FirstInv' /\ CutInv'))
    BY <1>1, <1>6, BodyStep
  <2> QED
    BY <1>1, <2>1, <2>2, <2>3 DEF FrameInv
<1>7. CASE UNCHANGED vars
  <2>1. ASSUME NEW i, NEW p, NEW w
        PROVE  Run(i, p, w)' <=> Run(i, p, w)
    BY <1>7 DEF vars, Run, End, Whole
  <2>2. StreamInv => StreamInv'
    BY <1>7, <2>1 DEF vars, StreamInv
  <2>3. TypeOK' /\ (FirstInv => FirstInv') /\ (CutInv => CutInv')
    BY <1>1, <1>7 DEF vars, TypeOK, FirstInv, CutInv, Ends
  <2> QED
    BY <1>1, <1>7, <2>2, <2>3 DEF vars, FrameInv
<1> QED
  BY <1>2, <1>3, <1>4, <1>5, <1>6, <1>7 DEF Next, Read

LEMMA FrameInvariant == Spec => []FrameInv
  BY InitInv, Step, PTL DEF Spec

-----------------------------------------------------------------------------
(***************************************************************************)
(* Every variable keeps its type, for any lengths of bodies and any number *)
(* of packets (LoginServer.cpp, Network.js and Client.cpp, the receives).  *)
(***************************************************************************)
THEOREM TypeCorrect == Spec => []TypeOK
<1>1. FrameInv => TypeOK
  BY DEF FrameInv
<1> QED
  BY <1>1, FrameInvariant, PTL

(***************************************************************************)
(* No receive of any of the three readers comes up short as long as no     *)
(* piece ends inside a packet and none is written in part                  *)
(* (LoginServer.cpp:83-113, Network.js:626-650, Client.cpp:64-73).         *)
(***************************************************************************)
THEOREM TornByCutCorrect == Spec => []TornByCut
<1>1. FrameInv => TornByCut
  BY DEF FrameInv, TornByCut
<1> QED
  BY <1>1, FrameInvariant, PTL

LEMMA ChannelInit == Init => Channel!Init
  BY DEF Init, Channel!Init

LEMMA ChannelStep ==
  ASSUME FrameInv, [Next]_vars
  PROVE  [Channel!Next]_(Channel!vars)
<1>1. TypeOK /\ (~torn => StreamInv /\ FirstInv /\ CutInv)
  BY DEF FrameInv
<1>2. ASSUME NEW s \in Sizes, Send(s) PROVE Channel!Send
  <2>1. Len(sent)' = Len(sent) + 1
    BY <1>1, <1>2, SendWrites, Lengths
  <2> QED
    BY <1>2, <2>1 DEF Send, Channel!Send
<1>3. ASSUME NEW s \in Sizes, NEW k \in 1..HeadSize + s, SendPartly(s, k)
      PROVE  Channel!Tear
  BY <1>3 DEF SendPartly, Channel!Tear
<1>4. ASSUME NEW n \in 1..Len(stream), Arrive(n)
      PROVE  UNCHANGED Channel!vars
  BY <1>4 DEF Arrive, Channel!vars
<1>5. CASE ReadHead
  <2>1. UNCHANGED <<sent, handled>> /\ torn' \in BOOLEAN
    BY <1>5 DEF ReadHead
  <2>2. torn' \/ torn' = torn
    BY <1>1, <1>5, <2>1 DEF ReadHead, TypeOK
  <2> QED
    BY <2>1, <2>2, <1>1 DEF Channel!Next, Channel!Tear, Channel!vars, TypeOK
<1>6. CASE ReadBody
  <2>1. UNCHANGED sent /\ (torn => torn')
    BY <1>6 DEF ReadBody
  <2>2. TypeOK'
    BY <1>1, <1>6, BodyTypes
  <2>3. CASE torn'
    <3>1. handled' = handled \/ \E p : handled' = Append(handled, p)
      BY <1>6 DEF ReadBody, Handle
    <3>2. CASE handled' = handled
      BY <2>1, <2>2, <2>3, <3>2 DEF Channel!Next, Channel!Tear, TypeOK
    <3>3. ASSUME NEW p, handled' = Append(handled, p)
          PROVE  Channel!Astray
      <4>1. handled \in Seq(Nat) /\ handled' \in Seq(Nat)
        BY <1>1, <2>2 DEF TypeOK
      <4>2. Len(handled') = Len(handled) + 1
            /\ \A k \in 1..Len(handled) : handled'[k] = handled[k]
        BY <3>3, <4>1
      <4>3. handled = SubSeq(handled', 1, Len(handled))
        <5>1. \A k \in 1..Len(handled) : handled'[k] \in Nat
          BY <4>1, <4>2
        <5>2. /\ SubSeq(handled', 1, Len(handled)) \in Seq(Nat)
              /\ Len(SubSeq(handled', 1, Len(handled)))
                    = IF 1 <= Len(handled) THEN Len(handled) - 1 + 1 ELSE 0
              /\ \A k \in 1..Len(handled) - 1 + 1 :
                    SubSeq(handled', 1, Len(handled))[k] = handled'[1 + k - 1]
          BY <1>1, <5>1, SubSeqProperties, Lengths
        <5> DEFINE t == SubSeq(handled', 1, Len(handled))
        <5>3. t \in Seq(Nat) /\ Len(t) = Len(handled)
          BY <5>2, <1>1, Lengths
        <5>4. \A k \in 1..Len(handled) : t[k] = handled[k]
          <6>1. \A k \in 1..Len(handled) : k \in 1..Len(handled) - 1 + 1 /\ 1 + k - 1 = k
            BY <1>1, Lengths
          <6> QED
            BY <4>2, <5>2, <6>1
        <5> HIDE DEF t
        <5>5. t = handled
          BY <4>1, <5>3, <5>4
        <5> QED
          BY <5>5 DEF t
      <4> QED
        BY <2>1, <2>3, <4>1, <4>2, <4>3 DEF Channel!Astray
    <3> QED
      BY <3>1, <3>2, <3>3 DEF Channel!Next
  <2>4. CASE ~torn'
    <3>1. ~torn /\ Len(handled) < Len(sent) /\ handled' = Append(handled, Len(handled) + 1)
      BY <1>1, <1>6, <2>1, <2>4, BodyStep
    <3>2. torn' = torn
      BY <1>1, <2>2, <2>4, <3>1 DEF TypeOK
    <3> QED
      BY <2>1, <3>1, <3>2 DEF Channel!Next, Channel!Handle
  <2> QED
    BY <2>3, <2>4
<1>7. CASE UNCHANGED vars
  BY <1>7 DEF vars, Channel!vars
<1> QED
  BY <1>2, <1>3, <1>4, <1>5, <1>6, <1>7 DEF Next, Read, Channel!Next

(***************************************************************************)
(* The writing and reading of packets by all three programs implements the *)
(* channel their handlers rely on: whole packets, each once and in order,  *)
(* until a receive comes up short (the same lines).                        *)
(***************************************************************************)
THEOREM ChannelImplemented == Spec => ImplementsChannel
  BY FrameInvariant, ChannelInit, ChannelStep, PTL
     DEF Spec, ImplementsChannel, Channel!Spec
=============================================================================
