------------------------------ MODULE AudioProofs ------------------------------
(***************************************************************************)
(* Proofs about the audio path: what is played moves forward, for every    *)
(* capacity and number of packets, and a fade alone only fades, for every  *)
(* set of lengths, number of fades and length of a callback.               *)
(***************************************************************************)
EXTENDS AudioPipeline, Crossfade, TLAPS

Recorders == [on : BOOLEAN, frames : Nat, seq : Nat, pkt : Nat \cup {NoFrame}]
Decoders == [on : BOOLEAN, lastSeq : Nat \cup {NoFrame}, frame : Nat \cup {NoFrame},
             frames : Seq(Nat)]

AudioTypeOK ==
  /\ recorder \in Recorders
  /\ wire \in Seq(Nat)
  /\ inOrder \in BOOLEAN
  /\ decoder \in Decoders
  /\ ring \in Seq(Nat)
  /\ played \in [last : Nat \cup {NoFrame}, forward : BOOLEAN]

Ascending(s) == \A i, j \in 1 .. Len(s) : i < j => s[i] < s[j]
AllAbove(s, n) == \A i \in 1 .. Len(s) : s[i] > n
AllBelow(s, n) == \A i \in 1 .. Len(s) : s[i] < n
Apart(s, t) == \A i \in 1 .. Len(s), j \in 1 .. Len(t) : s[i] < t[j]

(* The numbers ascend from what was played to what will be sent next.      *)
PlayedOrder ==
  /\ played.last <= decoder.lastSeq
  /\ Ascending(ring) /\ AllAbove(ring, played.last) /\ AllBelow(ring, decoder.lastSeq + 1)

DecodedOrder ==
  /\ Ascending(decoder.frames) /\ AllAbove(decoder.frames, played.last)
  /\ AllBelow(decoder.frames, decoder.lastSeq + 1)
  /\ Apart(ring, decoder.frames)
  /\ decoder.frame # NoFrame =>
       /\ played.last < decoder.frame /\ decoder.frame <= decoder.lastSeq
       /\ AllBelow(ring, decoder.frame) /\ AllBelow(decoder.frames, decoder.frame)

WireOrder ==
  /\ decoder.lastSeq < recorder.seq
  /\ Ascending(wire) /\ AllAbove(wire, decoder.lastSeq) /\ AllBelow(wire, recorder.seq)
  /\ recorder.pkt # NoFrame =>
       /\ decoder.lastSeq < recorder.pkt /\ recorder.pkt < recorder.seq
       /\ AllBelow(wire, recorder.pkt)

Ordered == inOrder => played.forward /\ PlayedOrder /\ DecodedOrder /\ WireOrder

AudioInv == AudioTypeOK /\ Ordered

-----------------------------------------------------------------------------
(* What Tail and Append keep of an order. *)

LEMMA TailKeeps ==
  ASSUME NEW s \in Seq(Nat), s # <<>>, NEW n \in Int
  PROVE  /\ Tail(s) \in Seq(Nat) /\ Head(s) \in Nat
         /\ Ascending(s) => Ascending(Tail(s)) /\ AllAbove(Tail(s), Head(s))
         /\ AllAbove(s, n) => AllAbove(Tail(s), n) /\ Head(s) > n
         /\ AllBelow(s, n) => AllBelow(Tail(s), n) /\ Head(s) < n
<1>1. Tail(s) \in Seq(Nat) /\ Len(s) \in Nat \ {0} /\ Len(Tail(s)) = Len(s) - 1
      /\ Head(s) = s[1] /\ s[1] \in Nat
  OBVIOUS
<1>2. \A i \in 1 .. Len(Tail(s)) : Tail(s)[i] = s[i + 1] /\ i + 1 \in 1 .. Len(s) /\ 1 < i + 1
  BY <1>1
<1>3. 1 \in 1 .. Len(s)
  BY <1>1
<1>4. ASSUME Ascending(s) PROVE Ascending(Tail(s)) /\ AllAbove(Tail(s), Head(s))
  <2>1. AllAbove(Tail(s), Head(s))
    BY <1>1, <1>2, <1>3, <1>4 DEF Ascending, AllAbove
  <2>2. Ascending(Tail(s))
    <3> SUFFICES ASSUME NEW i \in 1 .. Len(Tail(s)), NEW j \in 1 .. Len(Tail(s)), i < j
                 PROVE  Tail(s)[i] < Tail(s)[j]
      BY DEF Ascending
    <3>1. i + 1 < j + 1
      BY <1>1
    <3>2. QED BY <1>2, <1>4, <3>1 DEF Ascending
  <2>3. QED BY <2>1, <2>2
<1>5. AllAbove(s, n) => AllAbove(Tail(s), n) /\ Head(s) > n
  BY <1>1, <1>2, <1>3 DEF AllAbove
<1>6. AllBelow(s, n) => AllBelow(Tail(s), n) /\ Head(s) < n
  BY <1>1, <1>2, <1>3 DEF AllBelow
<1>7. QED BY <1>1, <1>4, <1>5, <1>6

LEMMA AppendKeeps ==
  ASSUME NEW s \in Seq(Nat), NEW m \in Nat, NEW n \in Int
  PROVE  /\ Append(s, m) \in Seq(Nat)
         /\ Ascending(s) /\ AllBelow(s, m) => Ascending(Append(s, m))
         /\ AllAbove(s, n) /\ m > n => AllAbove(Append(s, m), n)
         /\ AllBelow(s, n) /\ m < n => AllBelow(Append(s, m), n)
<1>1. /\ Append(s, m) \in Seq(Nat) /\ Len(s) \in Nat /\ Len(Append(s, m)) = Len(s) + 1
      /\ \A i \in 1 .. Len(s) : Append(s, m)[i] = s[i] /\ s[i] \in Nat
      /\ Append(s, m)[Len(s) + 1] = m
  OBVIOUS
<1>2. \A i \in 1 .. Len(Append(s, m)) : i \in 1 .. Len(s) \/ i = Len(s) + 1
  BY <1>1
<1>3. ASSUME Ascending(s), AllBelow(s, m) PROVE Ascending(Append(s, m))
  <2> SUFFICES ASSUME NEW i \in 1 .. Len(Append(s, m)), NEW j \in 1 .. Len(Append(s, m)), i < j
               PROVE  Append(s, m)[i] < Append(s, m)[j]
    BY DEF Ascending
  <2>1. i \in 1 .. Len(s)
    BY <1>1
  <2>2. CASE j \in 1 .. Len(s)
    BY <1>1, <1>3, <2>1, <2>2 DEF Ascending
  <2>3. CASE j = Len(s) + 1
    BY <1>1, <1>3, <2>1, <2>3 DEF AllBelow
  <2>4. QED BY <1>2, <2>2, <2>3
<1>4. AllAbove(s, n) /\ m > n => AllAbove(Append(s, m), n)
  BY <1>1, <1>2 DEF AllAbove
<1>5. AllBelow(s, n) /\ m < n => AllBelow(Append(s, m), n)
  BY <1>1, <1>2 DEF AllBelow
<1>6. QED BY <1>1, <1>3, <1>4, <1>5

(* Elements move from the head of one sequence to the end of the other. *)
LEMMA ApartKeeps ==
  ASSUME NEW s \in Seq(Nat), NEW t \in Seq(Nat), NEW m \in Nat
  PROVE  /\ t # <<>> /\ Apart(s, t) =>
              Apart(s, Tail(t)) /\ AllBelow(s, Head(t))
         /\ s # <<>> /\ Apart(s, t) => Apart(Tail(s), t)
         /\ Apart(s, t) /\ AllAbove(t, m) => Apart(Append(s, m), t)
         /\ Apart(s, t) /\ AllBelow(s, m) => Apart(s, Append(t, m))
<1>1. \A u \in Seq(Nat) : u # <<>> =>
        /\ 1 \in 1 .. Len(u) /\ Head(u) = u[1]
        /\ \A i \in 1 .. Len(Tail(u)) : Tail(u)[i] = u[i + 1] /\ i + 1 \in 1 .. Len(u)
  OBVIOUS
<1>2. \A u \in Seq(Nat) :
        \A i \in 1 .. Len(Append(u, m)) :
          \/ i \in 1 .. Len(u) /\ Append(u, m)[i] = u[i]
          \/ Append(u, m)[i] = m
  OBVIOUS
<1>3. t # <<>> /\ Apart(s, t) => Apart(s, Tail(t)) /\ AllBelow(s, Head(t))
  BY <1>1 DEF Apart, AllBelow
<1>4. s # <<>> /\ Apart(s, t) => Apart(Tail(s), t)
  BY <1>1 DEF Apart
<1>5. Apart(s, t) /\ AllAbove(t, m) => Apart(Append(s, m), t)
  BY <1>2 DEF Apart, AllAbove
<1>6. Apart(s, t) /\ AllBelow(s, m) => Apart(s, Append(t, m))
  BY <1>2 DEF Apart, AllBelow
<1>7. QED BY <1>3, <1>4, <1>5, <1>6

(* A bound may be moved away. *)
LEMMA Weaker ==
  ASSUME NEW s \in Seq(Nat), NEW m \in Int, NEW n \in Int, m <= n
  PROVE  (AllAbove(s, n) => AllAbove(s, m)) /\ (AllBelow(s, m) => AllBelow(s, n))
<1>1. \A i \in 1 .. Len(s) : s[i] \in Nat
  OBVIOUS
<1>2. QED BY <1>1 DEF AllAbove, AllBelow

-----------------------------------------------------------------------------
(* The invariant. *)

LEMMA AudioInvInit == AudioInit => AudioInv
<1> SUFFICES ASSUME AudioInit PROVE AudioInv
  OBVIOUS
<1>1. recorder.seq = 0 /\ recorder.pkt = NoFrame /\ wire = <<>> /\ ring = <<>>
      /\ decoder.lastSeq = NoFrame /\ decoder.frame = NoFrame /\ decoder.frames = <<>>
      /\ played.last = NoFrame
  BY DEF AudioInit
<1>2. played.forward
  BY DEF AudioInit
<1>3. inOrder \in BOOLEAN
  BY DEF AudioInit
<1>4. AudioTypeOK
  <2>1. recorder \in Recorders
    BY DEF AudioInit, Recorders
  <2>2. played \in [last : Nat \cup {NoFrame}, forward : BOOLEAN]
    BY DEF AudioInit
  <2>3. decoder \in Decoders
    BY DEF AudioInit, Decoders
  <2>4. QED BY <1>1, <1>3, <2>1, <2>2, <2>3 DEF AudioTypeOK
<1>5. PlayedOrder /\ DecodedOrder /\ WireOrder
  BY <1>1 DEF PlayedOrder, DecodedOrder, WireOrder, Ascending, AllAbove, AllBelow, Apart, NoFrame
<1>6. QED BY <1>2, <1>4, <1>5 DEF AudioInv, Ordered

LEMMA AudioTypeStep ==
  ASSUME AudioTypeOK, AudioNext
  PROVE  AudioTypeOK'
<1> USE DEF AudioTypeOK
<1>1. CASE Record \/ Encode \/ EncodedSend \/ StopSender
  <2>1. recorder' \in Recorders
    <3>1. CASE Record
      <4>1. recorder' = [recorder EXCEPT !.frames = recorder.frames + 1]
        BY <3>1 DEF Record
      <4>2. QED BY <4>1 DEF Recorders
    <3>2. CASE Encode
      <4>1. recorder.frames - 1 \in Nat /\ recorder.seq \in Nat /\ recorder.seq + 1 \in Nat
        BY <3>2 DEF Encode, Recorders
      <4>2. \/ recorder' = [recorder EXCEPT !.frames = recorder.frames - 1,
                                            !.pkt = recorder.seq, !.seq = recorder.seq + 1]
            \/ recorder' = [recorder EXCEPT !.frames = recorder.frames - 1]
        BY <3>2 DEF Encode
      <4>3. QED BY <4>1, <4>2 DEF Recorders
    <3>3. CASE EncodedSend
      <4>1. recorder' = [recorder EXCEPT !.pkt = NoFrame]
        BY <3>3 DEF EncodedSend
      <4>2. QED BY <4>1 DEF Recorders
    <3>4. CASE StopSender
      <4>1. recorder' = [recorder EXCEPT !.on = FALSE, !.frames = 0, !.pkt = NoFrame]
        BY <3>4 DEF StopSender
      <4>2. QED BY <4>1 DEF Recorders
    <3>5. QED BY <1>1, <3>1, <3>2, <3>3, <3>4
  <2>2. wire' \in Seq(Nat)
    <3>1. wire' = wire \/ (recorder.pkt # NoFrame /\ wire' = Append(wire, recorder.pkt))
      BY <1>1 DEF Record, Encode, EncodedSend, StopSender
    <3>2. recorder.pkt # NoFrame => recorder.pkt \in Nat
      BY DEF Recorders
    <3>3. \A n \in Nat : Append(wire, n) \in Seq(Nat)
      OBVIOUS
    <3>4. QED BY <3>1, <3>2, <3>3
  <2>3. UNCHANGED <<inOrder, decoder, ring, played>>
    BY <1>1 DEF Record, Encode, EncodedSend, StopSender
  <2>4. QED BY <2>1, <2>2, <2>3
<1>2. CASE WireFault
  <2>1. wire' \in Seq(Nat)
    <3>1. CASE wire # <<>> /\ wire' = Tail(wire)
      BY <3>1
    <3>2. CASE Len(wire) > 1 /\ wire' = Append(Tail(wire), Head(wire))
      <4>1. Tail(wire) \in Seq(Nat) /\ Head(wire) \in Nat
        BY <3>2
      <4>2. QED BY <3>2, <4>1
    <3>3. CASE Len(wire) > 0 /\ wire' = <<Head(wire)>> \o wire
      <4>1. <<Head(wire)>> \in Seq(Nat)
        BY <3>3
      <4>2. QED BY <3>3, <4>1
    <3>4. QED BY <1>2, <3>1, <3>2, <3>3 DEF WireFault
  <2>2. inOrder' \in BOOLEAN
    BY <1>2 DEF WireFault
  <2>3. QED BY <1>2, <2>1, <2>2 DEF WireFault
<1>3. CASE Decode
  <2>1. Head(wire) \in Nat /\ wire' \in Seq(Nat)
    BY <1>3 DEF Decode
  <2>2. PICK f \in {NoFrame, IF Lost(Head(wire), decoder.lastSeq) THEN Head(wire) - 1 ELSE Head(wire)} :
          decoder' = [decoder EXCEPT !.lastSeq = Head(wire), !.frame = f]
    BY <1>3 DEF Decode
  <2>3. f \in Nat \cup {NoFrame}
    BY <2>1, <2>2 DEF Lost, Decoders, NoFrame
  <2>4. decoder' \in Decoders
    BY <2>1, <2>2, <2>3 DEF Decoders
  <2>5. QED BY <1>3, <2>1, <2>4 DEF Decode
<1>4. CASE DecodedSend
  <2>1. decoder.frame \in Nat /\ decoder.frames \in Seq(Nat)
    BY <1>4 DEF DecodedSend, Decoders
  <2>2. decoder' = [decoder EXCEPT !.frame = NoFrame,
                                   !.frames = Append(decoder.frames, decoder.frame)]
    BY <1>4 DEF DecodedSend
  <2>3. Append(decoder.frames, decoder.frame) \in Seq(Nat)
    BY <2>1
  <2>4. decoder' \in Decoders
    BY <2>2, <2>3 DEF Decoders
  <2>5. QED BY <1>4, <2>4 DEF DecodedSend
<1>5. CASE FillRing
  <2>1. /\ decoder.frames \in Seq(Nat) /\ Head(decoder.frames) \in Nat
        /\ Tail(decoder.frames) \in Seq(Nat)
    BY <1>5 DEF FillRing, Decoders
  <2>2. decoder' = [decoder EXCEPT !.frames = Tail(decoder.frames)]
    BY <1>5 DEF FillRing
  <2>3. decoder' \in Decoders
    BY <2>1, <2>2 DEF Decoders
  <2>4. ring' \in Seq(Nat)
    BY <1>5, <2>1 DEF FillRing
  <2>5. QED BY <1>5, <2>3, <2>4 DEF FillRing
<1>6. CASE StopReceiver
  <2>1. decoder' = [decoder EXCEPT !.on = FALSE, !.frame = NoFrame, !.frames = <<>>]
    BY <1>6 DEF StopReceiver
  <2>2. <<>> \in Seq(Nat) /\ FALSE \in BOOLEAN
    OBVIOUS
  <2>3. decoder' \in Decoders
    BY <2>1, <2>2 DEF Decoders
  <2>4. QED BY <1>6, <2>3 DEF StopReceiver
<1>7. CASE Play
  <2>1. Head(ring) \in Nat /\ ring' \in Seq(Nat)
    BY <1>7 DEF Play
  <2>2. played' \in [last : Nat \cup {NoFrame}, forward : BOOLEAN]
    BY <1>7, <2>1 DEF Play
  <2>3. QED BY <1>7, <2>1, <2>2 DEF Play
<1>8. QED
  BY <1>1, <1>2, <1>3, <1>4, <1>5, <1>6, <1>7 DEF AudioNext

(* Recording, encoding and sending add at the top, and the network loses   *)
(* from the bottom.                                                        *)
LEMMA WireStep ==
  ASSUME AudioTypeOK, Ordered, inOrder',
         Record \/ Encode \/ EncodedSend \/ StopSender \/ WireFault
  PROVE  played'.forward /\ PlayedOrder' /\ DecodedOrder' /\ WireOrder'
<1> USE DEF AudioTypeOK, Recorders, Decoders, NoFrame
<1>1. UNCHANGED <<decoder, ring, played>> /\ inOrder
  BY DEF Record, Encode, EncodedSend, StopSender, WireFault
<1>2. played.forward /\ PlayedOrder /\ DecodedOrder /\ WireOrder
  BY <1>1 DEF Ordered
<1>3. played'.forward /\ PlayedOrder' /\ DecodedOrder'
  BY <1>1, <1>2 DEF PlayedOrder, DecodedOrder
<1>4. WireOrder'
  <2>1. CASE Record
    BY <1>1, <1>2, <2>1 DEF Record, WireOrder
  <2>2. CASE Encode
    <3>1. AllBelow(wire, recorder.seq + 1)
      BY <1>2, Weaker DEF WireOrder
    <3>2. \/ recorder'.seq = recorder.seq + 1 /\ recorder'.pkt = recorder.seq
          \/ recorder'.seq = recorder.seq /\ recorder'.pkt = NoFrame
      <4>1. CASE recorder' = [recorder EXCEPT !.frames = @ - 1, !.pkt = recorder.seq, !.seq = @ + 1]
        BY <4>1
      <4>2. CASE recorder' = [recorder EXCEPT !.frames = @ - 1] /\ recorder.pkt = NoFrame
        BY <4>2
      <4>3. QED BY <2>2, <4>1, <4>2 DEF Encode
    <3>3. wire' = wire /\ decoder' = decoder
      BY <2>2 DEF Encode
    <3>4. QED BY <1>2, <3>1, <3>2, <3>3 DEF WireOrder
  <2>3. CASE EncodedSend
    <3>1. /\ recorder.pkt \in Nat /\ wire' = Append(wire, recorder.pkt)
          /\ recorder'.pkt = NoFrame /\ recorder'.seq = recorder.seq
      BY <2>3 DEF EncodedSend
    <3>2. Ascending(wire') /\ AllAbove(wire', decoder.lastSeq) /\ AllBelow(wire', recorder.seq)
      BY <1>2, <3>1, AppendKeeps DEF WireOrder
    <3>3. QED BY <1>1, <1>2, <3>1, <3>2 DEF WireOrder
  <2>4. CASE StopSender
    BY <1>1, <1>2, <2>4 DEF StopSender, WireOrder
  <2>5. CASE WireFault
    <3>1. wire # <<>> /\ wire' = Tail(wire) /\ recorder' = recorder
      BY <2>5 DEF WireFault
    <3>2. Ascending(wire') /\ AllAbove(wire', decoder.lastSeq) /\ AllBelow(wire', recorder.seq)
          /\ (recorder.pkt # NoFrame => AllBelow(wire', recorder.pkt))
      BY <1>2, <3>1, TailKeeps DEF WireOrder
    <3>3. QED BY <1>1, <1>2, <3>1, <3>2 DEF WireOrder
  <2>6. QED BY <2>1, <2>2, <2>3, <2>4, <2>5
<1>5. QED BY <1>3, <1>4

(* A packet becomes the last one, and its frame, or the one before it, is  *)
(* above all frames there are.                                             *)
LEMMA DecodeStep ==
  ASSUME AudioTypeOK, Ordered, inOrder', Decode
  PROVE  played'.forward /\ PlayedOrder' /\ DecodedOrder' /\ WireOrder'
<1> USE DEF AudioTypeOK, Recorders, Decoders, NoFrame
<1> DEFINE seq == Head(wire)
<1>1. UNCHANGED <<recorder, ring, played>> /\ wire # <<>> /\ wire' = Tail(wire) /\ inOrder
  BY DEF Decode
<1>2. played.forward /\ PlayedOrder /\ DecodedOrder /\ WireOrder
  BY <1>1 DEF Ordered
<1>3. /\ seq \in Nat /\ seq > decoder.lastSeq /\ seq < recorder.seq
      /\ Ascending(wire') /\ AllAbove(wire', seq) /\ AllBelow(wire', recorder.seq)
      /\ recorder.pkt # NoFrame => AllBelow(wire', recorder.pkt) /\ seq < recorder.pkt
  BY <1>1, <1>2, TailKeeps DEF WireOrder
<1>4. PICK f \in {NoFrame, IF Lost(seq, decoder.lastSeq) THEN seq - 1 ELSE seq} :
        decoder' = [decoder EXCEPT !.lastSeq = seq, !.frame = f]
  BY DEF Decode
<1>5. f # NoFrame => f \in Nat /\ f <= seq /\ f >= decoder.lastSeq + 1
  BY <1>3, <1>4 DEF Lost
<1>6. /\ decoder'.lastSeq = seq /\ decoder'.frame = f /\ decoder'.frames = decoder.frames
  BY <1>4
<1>7. WireOrder'
  BY <1>1, <1>2, <1>3, <1>6 DEF WireOrder
<1>8. AllBelow(ring, seq + 1) /\ AllBelow(decoder.frames, seq + 1)
  BY <1>2, <1>3, Weaker DEF PlayedOrder, DecodedOrder
<1>9. PlayedOrder'
  BY <1>1, <1>2, <1>3, <1>6, <1>8 DEF PlayedOrder
<1>10. f # NoFrame => AllBelow(ring, f) /\ AllBelow(decoder.frames, f)
  BY <1>2, <1>5, Weaker DEF PlayedOrder, DecodedOrder
<1>11. DecodedOrder'
  <2>1. f # NoFrame => played.last < f
    BY <1>2, <1>5 DEF PlayedOrder
  <2>2. QED BY <1>1, <1>2, <1>5, <1>6, <1>8, <1>10, <2>1 DEF DecodedOrder
<1>12. QED BY <1>1, <1>2, <1>7, <1>9, <1>11

(* Frames move on towards the callback, or are dropped. *)
LEMMA FrameStep ==
  ASSUME AudioTypeOK, Ordered, inOrder', DecodedSend \/ FillRing \/ StopReceiver
  PROVE  played'.forward /\ PlayedOrder' /\ DecodedOrder' /\ WireOrder'
<1> USE DEF AudioTypeOK, Recorders, Decoders, NoFrame
<1>1. UNCHANGED <<recorder, wire, played>> /\ decoder'.lastSeq = decoder.lastSeq /\ inOrder
  BY DEF DecodedSend, FillRing, StopReceiver
<1>2. played.forward /\ PlayedOrder /\ DecodedOrder /\ WireOrder
  BY <1>1 DEF Ordered
<1>3. played'.forward /\ WireOrder'
  BY <1>1, <1>2 DEF WireOrder
<1>4. CASE DecodedSend
  <2>1. /\ decoder.frame \in Nat /\ ring' = ring /\ decoder'.frame = NoFrame
        /\ decoder'.frames = Append(decoder.frames, decoder.frame)
    BY <1>4 DEF DecodedSend
  <2>2. PlayedOrder'
    BY <1>1, <1>2, <2>1 DEF PlayedOrder
  <2>3. /\ Ascending(decoder'.frames) /\ AllAbove(decoder'.frames, played.last)
        /\ AllBelow(decoder'.frames, decoder.lastSeq + 1)
    BY <1>2, <2>1, AppendKeeps DEF DecodedOrder
  <2>4. Apart(ring, decoder'.frames)
    BY <1>2, <2>1, ApartKeeps DEF DecodedOrder
  <2>5. QED BY <1>1, <1>2, <1>3, <2>1, <2>2, <2>3, <2>4 DEF DecodedOrder
<1>5. CASE FillRing
  <2> DEFINE head == Head(decoder.frames)
  <2>1. /\ decoder.frames # <<>> /\ decoder'.frames = Tail(decoder.frames)
        /\ decoder'.frame = decoder.frame /\ ring' \in {Append(ring, head), ring}
    BY <1>5 DEF FillRing
  <2>2. /\ head \in Nat /\ head > played.last /\ head < decoder.lastSeq + 1
        /\ decoder.frame # NoFrame => head < decoder.frame
        /\ AllAbove(decoder'.frames, head)
    BY <1>2, <2>1, TailKeeps DEF DecodedOrder
  <2>3. AllBelow(ring, head) /\ Apart(ring, decoder'.frames) /\ decoder'.frames \in Seq(Nat)
    BY <1>2, <2>1, ApartKeeps, TailKeeps DEF DecodedOrder
  <2>4. /\ Ascending(decoder'.frames) /\ AllAbove(decoder'.frames, played.last)
        /\ AllBelow(decoder'.frames, decoder.lastSeq + 1)
        /\ decoder.frame # NoFrame => AllBelow(decoder'.frames, decoder.frame)
    BY <1>2, <2>1, TailKeeps DEF DecodedOrder
  <2>a. ring \in Seq(Nat) /\ played.last \in Int /\ decoder.lastSeq + 1 \in Int
        /\ decoder.frame \in Int
    OBVIOUS
  <2>5. /\ Ascending(ring') /\ AllAbove(ring', played.last)
        /\ AllBelow(ring', decoder.lastSeq + 1)
    <3>1. Ascending(Append(ring, head))
      BY <1>2, <2>2, <2>3, <2>a, AppendKeeps DEF PlayedOrder
    <3>2. AllAbove(Append(ring, head), played.last)
      BY <1>2, <2>2, <2>a, AppendKeeps DEF PlayedOrder
    <3>3. AllBelow(Append(ring, head), decoder.lastSeq + 1)
      BY <1>2, <2>2, <2>a, AppendKeeps DEF PlayedOrder
    <3>4. QED BY <1>2, <2>1, <3>1, <3>2, <3>3 DEF PlayedOrder
  <2>6. decoder.frame # NoFrame => AllBelow(ring', decoder.frame)
    <3>1. decoder.frame # NoFrame => AllBelow(Append(ring, head), decoder.frame)
      BY <1>2, <2>2, <2>a, AppendKeeps DEF DecodedOrder
    <3>2. QED BY <1>2, <2>1, <3>1 DEF DecodedOrder
  <2>7. Apart(ring', decoder'.frames)
    <3>1. Apart(Append(ring, head), decoder'.frames)
      BY <2>2, <2>3, <2>a, ApartKeeps
    <3>2. QED BY <2>1, <2>3, <3>1
  <2>8. PlayedOrder'
    BY <1>1, <1>2, <2>5 DEF PlayedOrder
  <2>9. DecodedOrder'
    BY <1>1, <1>2, <2>1, <2>4, <2>6, <2>7 DEF DecodedOrder
  <2>10. QED BY <1>3, <2>8, <2>9
<1>6. CASE StopReceiver
  <2>1. ring' = <<>> /\ decoder'.frames = <<>> /\ decoder'.frame = NoFrame
    BY <1>6 DEF StopReceiver
  <2>2. QED
    BY <1>1, <1>2, <1>3, <2>1
       DEF PlayedOrder, DecodedOrder, Ascending, AllAbove, AllBelow, Apart
<1>7. QED BY <1>4, <1>5, <1>6

(* The frame played was above the last one, and all others are above it. *)
LEMMA PlayStep ==
  ASSUME AudioTypeOK, Ordered, inOrder', Play
  PROVE  played'.forward /\ PlayedOrder' /\ DecodedOrder' /\ WireOrder'
<1> USE DEF AudioTypeOK, Recorders, Decoders, NoFrame
<1> DEFINE head == Head(ring)
<1>1. /\ UNCHANGED <<recorder, wire, decoder>> /\ inOrder /\ ring # <<>> /\ ring' = Tail(ring)
      /\ played' = [last |-> head, forward |-> played.forward /\ head > played.last]
  BY DEF Play
<1>2. played.forward /\ PlayedOrder /\ DecodedOrder /\ WireOrder
  BY <1>1 DEF Ordered
<1>3. /\ head \in Nat /\ head > played.last /\ head < decoder.lastSeq + 1
      /\ Ascending(ring') /\ AllAbove(ring', head) /\ AllBelow(ring', decoder.lastSeq + 1)
  BY <1>1, <1>2, TailKeeps DEF PlayedOrder
<1>4. /\ Apart(ring', decoder.frames)
      /\ decoder.frame # NoFrame => AllBelow(ring', decoder.frame) /\ head < decoder.frame
  BY <1>1, <1>2, ApartKeeps, TailKeeps DEF DecodedOrder
<1>5. AllAbove(decoder.frames, head)
  <2>1. 1 \in 1 .. Len(ring) /\ head = ring[1]
    BY <1>1
  <2>2. QED BY <1>2, <2>1 DEF DecodedOrder, Apart, AllAbove
<1>6. played'.last = head
  BY <1>1
<1>7. played'.forward
  BY <1>1, <1>2, <1>3
<1>8. PlayedOrder' /\ DecodedOrder' /\ WireOrder'
  BY <1>1, <1>2, <1>3, <1>4, <1>5, <1>6 DEF PlayedOrder, DecodedOrder, WireOrder
<1>9. QED BY <1>7, <1>8

(* The capture callback, the encode, decode and fill tasks, the network    *)
(* and the output callback together: while the network keeps the order,    *)
(* nothing is played twice or after something later.                       *)
THEOREM AudioPlaysForward == AudioSpec => []PlaysForward
<1>1. AudioInit => AudioInv
  BY AudioInvInit
<1>2. AudioInv /\ [AudioNext]_audioVars => AudioInv'
  <2>1. ASSUME AudioInv, AudioNext PROVE AudioInv'
    BY <2>1, AudioTypeStep, WireStep, DecodeStep, FrameStep, PlayStep
       DEF AudioInv, Ordered, AudioNext
  <2>2. ASSUME AudioInv, UNCHANGED audioVars PROVE AudioInv'
    BY <2>2 DEF audioVars, AudioInv, AudioTypeOK, Ordered, PlayedOrder, DecodedOrder, WireOrder
  <2>3. QED BY <2>1, <2>2
<1>3. AudioInv => PlaysForward
  BY DEF AudioInv, Ordered, PlaysForward
<1>4. QED BY <1>1, <1>2, <1>3, PTL DEF AudioSpec

-----------------------------------------------------------------------------
(* THE CROSSFADE *)

Stores == [of : Nat, value : Nat]

FadeTypeOK ==
  /\ total \in Seq(Nat)
  /\ remaining \in Seq(Stores)
  /\ trigger \in [left : Nat, stored : BOOLEAN]
  /\ callback \in [at : {"rest", "total", "scale"}, total : Nat, remaining : Nat]
  /\ callback.total \in 1 .. Len(total) /\ callback.remaining \in 1 .. Len(remaining)
  /\ overlapped \in BOOLEAN /\ lost \in BOOLEAN

(* No more is left of a fade than its length. *)
Within(stores) ==
  \A i \in 1 .. Len(stores) :
    stores[i].of \in 1 .. Len(total) /\ stores[i].value <= total[stores[i].of]

(* While no fade was triggered inside another: of what the callback may    *)
(* still load, only the last store starts a fade, and none while the       *)
(* second store of a trigger is to come.                                   *)
OneFade ==
  ~overlapped =>
    /\ ~lost
    /\ \A i \in callback.remaining .. Len(remaining) :
         i # Len(remaining) \/ trigger.stored => remaining[i].value = 0

FadeInv ==
  /\ FadeTypeOK /\ Within(remaining) /\ OneFade
  /\ callback.at # "rest" => Left > 0

LEMMA FadeInvInit == FadeInit => FadeInv
<1> SUFFICES ASSUME FadeInit PROVE FadeInv
  OBVIOUS
<1>1. total = <<0>> /\ remaining = <<[of |-> 1, value |-> 0]>> /\ ~overlapped /\ ~lost
      /\ callback.at = "rest" /\ callback.remaining = 1 /\ callback.total = 1
  BY DEF FadeInit
<1>2. total \in Seq(Nat) /\ Len(total) = 1 /\ total[1] = 0
  BY <1>1
<1>3. remaining \in Seq(Stores) /\ Len(remaining) = 1 /\ remaining[1].of = 1 /\ remaining[1].value = 0
  BY <1>1 DEF Stores
<1>4. FadeTypeOK
  <2>1. trigger \in [left : Nat, stored : BOOLEAN]
    BY CrossfadeAssumption DEF CrossfadeAssumption, FadeInit
  <2>2. callback \in [at : {"rest", "total", "scale"}, total : Nat, remaining : Nat]
    BY DEF FadeInit
  <2>3. overlapped \in BOOLEAN /\ lost \in BOOLEAN
    BY DEF FadeInit
  <2>4. callback.total \in 1 .. Len(total) /\ callback.remaining \in 1 .. Len(remaining)
    BY <1>1, <1>2, <1>3
  <2>5. QED BY <1>2, <1>3, <2>1, <2>2, <2>3, <2>4 DEF FadeTypeOK
<1>5. Within(remaining)
  BY <1>2, <1>3 DEF Within
<1>6. OneFade
  BY <1>1, <1>3 DEF OneFade
<1>7. QED BY <1>1, <1>4, <1>5, <1>6 DEF FadeInv

(* A store between others leaves those in their order. *)
LEMMA StoredBetween ==
  ASSUME NEW s \in Seq(Stores), NEW e \in Stores, NEW k \in 1 .. Len(s)
  PROVE  LET t == SubSeq(s, 1, k) \o <<e>> \o SubSeq(s, k + 1, Len(s))
         IN  /\ t \in Seq(Stores) /\ Len(t) = Len(s) + 1
             /\ \A i \in 1 .. Len(t) : i <= k => t[i] = s[i]
             /\ t[k + 1] = e
             /\ \A i \in 1 .. Len(t) : i > k + 1 => t[i] = s[i - 1]
<1> DEFINE u == SubSeq(s, 1, k)
           v == SubSeq(s, k + 1, Len(s))
           w == u \o <<e>>
           t == w \o v
<1>1. u \in Seq(Stores) /\ Len(u) = k /\ \A i \in 1 .. k : u[i] = s[i]
  OBVIOUS
<1>2. v \in Seq(Stores) /\ Len(v) = Len(s) - k /\ \A i \in 1 .. Len(s) - k : v[i] = s[k + i]
  OBVIOUS
<1>3. <<e>> \in Seq(Stores) /\ Len(<<e>>) = 1 /\ <<e>>[1] = e
  OBVIOUS
<1> HIDE DEF u, v
<1>4. /\ w \in Seq(Stores) /\ Len(w) = k + 1
      /\ \A i \in 1 .. k : w[i] = u[i]
      /\ w[k + 1] = e
  BY <1>1, <1>3
<1> HIDE DEF w
<1>a. t \in Seq(Stores) /\ Len(t) = Len(w) + Len(v)
  <2>1. w \in Seq(Stores) /\ v \in Seq(Stores)
    BY <1>2, <1>4
  <2>2. QED BY ONLY <2>1
<1>6. Len(t) = Len(s) + 1
  BY <1>2, <1>4, <1>a
<1>b. \A i \in 1 .. Len(w) + Len(v) : t[i] = IF i <= Len(w) THEN w[i] ELSE v[i - Len(w)]
  BY <1>2, <1>4
<1>5. /\ t \in Seq(Stores)
      /\ \A i \in 1 .. k + 1 : t[i] = w[i]
      /\ \A i \in k + 2 .. Len(t) : t[i] = v[i - (k + 1)]
  BY <1>2, <1>4, <1>a, <1>b
<1>7. ASSUME NEW i \in 1 .. Len(t), i <= k PROVE t[i] = s[i]
  BY <1>1, <1>4, <1>5, <1>7
<1>8. t[k + 1] = e
  BY <1>4, <1>5
<1>9. ASSUME NEW i \in 1 .. Len(t), i > k + 1 PROVE t[i] = s[i - 1]
  <2>1. i - (k + 1) \in 1 .. Len(s) - k /\ i \in k + 2 .. Len(t) /\ k + (i - (k + 1)) = i - 1
    BY <1>6, <1>9
  <2>2. t[i] = v[i - (k + 1)]
    BY <1>5, <2>1
  <2>3. QED BY <1>2, <2>1, <2>2
<1>10. QED BY <1>5, <1>6, <1>7, <1>8, <1>9 DEF u, v, w

(* The loads of the callback. *)
LEMMA LoadStep ==
  ASSUME FadeInv, LoadRemaining \/ LoadTotal
  PROVE  FadeInv'
<1> USE DEF FadeInv, FadeTypeOK, Left
<1>1. CASE LoadRemaining
  <2>1. PICK k \in callback.remaining .. Len(remaining) :
          callback' = [callback EXCEPT !.remaining = k,
                                       !.at = IF remaining[k].value > 0 THEN "total" ELSE "rest"]
    BY <1>1 DEF LoadRemaining
  <2>2. UNCHANGED <<total, remaining, trigger, overlapped, lost>>
    BY <1>1 DEF LoadRemaining
  <2>a. /\ callback'.remaining = k /\ callback'.total = callback.total
        /\ callback'.at \in {"rest", "total", "scale"}
    BY <2>1, <2>2
  <2>b. callback' \in [at : {"rest", "total", "scale"}, total : Nat, remaining : Nat]
    <3>1. k \in Nat /\ callback.total \in Nat /\ callback.remaining \in Nat
      OBVIOUS
    <3>2. QED BY <2>1, <2>a, <3>1
  <2>c. k \in 1 .. Len(remaining) /\ callback.total \in 1 .. Len(total)
    OBVIOUS
  <2>d. callback'.at # "rest" => Left' > 0
    BY <2>1, <2>2, <2>a
  <2>3. FadeTypeOK' /\ (callback'.at # "rest" => Left' > 0)
    BY <2>2, <2>a, <2>b, <2>c, <2>d
  <2>4. Within(remaining)'
    BY <2>2 DEF Within
  <2>5. OneFade'
    BY <2>1, <2>2 DEF OneFade
  <2>6. QED BY <2>3, <2>4, <2>5
<1>2. CASE LoadTotal
  <2>1. PICK k \in callback.total .. Len(total) :
          callback' = [callback EXCEPT !.total = k, !.at = IF total[k] > 0 THEN "scale" ELSE "rest"]
    BY <1>2 DEF LoadTotal
  <2>2. UNCHANGED <<total, remaining, trigger, overlapped, lost>> /\ callback.at = "total"
    BY <1>2 DEF LoadTotal
  <2>a. /\ callback'.remaining = callback.remaining /\ callback'.total = k
        /\ callback'.at \in {"rest", "total", "scale"}
    BY <2>1, <2>2
  <2>b. callback' \in [at : {"rest", "total", "scale"}, total : Nat, remaining : Nat]
    <3>1. k \in Nat /\ callback.total \in Nat /\ callback.remaining \in Nat
      OBVIOUS
    <3>2. QED BY <2>1, <2>a, <3>1
  <2>c. callback.remaining \in 1 .. Len(remaining) /\ k \in 1 .. Len(total)
    OBVIOUS
  <2>d. callback'.at # "rest" => Left' > 0
    BY <2>1, <2>2, <2>a
  <2>3. FadeTypeOK' /\ (callback'.at # "rest" => Left' > 0)
    BY <2>2, <2>a, <2>b, <2>c, <2>d
  <2>4. Within(remaining)'
    BY <2>2 DEF Within
  <2>5. OneFade'
    BY <2>1, <2>2 DEF OneFade
  <2>6. QED BY <2>3, <2>4, <2>5
<1>3. QED BY <1>1, <1>2

(* The store of the callback: in a fade that does not overlap with another *)
(* there is no other store for it to come after.                           *)
LEMMA StoreStep ==
  ASSUME FadeInv, StoreRemaining
  PROVE  FadeInv'
<1> USE DEF FadeInv, FadeTypeOK
<1>1. PICK k \in callback.remaining .. Len(remaining) :
        /\ remaining' = SubSeq(remaining, 1, k) \o <<NewRemaining>>
                          \o SubSeq(remaining, k + 1, Len(remaining))
        /\ callback' = [callback EXCEPT !.at = "rest", !.remaining = k + 1]
        /\ lost' = (lost \/ k > callback.remaining)
  BY DEF StoreRemaining
<1>2. UNCHANGED <<total, trigger, overlapped>> /\ callback.at = "scale"
  BY DEF StoreRemaining
<1>3. k \in 1 .. Len(remaining)
  BY <1>1
<1>4. remaining[callback.remaining] \in Stores
  OBVIOUS
<1>5. /\ NewRemaining \in Stores /\ NewRemaining.of = remaining[callback.remaining].of
      /\ NewRemaining.value <= remaining[callback.remaining].value
  <2>1. Left \in Nat /\ remaining[callback.remaining].of \in Nat
        /\ Left = remaining[callback.remaining].value
    BY <1>4 DEF Left, Stores
  <2>2. Period \in Nat
    BY CrossfadeAssumption DEF CrossfadeAssumption
  <2> DEFINE rest == IF Left > Period THEN Left - Period ELSE 0
  <2>3. rest \in Nat /\ rest <= Left
    BY <2>1, <2>2
  <2>4. NewRemaining = [of |-> remaining[callback.remaining].of, value |-> rest]
    BY DEF NewRemaining
  <2> HIDE DEF rest
  <2>5. QED BY <2>1, <2>3, <2>4 DEF Stores
<1>6. /\ remaining' \in Seq(Stores) /\ Len(remaining') = Len(remaining) + 1
      /\ \A i \in 1 .. Len(remaining') : i <= k => remaining'[i] = remaining[i]
      /\ remaining'[k + 1] = NewRemaining
      /\ \A i \in 1 .. Len(remaining') : i > k + 1 => remaining'[i] = remaining[i - 1]
  <2> DEFINE t == SubSeq(remaining, 1, k) \o <<NewRemaining>> \o SubSeq(remaining, k + 1, Len(remaining))
  <2>1. /\ t \in Seq(Stores) /\ Len(t) = Len(remaining) + 1
        /\ \A i \in 1 .. Len(t) : i <= k => t[i] = remaining[i]
        /\ t[k + 1] = NewRemaining
        /\ \A i \in 1 .. Len(t) : i > k + 1 => t[i] = remaining[i - 1]
    <3>1. remaining \in Seq(Stores) /\ NewRemaining \in Stores /\ k \in 1 .. Len(remaining)
      BY <1>3, <1>5
    <3>2. QED BY ONLY <3>1, StoredBetween
  <2>2. remaining' = t
    BY <1>1
  <2>3. QED BY <2>1, <2>2
<1>7. FadeTypeOK' /\ callback'.at = "rest"
  <2>1. lost' \in BOOLEAN
    BY <1>1
  <2>a. k + 1 \in Nat /\ callback.total \in Nat
    BY <1>3
  <2>b. callback'.remaining = k + 1 /\ callback'.total = callback.total /\ callback'.at = "rest"
    BY <1>1
  <2>2. callback' \in [at : {"rest", "total", "scale"}, total : Nat, remaining : Nat]
    BY <1>1, <2>a
  <2>3. k + 1 \in 1 .. Len(remaining')
    BY <1>3, <1>6
  <2>4. QED BY <1>2, <1>6, <2>1, <2>2, <2>3, <2>b
<1>8. Within(remaining')
  <2> SUFFICES ASSUME NEW i \in 1 .. Len(remaining')
               PROVE  remaining'[i].of \in 1 .. Len(total) /\ remaining'[i].value <= total[remaining'[i].of]
    BY DEF Within
  <2>1. CASE i <= k
    <3>1. i \in 1 .. Len(remaining) /\ remaining'[i] = remaining[i]
      BY <1>3, <1>6, <2>1
    <3>2. QED BY <3>1 DEF Within
  <2>2. CASE i = k + 1
    <3>1. /\ remaining[callback.remaining].of \in 1 .. Len(total)
          /\ remaining[callback.remaining].value <= total[remaining[callback.remaining].of]
      BY DEF Within
    <3>2. NewRemaining.value \in Nat /\ remaining[callback.remaining].value \in Nat
      BY <1>4, <1>5 DEF Stores
    <3>a. total[remaining[callback.remaining].of] \in Nat
      BY <3>1
    <3>3. remaining'[i] = NewRemaining
      BY <1>6, <2>2
    <3>4. NewRemaining.value <= total[remaining[callback.remaining].of]
      <4> DEFINE v == NewRemaining.value
                 w == remaining[callback.remaining].value
                 x == total[remaining[callback.remaining].of]
      <4>1. v \in Nat /\ w \in Nat /\ x \in Nat /\ v <= w /\ w <= x
        BY <1>5, <3>1, <3>2, <3>a
      <4> HIDE DEF v, w, x
      <4>2. v <= x
        BY ONLY <4>1
      <4>3. QED BY <4>2 DEF v, x
    <3>5. NewRemaining.of = remaining[callback.remaining].of
      BY <1>5
    <3>6. QED BY ONLY <3>1, <3>3, <3>4, <3>5
  <2>3. CASE i > k + 1
    <3>1. i - 1 \in 1 .. Len(remaining) /\ remaining'[i] = remaining[i - 1]
      BY <1>3, <1>6, <2>3
    <3>2. QED BY <3>1 DEF Within
  <2>4. QED BY <1>3, <2>1, <2>2, <2>3
<1>9. OneFade'
  <2> SUFFICES ASSUME ~overlapped
               PROVE  /\ ~lost'
                      /\ \A i \in k + 1 .. Len(remaining') :
                           i # Len(remaining') \/ trigger.stored => remaining'[i].value = 0
    BY <1>1, <1>2 DEF OneFade
  <2>1. remaining[callback.remaining].value > 0
    BY <1>2 DEF Left
  <2>2. callback.remaining \in callback.remaining .. Len(remaining)
    OBVIOUS
  <2>3. callback.remaining = Len(remaining) /\ ~trigger.stored
    BY <2>1, <2>2 DEF OneFade
  <2>4. k = callback.remaining /\ Len(remaining') = k + 1
    BY <1>3, <1>6, <2>3
  <2>5. ~lost'
    BY <1>1, <2>4 DEF OneFade
  <2>6. QED BY <1>3, <2>3, <2>4, <2>5
<1>10. QED BY <1>2, <1>7, <1>8, <1>9 DEF Within

(* The two stores of trigger_crossfade. *)
LEMMA TriggerStep ==
  ASSUME FadeInv, TriggerCrossfade
  PROVE  FadeInv'
<1> USE DEF FadeInv, FadeTypeOK
<1>1. callback' = callback /\ lost' = lost
  BY DEF TriggerCrossfade
<1>2. Len(remaining) \in Nat \ {0} /\ Len(total) \in Nat \ {0}
  OBVIOUS
<1>3. CASE ~trigger.stored
  <2>1. PICK n \in Fades : total' = Append(total, n)
    BY <1>3 DEF TriggerCrossfade
  <2>2. /\ trigger' = [left |-> trigger.left - 1, stored |-> TRUE] /\ remaining' = remaining
        /\ trigger.left > 0
    BY <1>3 DEF TriggerCrossfade
  <2>a. trigger.left - 1 \in Nat
    <3>1. trigger.left \in Nat
      OBVIOUS
    <3>2. QED BY <2>2, <3>1
  <2>b. trigger' \in [left : Nat, stored : BOOLEAN]
    BY <2>2, <2>a
  <2>3. overlapped' = \/ overlapped
                      \/ remaining[Len(remaining)].value > 0
                      \/ callback.at # "rest" /\ Left > 0
    BY <1>3 DEF TriggerCrossfade
  <2>4. /\ total' \in Seq(Nat) /\ Len(total') = Len(total) + 1
        /\ \A i \in 1 .. Len(total) : total'[i] = total[i]
    BY <2>1, CrossfadeAssumption DEF CrossfadeAssumption
  <2>5. overlapped' \in BOOLEAN
    BY <2>3
  <2>6. FadeTypeOK'
    BY <1>1, <1>2, <2>2, <2>4, <2>5, <2>b
  <2>7. Within(remaining)'
    <3> SUFFICES ASSUME NEW i \in 1 .. Len(remaining)
                 PROVE  /\ remaining[i].of \in 1 .. Len(total')
                        /\ remaining[i].value <= total'[remaining[i].of]
      BY <2>2 DEF Within
    <3>1. remaining[i].of \in 1 .. Len(total) /\ remaining[i].value <= total[remaining[i].of]
      BY DEF Within
    <3>2. Len(total) \in Nat
      BY <1>2
    <3>3. QED BY ONLY <2>4, <3>1, <3>2
  <2>8. OneFade'
    <3> SUFFICES ASSUME ~overlapped'
                 PROVE  /\ ~lost
                        /\ \A i \in callback.remaining .. Len(remaining) : remaining[i].value = 0
      BY <1>1, <2>2 DEF OneFade
    <3>1. ~overlapped /\ ~(remaining[Len(remaining)].value > 0)
      BY <2>3
    <3>2. remaining[Len(remaining)].value = 0
      <4>1. remaining[Len(remaining)] \in Stores
        BY <1>2
      <4>2. QED BY <3>1, <4>1 DEF Stores
    <3>3. QED BY <3>1, <3>2 DEF OneFade
  <2>9. callback'.at # "rest" => Left' > 0
    BY <1>1, <2>2 DEF Left
  <2>10. QED BY <2>6, <2>7, <2>8, <2>9
<1>4. CASE trigger.stored
  <2>1. trigger' = [trigger EXCEPT !.stored = FALSE] /\ UNCHANGED <<total, overlapped>>
    BY <1>4 DEF TriggerCrossfade
  <2>2. remaining' = Append(remaining, [of |-> Len(total), value |-> total[Len(total)]])
    BY <1>4 DEF TriggerCrossfade
  <2>3. total[Len(total)] \in Nat
    BY <1>2
  <2>4. [of |-> Len(total), value |-> total[Len(total)]] \in Stores
    BY <1>2, <2>3 DEF Stores
  <2>5. /\ remaining' \in Seq(Stores) /\ Len(remaining') = Len(remaining) + 1
        /\ \A i \in 1 .. Len(remaining) : remaining'[i] = remaining[i]
        /\ remaining'[Len(remaining) + 1].of = Len(total)
        /\ remaining'[Len(remaining) + 1].value = total[Len(total)]
    BY <2>2, <2>4
  <2>a. trigger' \in [left : Nat, stored : BOOLEAN]
    BY <2>1
  <2>6. FadeTypeOK'
    BY <1>1, <1>2, <2>1, <2>5, <2>a
  <2>7. Within(remaining')
    <3> SUFFICES ASSUME NEW i \in 1 .. Len(remaining')
                 PROVE  /\ remaining'[i].of \in 1 .. Len(total)
                        /\ remaining'[i].value <= total[remaining'[i].of]
      BY DEF Within
    <3>1. CASE i \in 1 .. Len(remaining)
      BY <2>5, <3>1 DEF Within
    <3>2. CASE i = Len(remaining) + 1
      BY <1>2, <2>3, <2>5, <3>2
    <3>3. QED BY <1>2, <2>5, <3>1, <3>2
  <2>8. OneFade'
    <3> SUFFICES ASSUME ~overlapped, NEW i \in callback.remaining .. Len(remaining'), i # Len(remaining')
                 PROVE  ~lost /\ remaining'[i].value = 0
      <4>1. trigger'.stored = FALSE
        BY <2>1
      <4>2. ~overlapped => ~lost
        BY DEF OneFade
      <4>3. QED BY <1>1, <2>1, <4>1, <4>2 DEF OneFade
    <3>1. i \in callback.remaining .. Len(remaining) /\ i \in 1 .. Len(remaining)
      BY <1>2, <2>5
    <3>2. QED BY <1>4, <2>5, <3>1 DEF OneFade
  <2>9. callback'.at # "rest" => Left' > 0
    BY <1>1, <2>5 DEF Left
  <2>10. Within(remaining)'
    BY <2>1, <2>7 DEF Within
  <2>11. QED BY <2>6, <2>8, <2>9, <2>10
<1>5. QED BY <1>3, <1>4

(* trigger_crossfade and the output callback over relaxed atomics: no fade *)
(* is lost unless it began inside the fade before, and none makes a sample *)
(* louder by its own length.                                               *)
THEOREM FadesKeepApart == FadeSpec => []FadesApart
<1>1. FadeInit => FadeInv  BY FadeInvInit
<1>2. FadeInv /\ [FadeNext]_fadeVars => FadeInv'
  <2>1. ASSUME FadeInv, FadeNext PROVE FadeInv'
    BY <2>1, LoadStep, StoreStep, TriggerStep DEF FadeNext
  <2>2. ASSUME FadeInv, UNCHANGED fadeVars PROVE FadeInv'
    BY <2>2 DEF fadeVars, FadeInv, FadeTypeOK, OneFade, Within, Left
  <2>3. QED BY <2>1, <2>2
<1>3. FadeInv => FadesApart
  <2> SUFFICES ASSUME FadeInv PROVE FadesApart
    OBVIOUS
  <2>1. lost => overlapped
    BY DEF FadeInv, OneFade
  <2>2. ASSUME remaining[callback.remaining].of = callback.total PROVE ~(Left > total[callback.total])
    <3>1. callback.remaining \in 1 .. Len(remaining)
      BY DEF FadeInv, FadeTypeOK
    <3>2. Left <= total[callback.total]
      BY <2>2, <3>1 DEF FadeInv, Within, Left
    <3>3. remaining[callback.remaining] \in Stores /\ total[callback.total] \in Nat
      BY <3>1 DEF FadeInv, FadeTypeOK
    <3>4. QED BY <3>2, <3>3 DEF Left, Stores
  <2>3. QED BY <2>1, <2>2 DEF FadesApart
<1>4. QED BY <1>1, <1>2, <1>3, PTL DEF FadeSpec
=============================================================================
