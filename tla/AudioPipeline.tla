----------------------------- MODULE AudioPipeline ----------------------------
(***************************************************************************)
(* The audio pipeline (crates/audio): frames are captured, encoded, sent,  *)
(* decoded, and played from a jitter buffer by the output callback, each   *)
(* in a thread or task of its own.  A frame is the number of the packet    *)
(* that carries it; loss and reordering happen between the two machines.   *)
(***************************************************************************)
EXTENDS Integers, Sequences

CONSTANTS
  FrameCap,   \* capacity of the channels for frames (64)
  WireCap,    \* packets the caller's channel and the network hold
  RingCap,    \* frames in the jitter buffer
  MaxPackets  \* bound on the packets sent

ASSUME AudioAssumption ==
  FrameCap \in Nat \ {0} /\ WireCap \in Nat \ {0} /\ RingCap \in Nat \ {0} /\ MaxPackets \in Nat

VARIABLES
  recorder,  \* capture callback and encode task: [on, frames, seq, pkt]
  wire,      \* packets under way
  inOrder,   \* ghost: none was reordered or repeated
  decoder,   \* decode and fill tasks: [on, lastSeq, frame, frames]
  ring,      \* the jitter buffer
  played     \* ghost: [last, forward]: the last frame, whether each was later than the one before

audioVars == <<recorder, wire, inOrder, decoder, ring, played>>

NoFrame == -1

(* start_sender on one machine, start_receiver on the other. *)
AudioInit ==
  /\ recorder = [on |-> TRUE, frames |-> 0, seq |-> 0, pkt |-> NoFrame]
  /\ wire = <<>> /\ inOrder = TRUE
  /\ decoder = [on |-> TRUE, lastSeq |-> NoFrame, frame |-> NoFrame, frames |-> <<>>]
  /\ ring = <<>> /\ played = [last |-> NoFrame, forward |-> TRUE]

-----------------------------------------------------------------------------
(* The sending machine. *)

(* The capture callback never waits: without room the frame is dropped.    *)
Record ==
  /\ recorder.on /\ recorder.frames < FrameCap
  /\ recorder' = [recorder EXCEPT !.frames = @ + 1]
  /\ UNCHANGED <<wire, inOrder, decoder, ring, played>>

(* Only what was encoded gets a number.                                    *)
Encode ==
  /\ recorder.on /\ recorder.frames > 0 /\ recorder.pkt = NoFrame
  /\ recorder.seq < MaxPackets
  /\ \/ recorder' = [recorder EXCEPT !.frames = @ - 1, !.pkt = recorder.seq, !.seq = @ + 1]
     \/ recorder' = [recorder EXCEPT !.frames = @ - 1]
  /\ UNCHANGED <<wire, inOrder, decoder, ring, played>>

EncodedSend ==
  /\ recorder.on /\ recorder.pkt # NoFrame /\ Len(wire) < WireCap
  /\ wire' = Append(wire, recorder.pkt)
  /\ recorder' = [recorder EXCEPT !.pkt = NoFrame]
  /\ UNCHANGED <<inOrder, decoder, ring, played>>

(* stop(): the stream and the task end where they are.                     *)
StopSender ==
  /\ recorder.on
  /\ recorder' = [recorder EXCEPT !.on = FALSE, !.frames = 0, !.pkt = NoFrame]
  /\ UNCHANGED <<wire, inOrder, decoder, ring, played>>

WireFault ==
  /\ \/ /\ wire # <<>> /\ wire' = Tail(wire) /\ UNCHANGED inOrder
     \/ /\ Len(wire) > 1 /\ wire' = Append(Tail(wire), Head(wire)) /\ inOrder' = FALSE
     \/ /\ Len(wire) \in 1 .. WireCap - 1 /\ wire' = <<Head(wire)>> \o wire
        /\ inOrder' = FALSE
  /\ UNCHANGED <<recorder, decoder, ring, played>>

-----------------------------------------------------------------------------
(* The receiving machine. *)

(* Mutant of Lost: off by one. *)
LostOrNext(seq, last) == last # NoFrame /\ seq > last

(* A gap before this packet.                                               *)
Lost(seq, last) == last # NoFrame /\ seq > last + 1

(* After a gap the packet is decoded for what it says of the one before.   *)
Decode ==
  /\ decoder.on /\ wire # <<>> /\ decoder.frame = NoFrame
  /\ wire' = Tail(wire)
  /\ LET seq == Head(wire) IN
     \E frame \in {NoFrame, IF Lost(seq, decoder.lastSeq) THEN seq - 1 ELSE seq} :
       decoder' = [decoder EXCEPT !.lastSeq = seq, !.frame = frame]
  /\ UNCHANGED <<recorder, inOrder, ring, played>>

DecodedSend ==
  /\ decoder.on /\ decoder.frame # NoFrame /\ Len(decoder.frames) < FrameCap
  /\ decoder' = [decoder EXCEPT !.frame = NoFrame,
                                !.frames = Append(@, decoder.frame)]
  /\ UNCHANGED <<recorder, wire, inOrder, ring, played>>

(* Overrun: what does not fit into the buffer is dropped.                  *)
FillRing ==
  /\ decoder.on /\ decoder.frames # <<>>
  /\ decoder' = [decoder EXCEPT !.frames = Tail(@)]
  /\ ring' = IF Len(ring) < RingCap THEN Append(ring, Head(decoder.frames)) ELSE ring
  /\ UNCHANGED <<recorder, wire, inOrder, played>>

StopReceiver ==
  /\ decoder.on
  /\ decoder' = [decoder EXCEPT !.on = FALSE, !.frame = NoFrame, !.frames = <<>>]
  /\ ring' = <<>>
  /\ UNCHANGED <<recorder, wire, inOrder, played>>

(* The callback plays what there is; silence is left out.                  *)
Play ==
  /\ decoder.on /\ ring # <<>>
  /\ ring' = Tail(ring)
  /\ played' = [last |-> Head(ring), forward |-> played.forward /\ Head(ring) > played.last]
  /\ UNCHANGED <<recorder, wire, inOrder, decoder>>

AudioNext ==
  \/ Record \/ Encode \/ EncodedSend \/ StopSender \/ WireFault
  \/ Decode \/ DecodedSend \/ FillRing \/ StopReceiver \/ Play

AudioSpec == AudioInit /\ [][AudioNext]_audioVars

-----------------------------------------------------------------------------
(* With packets lost, but neither repeated nor reordered, and frames       *)
(* dropped wherever there is no room, no frame is played twice or after a  *)
(* later one.                                                              *)
PlaysForward ==
  inOrder => played.forward
=============================================================================
