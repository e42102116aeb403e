--------------------------- MODULE CtaphidProofs ----------------------------
(***************************************************************************)
(* Proofs about Ctaphid, for every packet size, width of the fields and    *)
(* message length.                                                         *)
(***************************************************************************)
EXTENDS Ctaphid, TLAPS

LEMMA Sizes ==
  /\ InitData \in Nat \ {0} /\ ContData \in Nat \ {0}
  /\ TypeBit \in Nat \ {0} /\ LenMod \in Nat \ {0}
  /\ Lens \subseteq Nat
  BY CtaphidAssumption DEF CtaphidAssumption

LEMMA OffsetStep ==
  ASSUME NEW k \in Nat \ {0}
  PROVE  /\ Offset(k) \in Nat
         /\ Offset(k + 1) = Offset(k) + ContData
         /\ Offset(1) = InitData
<1>1. (k - 1) * ContData \in Nat /\ k * ContData = (k - 1) * ContData + ContData
  BY Sizes
<1>2. QED
  BY <1>1, Sizes DEF Offset

(* The packets of a message that fits are numbered below the type bit. *)
LEMMA Numbered ==
  ASSUME NEW k \in Nat \ {0}, len \in Nat, Framable, HasPacket(k)
  PROVE  SeqByte(k) = k - 1 /\ ~IsInit(k)
<1>1. InitData + (k - 1) * ContData < InitData + TypeBit * ContData
  <2>1. (k - 1) * ContData \in Nat /\ TypeBit * ContData \in Nat
    BY Sizes
  <2>2. QED
    BY <2>1, Sizes DEF Framable, MaxMessage, HasPacket, Offset
<1>2. k - 1 < TypeBit
  <2>1. CASE k - 1 >= TypeBit
    <3>1. (k - 1) * ContData >= TypeBit * ContData
      BY <2>1, Sizes
    <3>2. QED
      BY <1>1, <3>1, Sizes
  <2>2. QED
    BY <2>1, Sizes
<1>3. (k - 1) % SeqMod = k - 1
  BY <1>2, Sizes DEF SeqMod
<1>4. QED
  BY <1>2, <1>3, Sizes DEF SeqByte, IsInit

Fresh == sent = 0 => asm = Idle

Inv == TypeOK /\ Fresh /\ RoundTrip /\ InStep

LEMMA InitInv == Init => Inv
  BY Sizes DEF Init, Inv, Fresh, TypeOK, RoundTrip, InStep, Idle

LEMMA NextType == TypeOK /\ [Next]_vars => TypeOK'
<1> SUFFICES ASSUME TypeOK, [Next]_vars PROVE TypeOK'
  OBVIOUS
<1> DEFINE Asm == [on : BOOLEAN, expected : Nat, got : Nat, next : Nat]
<1> DEFINE Size == {<<>>} \cup {<<n>> : n \in Nat}
<1>0. asm \in Asm /\ delivered \in Size
  BY DEF TypeOK
<1>1. ASSUME NEW a \in Asm, NEW rest \in Asm, Put(a, rest)
      PROVE  asm' \in Asm /\ delivered' \in Size
  <2>1. a.got \in Nat
    OBVIOUS
  <2>2. CASE a.got >= a.expected
    BY <1>1, <2>1, <2>2 DEF Put
  <2>3. CASE ~(a.got >= a.expected)
    BY <1>0, <1>1, <2>3 DEF Put
  <2>4. QED
    BY <2>2, <2>3
<1>2. ASSUME NEW n \in Nat PROVE NewAssembler(n) \in Asm
  BY Sizes DEF NewAssembler, Smaller
<1>3. CASE RecvInit
  <2>1. len % LenMod \in Nat /\ LenMod - 1 \in Nat /\ 0 \in Nat
    BY Sizes DEF TypeOK
  <2>2. \E n \in Nat : Put(NewAssembler(n), asm)
    BY <1>3, <2>1 DEF RecvInit
  <2>3. asm' \in Asm /\ delivered' \in Size
    <3>1. PICK n \in Nat : Put(NewAssembler(n), asm)
      BY <2>2
    <3>2. NewAssembler(n) \in Asm
      BY <1>2
    <3>3. QED
      BY <1>0, <1>1, <3>1, <3>2
  <2>4. len' \in Lens /\ sent' \in Nat
    BY <1>3 DEF RecvInit, TypeOK
  <2>5. QED
    BY <2>3, <2>4 DEF TypeOK
<1>4. CASE RecvCont
  <2>1. CASE asm.on /\ SeqByte(sent) = asm.next
    <3>1. asm.got \in Nat /\ asm.expected \in Nat /\ asm.next \in Nat
      BY DEF TypeOK
    <3>2. AddContinuation(asm) \in Asm
      <4>1. asm.got + Smaller(ContData, asm.expected - asm.got) \in Int
        BY <3>1, Sizes DEF Smaller
      <4>2. QED
        BY <3>1, Sizes DEF AddContinuation, Smaller, SeqMod
    <3>3. asm' \in Asm /\ delivered' \in Size
      <4>1. Put(AddContinuation(asm), Idle)
        BY <1>4, <2>1 DEF RecvCont
      <4>2. Idle \in Asm
        BY DEF Idle
      <4>3. QED
        BY <1>1, <3>2, <4>1, <4>2
    <3>4. len' \in Lens /\ sent' \in Nat
      BY <1>4 DEF RecvCont, TypeOK
    <3>5. QED
      BY <3>3, <3>4 DEF TypeOK
  <2>2. CASE ~(asm.on /\ SeqByte(sent) = asm.next)
    <3>1. asm' = Idle /\ delivered' = delivered /\ len' = len /\ sent' = sent + 1
      BY <1>4, <2>2 DEF RecvCont
    <3>2. Idle \in Asm
      BY DEF Idle
    <3>3. len' \in Lens /\ sent' \in Nat
      BY <3>1 DEF TypeOK
    <3>4. QED
      BY <1>0, <3>1, <3>2, <3>3 DEF TypeOK
  <2>3. QED
    BY <2>1, <2>2
<1>5. CASE UNCHANGED vars
  BY <1>5 DEF vars, TypeOK
<1>6. QED
  BY <1>3, <1>4, <1>5 DEF Next

LEMMA NextFresh == TypeOK /\ Fresh /\ [Next]_vars => Fresh'
  BY DEF TypeOK, Fresh, Next, RecvInit, RecvCont, vars

(* A packet of a message that fits, after the first: the assembler takes   *)
(* the whole of it, or the rest of the message.                            *)
LEMMA NextFrames ==
  ASSUME Inv, [Next]_vars
  PROVE  (RoundTrip /\ InStep)'
<1> USE Sizes DEF Inv
<1>0. len \in Nat /\ sent \in Nat /\ (Framable => len < LenMod)
  BY DEF TypeOK, Framable
<1>1. CASE ~Framable /\ UNCHANGED len
  BY <1>1 DEF Framable, RoundTrip, InStep
<1>2. CASE UNCHANGED vars
  BY <1>2 DEF vars, RoundTrip, InStep, Framable, HasPacket
<1>3. CASE Framable /\ RecvInit /\ sent = 0
  <2>1. len % LenMod = len
    BY <1>0, <1>3
  <2>2. Put(NewAssembler(len), asm) /\ sent' = 1 /\ len' = len
    BY <1>3, <2>1 DEF RecvInit
  <2>3. Offset(1) = InitData
    BY DEF Offset
  <2>4. CASE len <= InitData
    <3>0. asm = Idle
      BY <1>3 DEF Fresh
    <3>1. asm' = Idle /\ delivered' = <<len>>
      BY <1>0, <2>2, <2>4, <3>0 DEF Put, NewAssembler, Smaller
    <3>2. ~HasPacket(1)
      BY <1>0, <2>3, <2>4 DEF HasPacket
    <3>3. QED
      BY <1>3, <2>2, <3>1, <3>2 DEF RoundTrip, InStep, Framable, HasPacket
  <2>5. CASE len > InitData
    <3>1. /\ asm' = [on |-> TRUE, expected |-> len, got |-> InitData, next |-> 0]
          /\ delivered' = delivered
      BY <1>0, <2>2, <2>5 DEF Put, NewAssembler, Smaller
    <3>2. delivered = <<>>
      BY <1>3 DEF RoundTrip
    <3>3. HasPacket(1)
      BY <1>0, <2>3, <2>5 DEF HasPacket
    <3>4. HasPacket(sent)' /\ Offset(sent)' = InitData /\ sent' - 1 = 0
      BY <2>2, <2>3, <3>3 DEF HasPacket, Offset
    <3>5. RoundTrip'
      BY <3>1, <3>2, <3>4 DEF RoundTrip
    <3>6. InStep'
      BY <2>2, <3>1, <3>4 DEF InStep
    <3>7. QED
      BY <3>5, <3>6
  <2>6. QED
    BY <1>0, <2>4, <2>5
<1>4. CASE Framable /\ sent # 0 /\ (RecvInit \/ RecvCont)
  <2>0. sent \in Nat \ {0} /\ HasPacket(sent)
    BY <1>0, <1>4 DEF RecvInit, RecvCont
  <2>1. SeqByte(sent) = sent - 1 /\ ~IsInit(sent)
    BY <1>0, <1>4, <2>0, Numbered
  <2>2. /\ asm = [on |-> TRUE, expected |-> len, got |-> Offset(sent),
                  next |-> sent - 1]
        /\ delivered = <<>>
    BY <1>4, <2>0 DEF InStep, RoundTrip
  <2>3. Put(AddContinuation(asm), Idle) /\ sent' = sent + 1 /\ len' = len
    BY <1>4, <2>1, <2>2 DEF RecvInit, RecvCont
  <2>4. /\ Offset(sent) \in Nat /\ Offset(sent) < len
        /\ Offset(sent + 1) = Offset(sent) + ContData
    BY <2>0, OffsetStep DEF HasPacket
  <2>5. sent - 1 < TypeBit
    BY <2>0, <2>1 DEF IsInit
  <2>6. sent % SeqMod = sent
    BY <2>0, <2>5 DEF SeqMod
  <2>7. AddContinuation(asm) =
          [on |-> TRUE, expected |-> len,
           got |-> Offset(sent) + Smaller(ContData, len - Offset(sent)),
           next |-> sent]
    <3>1. asm.expected = len /\ asm.got = Offset(sent) /\ asm.next = sent - 1
      BY <2>2
    <3>2. (asm.next + 1) % SeqMod = sent
      <4>1. asm.next + 1 = sent
        BY <2>0, <3>1
      <4>2. QED
        BY <2>6, <4>1
    <3>3. QED
      BY <3>1, <3>2 DEF AddContinuation
  <2>8. CASE len <= Offset(sent + 1)
    <3>1. AddContinuation(asm) =
            [on |-> TRUE, expected |-> len, got |-> len, next |-> sent]
      <4>1. Offset(sent) + Smaller(ContData, len - Offset(sent)) = len
        BY <1>0, <2>4, <2>8 DEF Smaller
      <4>2. QED
        BY <2>7, <4>1
    <3>2. asm' = Idle /\ delivered' = <<len>>
      BY <1>0, <2>3, <3>1 DEF Put
    <3>3. ~HasPacket(sent + 1)
      BY <1>0, <2>0, <2>4, <2>8 DEF HasPacket
    <3>4. QED
      BY <1>4, <2>0, <2>3, <3>2, <3>3 DEF RoundTrip, InStep, Framable, HasPacket
  <2>9. CASE len > Offset(sent + 1)
    <3>1. AddContinuation(asm) =
            [on |-> TRUE, expected |-> len, got |-> Offset(sent + 1), next |-> sent]
      <4>1. Offset(sent) + Smaller(ContData, len - Offset(sent)) = Offset(sent + 1)
        BY <1>0, <2>4, <2>9 DEF Smaller
      <4>2. QED
        BY <2>7, <4>1
    <3>2. /\ asm' = [on |-> TRUE, expected |-> len, got |-> Offset(sent + 1),
                     next |-> sent]
          /\ delivered' = <<>>
      BY <1>0, <2>2, <2>3, <2>4, <2>9, <3>1 DEF Put
    <3>3. HasPacket(sent + 1)
      BY <2>9 DEF HasPacket
    <3>4. QED
      BY <1>4, <2>0, <2>3, <3>2, <3>3 DEF RoundTrip, InStep, Framable, HasPacket
  <2>10. QED
    BY <1>0, <2>4, <2>8, <2>9
<1>5. RecvCont => sent # 0
  BY DEF RecvCont, IsInit
<1>6. QED
  BY <1>1, <1>2, <1>3, <1>4, <1>5 DEF Next, RecvInit, RecvCont

(* A message of at most InitData + TypeBit * ContData bytes (7609) cut by  *)
(* serialize_response is put together again by MessageAssembler with its   *)
(* last packet, and not before.                                            *)
THEOREM FramesFit == Spec => []RoundTrip
<1>1. Inv /\ [Next]_vars => Inv'
  BY NextType, NextFresh, NextFrames DEF Inv
<1>2. Inv => RoundTrip
  BY DEF Inv
<1>3. QED
  BY InitInv, <1>1, <1>2, PTL DEF Spec

(* On the way, the assembler holds the bytes of exactly the packets sent.  *)
THEOREM FramesInStep == Spec => []InStep
<1>1. Inv /\ [Next]_vars => Inv'
  BY NextType, NextFresh, NextFrames DEF Inv
<1>2. Inv => InStep
  BY DEF Inv
<1>3. QED
  BY InitInv, <1>1, <1>2, PTL DEF Spec
=============================================================================
