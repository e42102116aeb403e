------------------------------ MODULE Ctaphid -------------------------------
(***************************************************************************)
(* CTAPHID framing (crates/fido2/src/relay.rs): serialize_response cuts a  *)
(* message into 64-byte packets, and handle_device_packet with             *)
(* MessageAssembler puts packets together again.  One message of len bytes *)
(* is sent packet by packet to an assembler.  Bytes are only counted.      *)
(***************************************************************************)
EXTENDS Integers

CONSTANTS
  Lens,      \* the message lengths considered
  InitData,  \* INIT_DATA_SIZE: payload bytes of the first packet (57)
  ContData,  \* CONT_DATA_SIZE: payload bytes of the others       (59)
  TypeBit,   \* byte 4 with this bit set marks a first packet     (0x80)
  LenMod     \* the length field counts modulo this               (2^16)

ASSUME CtaphidAssumption ==
  /\ Lens \subseteq Nat
  /\ InitData \in Nat \ {0}
  /\ ContData \in Nat \ {0}
  /\ TypeBit \in Nat \ {0}
  /\ LenMod \in Nat \ {0}

SeqMod == 2 * TypeBit  \* a u8

VARIABLES
  len,       \* length of the message being sent
  sent,      \* packets sent so far
  asm,       \* the assembler: [on, expected, got, next]
  delivered  \* length of the last message handed to handle_message, if any

vars == <<len, sent, asm, delivered>>

Smaller(a, b) == IF a <= b THEN a ELSE b

(* serialize_response: where packet k starts, and the number of packets.   *)
Offset(k) == IF k = 0 THEN 0 ELSE InitData + (k - 1) * ContData
HasPacket(k) == k = 0 \/ Offset(k) < len

(* Byte 4 of packet k > 0, a u8 that wraps.  Bit 7 makes it a command.     *)
SeqByte(k) == (k - 1) % SeqMod
IsInit(k) == k = 0 \/ SeqByte(k) >= TypeBit

Idle == [on |-> FALSE, expected |-> 0, got |-> 0, next |-> 0]

Init ==
  /\ len \in Lens
  /\ sent = 0
  /\ asm = Idle
  /\ delivered = <<>>

(* Mutant of NewAssembler: the padding counts as data. *)
NewAssemblerPadded(n) == [on |-> TRUE, expected |-> n, got |-> InitData, next |-> 0]

(* MessageAssembler::new: payloads are padded, so a full one is available. *)
NewAssembler(n) ==
  [on |-> TRUE, expected |-> n, got |-> Smaller(InitData, n), next |-> 0]

(* A complete message is handled, else the assembler is kept.  A message   *)
(* of one packet leaves an unfinished one where it is (rest).              *)
Put(a, rest) ==
  IF a.got >= a.expected
    THEN asm' = rest /\ delivered' = <<a.got>>
    ELSE asm' = a /\ UNCHANGED delivered

(* A first packet replaces whatever was being assembled.  The length field *)
(* of one that is not really a first packet holds any two payload bytes.   *)
RecvInit ==
  /\ HasPacket(sent) /\ IsInit(sent)
  /\ IF sent = 0 THEN Put(NewAssembler(len % LenMod), asm)
     ELSE \E n \in 0 .. LenMod - 1 : Put(NewAssembler(n), asm)
  /\ sent' = sent + 1
  /\ UNCHANGED len

(* Mutant of AddContinuation: the sequence number is not advanced. *)
AddContinuationStuck(a) ==
  [on |-> TRUE, expected |-> a.expected,
   got |-> a.got + Smaller(ContData, a.expected - a.got), next |-> a.next]

AddContinuation(a) ==
  [on |-> TRUE, expected |-> a.expected,
   got |-> a.got + Smaller(ContData, a.expected - a.got),
   next |-> (a.next + 1) % SeqMod]

(* A continuation with a wrong number, or none being expected, is answered *)
(* with an error and ends the assembly.                                    *)
RecvCont ==
  /\ HasPacket(sent) /\ ~IsInit(sent)
  /\ IF asm.on /\ SeqByte(sent) = asm.next
       THEN Put(AddContinuation(asm), Idle)
       ELSE asm' = Idle /\ UNCHANGED delivered
  /\ sent' = sent + 1
  /\ UNCHANGED len

Next == RecvInit \/ RecvCont

Spec == Init /\ [][Next]_vars

-----------------------------------------------------------------------------
(* The longest message whose packets all have a sequence number (7609).    *)
MaxMessage == InitData + TypeBit * ContData
Framable == len <= MaxMessage /\ len < LenMod

(* A message that fits is put together again when, and only when, its last *)
(* packet has arrived, and to its full length.                             *)
RoundTrip ==
  Framable => IF sent > 0 /\ ~HasPacket(sent)
                THEN delivered = <<len>> /\ asm = Idle
                ELSE delivered = <<>>

(* The counters are numbers, the assembler a record of them.               *)
TypeOK ==
  /\ len \in Lens /\ sent \in Nat
  /\ asm \in [on : BOOLEAN, expected : Nat, got : Nat, next : Nat]
  /\ delivered \in {<<>>} \cup {<<n>> : n \in Nat}

(* While a message that fits is on its way the assembler holds exactly the *)
(* bytes of the packets sent, and expects the number of the next one.      *)
InStep ==
  Framable /\ sent > 0 /\ HasPacket(sent) =>
    asm = [on |-> TRUE, expected |-> len, got |-> Offset(sent), next |-> sent - 1]
=============================================================================
