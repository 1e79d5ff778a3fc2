---------------------------- MODULE EmergencyPacket ----------------------------
(***************************************************************************)
(* The 25-byte emergencyPacket: its flags byte and its signature.          *)
(*                                                                         *)
(* phone, timestamp and payload never change after the victim built the    *)
(* packet and nobody but the signature depends on them, so a packet is     *)
(* abstracted to the pair of fields the relays look at.  A member of       *)
(* Frames stands for the body together with its 8-byte hmac_sig: two       *)
(* different bodies are assumed to have different signatures.              *)
(***************************************************************************)
EXTENDS Integers

CONSTANTS
  Frames,     \* the bodies victims build, named by their signature
  GpsFrames,  \* the frames built with the GPS bit set
  NoFrame     \* the zeroed signature of memory no packet was written to

ASSUME FramesAssumption ==
  /\ GpsFrames \subseteq Frames
  /\ NoFrame \notin Frames

GPS_BIT == 128        \* 1 << 7
TTL_VALUES == 32      \* 5 bits of TTL
Byte == 0 .. 255

(***************************************************************************)
(* The flags byte.  Bit 7 tells whether the location is GPS, bits 4-0 are  *)
(* the TTL.  & and << are written with \div and %, the low 5 bits being    *)
(* the remainder modulo 32.                                                *)
(***************************************************************************)
Ttl(flags) == flags % TTL_VALUES                               \* flags & (0xFF >> 3)
UpperBits(flags) == (flags \div TTL_VALUES) * TTL_VALUES       \* flags & (0xFF << 5)
WithTtl(flags, ttl) == UpperBits(flags) + ttl                  \* ... | ttl

(***************************************************************************)
(* What the victim signs: the body with the TTL bits still zero.  The TTL  *)
(* is or-ed into the flags after the signature was computed.               *)
(***************************************************************************)
SignedFlags(frame) == IF frame \in GpsFrames THEN GPS_BIT ELSE 0
BuildEmergencyPacket(frame, ttl) ==
  [hmac_sig |-> frame, flags |-> WithTtl(SignedFlags(frame), ttl)]

Packets == [hmac_sig : Frames, flags : Byte]
ZeroPacket == [hmac_sig |-> NoFrame, flags |-> 0]

\* The upper bits of the flags are lost.
MutantNextHop(packet) == [packet EXCEPT !.flags = Ttl(@) - 1]

\* The packet is passed on as it came.
MutantNextHopSame(packet) == packet

\* The packet a relay passes on: the body untouched, one hop less.
NextHop(packet) == [packet EXCEPT !.flags = WithTtl(@, Ttl(@) - 1)]

(***************************************************************************)
(* What the scanners recompute: the signature of the received body with    *)
(* the TTL bits masked out.                                                *)
(***************************************************************************)
VerifyHmac(packet) == UpperBits(packet.flags) = SignedFlags(packet.hmac_sig)

================================================================================
