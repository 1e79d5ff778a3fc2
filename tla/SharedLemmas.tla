--------------------------------- MODULE SharedLemmas ---------------------------------
(***************************************************************************)
(* Lemmas that the proofs about several components rest on: the least of a *)
(* set of naturals, what becomes of the flags byte on its way, and, for    *)
(* every number of rows, what AddToBuff keeps, remembers and forgets.      *)
(***************************************************************************)
EXTENDS CircularBuff, FiniteSets, FiniteSetTheorems, WellFoundedInduction, TLAPS

\* A set of naturals with a member has a least one.
LEMMA LeastNat ==
  ASSUME NEW S, S \subseteq Nat, S # {}
  PROVE  \E x \in S : \A y \in S : x <= y
<1> DEFINE Less == OpToRel(<, Nat)
<1>1. \A x, y \in Nat : y < x => <<y, x>> \in Less
  BY DEF OpToRel
<1>2. IsWellFoundedOn(Less, Nat)
  BY NatLessThanWellFounded
<1> HIDE DEF Less
<1>3. PICK x \in S : \A y \in S : <<y, x>> \notin Less
  BY <1>2, WFMin
<1>4. ASSUME NEW y \in S
      PROVE  x <= y
  <2>1. x \in Nat /\ y \in Nat
    OBVIOUS
  <2>2. ~(y < x)
    BY <1>1, <1>3, <2>1
  <2> QED
    BY <2>1, <2>2
<1> QED
  BY <1>4

(***************************************************************************)
(* The flags byte.                                                         *)
(***************************************************************************)
LEMMA TtlType ==
  ASSUME NEW flags \in Byte
  PROVE  Ttl(flags) \in 0 .. TTL_VALUES - 1
BY DEF Ttl, TTL_VALUES, Byte

\* Writing the TTL into the flags leaves a byte with that TTL and the upper bits there were.
LEMMA FlagsOfWithTtl ==
  ASSUME NEW flags \in Byte, NEW ttl \in 0 .. TTL_VALUES - 1
  PROVE  /\ WithTtl(flags, ttl) \in Byte
         /\ Ttl(WithTtl(flags, ttl)) = ttl
         /\ UpperBits(WithTtl(flags, ttl)) = UpperBits(flags)
BY DEF WithTtl, UpperBits, Ttl, TTL_VALUES, Byte

\* A victim's packet has the TTL it was built with, and verifies.
LEMMA BuildEmergencyPacketType ==
  ASSUME NEW frame \in Frames, NEW ttl \in 0 .. TTL_VALUES - 1
  PROVE  /\ BuildEmergencyPacket(frame, ttl) \in Packets
         /\ VerifyHmac(BuildEmergencyPacket(frame, ttl))
         /\ Ttl(BuildEmergencyPacket(frame, ttl).flags) = ttl
<1>1. SignedFlags(frame) \in Byte /\ UpperBits(SignedFlags(frame)) = SignedFlags(frame)
  BY DEF SignedFlags, GPS_BIT, Byte, UpperBits, TTL_VALUES
<1> QED
  BY <1>1, FlagsOfWithTtl DEF BuildEmergencyPacket, VerifyHmac, Packets

\* A relay hands on a packet of the same frame with one hop less, which verifies as before.
LEMMA NextHopType ==
  ASSUME NEW packet \in Packets, Ttl(packet.flags) > 1
  PROVE  /\ NextHop(packet) \in Packets
         /\ NextHop(packet).hmac_sig = packet.hmac_sig
         /\ VerifyHmac(NextHop(packet)) <=> VerifyHmac(packet)
         /\ Ttl(NextHop(packet).flags) = Ttl(packet.flags) - 1
<1> DEFINE ttl == Ttl(packet.flags) - 1
<1>1. packet.flags \in Byte
  BY DEF Packets
<1>2. ttl \in 0 .. TTL_VALUES - 1
  BY <1>1, TtlType DEF TTL_VALUES
<1>3. /\ NextHop(packet) = [packet EXCEPT !.flags = WithTtl(packet.flags, ttl)]
      /\ WithTtl(packet.flags, ttl) \in Byte
      /\ Ttl(WithTtl(packet.flags, ttl)) = ttl
      /\ UpperBits(WithTtl(packet.flags, ttl)) = UpperBits(packet.flags)
  BY <1>1, <1>2, FlagsOfWithTtl DEF NextHop
<1> HIDE DEF ttl
<1>4. /\ NextHop(packet) \in Packets
      /\ NextHop(packet).hmac_sig = packet.hmac_sig
      /\ NextHop(packet).flags = WithTtl(packet.flags, ttl)
  BY <1>3 DEF Packets
<1> QED
  BY <1>3, <1>4 DEF VerifyHmac, ttl

--------------------------------------------------------------------------------
(* The ring. *)

Written(ring) == {row \in Rows : ring.buff[row] # NoFrame}

(***************************************************************************)
(* The shape AddToBuff relies on: rows are written one after the other, so *)
(* that a zero row under the cursor means zero rows behind it, and no      *)
(* signature is in two rows.                                               *)
(***************************************************************************)
WellFormed(ring) ==
  /\ ring \in Rings
  /\ Written(ring) = IF ring.buff[ring.next] = NoFrame THEN 0 .. ring.next - 1 ELSE Rows
  /\ \A a, b \in Written(ring) : ring.buff[a] = ring.buff[b] => a = b

\* The ring of a process that starts is empty and well formed.
LEMMA EmptyRingWellFormed ==
  /\ WellFormed(EmptyRing)
  /\ \A frame \in Frames : ~ContainsBuff(EmptyRing, frame)
BY RingAssumption, FramesAssumption
DEF WellFormed, Written, EmptyRing, Rings, Rows, ContainsBuff

\* WriteRow changes the row under the cursor and moves the cursor to the next.
LEMMA WriteRowWrites ==
  ASSUME NEW ring \in Rings, NEW val \in Frames
  PROVE  /\ WriteRow(ring, val) \in Rings
         /\ WriteRow(ring, val).buff[ring.next] = val
         /\ \A row \in Rows \ {ring.next} : WriteRow(ring, val).buff[row] = ring.buff[row]
         /\ WriteRow(ring, val).next = IF ring.next = HASHES - 1 THEN 0 ELSE ring.next + 1
<1>1. WriteRow(ring, val).next \in Rows
  BY RingAssumption DEF WriteRow, Rings, Rows
<1>2. WriteRow(ring, val).buff \in [Rows -> Frames \cup {NoFrame}]
  BY DEF WriteRow, Rings
<1> QED
  BY <1>1, <1>2, RingAssumption DEF WriteRow, Rings

\* AddToBuff keeps the ring well formed and remembers the signature.
LEMMA AddToBuffWellFormed ==
  ASSUME NEW ring, WellFormed(ring), NEW val \in Frames
  PROVE  /\ WellFormed(AddToBuff(ring, val))
         /\ ContainsBuff(AddToBuff(ring, val), val)
<1>1. CASE ContainsBuff(ring, val)
  BY <1>1 DEF AddToBuff
<1>2. CASE ~ContainsBuff(ring, val)
  <2> DEFINE new == WriteRow(ring, val)
  <2>1. ring \in Rings /\ ring.next \in Rows /\ val # NoFrame
    BY FramesAssumption DEF WellFormed, Rings
  <2>2. /\ new \in Rings /\ new.next \in Rows
        /\ new.buff[ring.next] = val
        /\ \A row \in Rows \ {ring.next} : new.buff[row] = ring.buff[row]
        /\ new.next = IF ring.next = HASHES - 1 THEN 0 ELSE ring.next + 1
    BY <2>1, WriteRowWrites DEF Rings
  <2> HIDE DEF new
  <2>3. Written(new) = Written(ring) \cup {ring.next}
    BY <2>1, <2>2 DEF Written
  <2>4. Written(new) = IF new.buff[new.next] = NoFrame THEN 0 .. new.next - 1 ELSE Rows
    <3>1. CASE ring.buff[ring.next] # NoFrame
      <4>1. Written(new) = Rows
        BY <2>1, <2>3, <3>1 DEF WellFormed
      <4> QED
        BY <2>2, <4>1 DEF Written
    <3>2. CASE ring.buff[ring.next] = NoFrame
      <4>1. Written(new) = 0 .. ring.next
        BY <2>1, <2>3, <3>2 DEF WellFormed, Rows
      <4>2. CASE ring.next = HASHES - 1
        <5>1. Written(new) = Rows
          BY <4>1, <4>2 DEF Rows
        <5> QED
          BY <2>2, <5>1 DEF Written
      <4>3. CASE ring.next # HASHES - 1
        <5>1. new.next = ring.next + 1 /\ new.next \notin Written(new)
          BY <2>1, <2>2, <4>1, <4>3 DEF Rows
        <5>2. new.buff[new.next] = NoFrame
          BY <2>2, <5>1 DEF Written
        <5> QED
          BY <2>1, <4>1, <5>1, <5>2 DEF Rows
      <4> QED
        BY <4>2, <4>3
    <3> QED
      BY <3>1, <3>2
  <2>5. \A a, b \in Written(new) : new.buff[a] = new.buff[b] => a = b
    BY <1>2, <2>1, <2>2, <2>3 DEF WellFormed, Written, ContainsBuff
  <2> QED
    BY <1>2, <2>1, <2>2, <2>4, <2>5 DEF AddToBuff, ContainsBuff, WellFormed, new
<1> QED
  BY <1>1, <1>2

(***************************************************************************)
(* A ring forgets nothing as long as it has a row for every signature:     *)
(* WriteRow reaches a written row only when all the rows hold different    *)
(* signatures, and then there is no other one to write.                    *)
(***************************************************************************)
LEMMA NothingForgotten ==
  ASSUME IsFiniteSet(Frames), Cardinality(Frames) <= HASHES,
         NEW ring, WellFormed(ring), NEW val \in Frames,
         NEW old \in Frames, ContainsBuff(ring, old)
  PROVE  ContainsBuff(AddToBuff(ring, val), old)
<1>1. CASE ContainsBuff(ring, val)
  BY <1>1 DEF AddToBuff
<1>2. CASE ~ContainsBuff(ring, val) /\ ring.buff[ring.next] = NoFrame
  <2>1. PICK row \in Rows : ring.buff[row] = old
    BY DEF ContainsBuff
  <2>2. row # ring.next
    BY <1>2, <2>1, FramesAssumption
  <2>3. WriteRow(ring, val).buff[row] = old
    BY <2>1, <2>2, WriteRowWrites DEF WellFormed
  <2> QED
    BY <1>2, <2>1, <2>3 DEF AddToBuff, ContainsBuff
<1>3. ~(~ContainsBuff(ring, val) /\ ring.buff[ring.next] # NoFrame)
  <2> SUFFICES ASSUME ~ContainsBuff(ring, val), ring.buff[ring.next] # NoFrame
               PROVE  FALSE
    OBVIOUS
  <2>1. Written(ring) = Rows
    BY DEF WellFormed
  <2>2. ring.buff \in [Rows -> Frames \ {val}]
    BY <2>1 DEF WellFormed, Rings, Written, ContainsBuff
  <2>3. IsFiniteSet(Rows) /\ Cardinality(Rows) = HASHES
    <3>1. 0 \in Int /\ HASHES - 1 \in Int /\ ~(0 > HASHES - 1)
      BY RingAssumption
    <3>2. /\ IsFiniteSet(0 .. HASHES - 1)
          /\ Cardinality(0 .. HASHES - 1) = HASHES - 1 - 0 + 1
      BY <3>1, FS_Interval
    <3> QED
      BY <3>2, RingAssumption DEF Rows
  <2>4. IsFiniteSet(Frames \ {val}) /\ Cardinality(Frames \ {val}) < HASHES
    <3>1. Cardinality(Frames \ {val}) = Cardinality(Frames) - 1 /\ IsFiniteSet(Frames \ {val})
      BY FS_RemoveElement
    <3>2. Cardinality(Frames) \in Nat
      BY FS_CardinalityType
    <3> QED
      BY <3>1, <3>2, RingAssumption
  <2>5. \E a, b \in Rows : a # b /\ ring.buff[a] = ring.buff[b]
    BY <2>2, <2>3, <2>4, FS_PigeonHole
  <2> QED
    BY <2>1, <2>5 DEF WellFormed
<1> QED
  BY <1>1, <1>2, <1>3

=======================================================================================
