-------------------------- MODULE DuplicateFilterProofs --------------------------
(***************************************************************************)
(* The ring of the simulation implements the bounded duplicate filter, for *)
(* any number of rows and of signatures.                                   *)
(***************************************************************************)
EXTENDS DuplicateFilter, SharedLemmas, SequenceTheorems

\* Every row of the ring holds a signature or zero, and the cursor is on a row.
LEMMA FilterInvariance == Spec => [](WellFormed(ring) /\ accepted \in BOOLEAN)
<1> DEFINE Inv == WellFormed(ring) /\ accepted \in BOOLEAN
<1>1. Init => Inv
  BY EmptyRingWellFormed DEF Init
<1>2. ASSUME Inv, [Next]_vars
      PROVE  Inv'
  <2>1. ASSUME NEW frame \in Frames, Receive(frame)
        PROVE  Inv'
    <3>1. WellFormed(ring')
      BY <1>2, <2>1, AddToBuffWellFormed DEF Receive
    <3>2. accepted' \in BOOLEAN
      BY <2>1 DEF Receive
    <3> QED
      BY <3>1, <3>2
  <2>2. CASE UNCHANGED vars
    BY <1>2, <2>2 DEF vars
  <2> QED
    BY <1>2, <2>1, <2>2 DEF Next
<1> QED
  BY <1>1, <1>2, PTL DEF Spec

(***************************************************************************)
(* The cursor of addToBuff stays on a row and no row holds anything but a  *)
(* signature or the zeros it was initialised with.                         *)
(***************************************************************************)
THEOREM TypeCorrect == Spec => []TypeOK
<1>1. WellFormed(ring) /\ accepted \in BOOLEAN => TypeOK
  BY DEF WellFormed, TypeOK
<1> QED
  BY <1>1, FilterInvariance, PTL

--------------------------------------------------------------------------------
(* The refinement. *)

\* A sequence is a function on the first naturals.
LEMMA FunctionsAreSeqs ==
  ASSUME NEW S, NEW n \in Nat, NEW s \in [1 .. n -> S]
  PROVE  s \in Seq(S) /\ Len(s) = n
OBVIOUS

\* The rows wrap around once at most.
LEMMA RowsWrap ==
  ASSUME NEW r, r.next \in Rows, NEW k \in 1 .. HASHES
  PROVE  RowAt(r, k) = IF r.next + k - 1 < HASHES THEN r.next + k - 1
                       ELSE r.next + k - 1 - HASHES
<1>1. \A x \in Nat, n \in Nat \ {0} : x < n => x % n = x
  OBVIOUS
<1>2. \A x \in Nat, n \in Nat \ {0} : x < n => (x + n) % n = x
  OBVIOUS
<1>3. HASHES \in Nat \ {0} /\ r.next + k - 1 \in Nat /\ r.next + k - 1 < HASHES + HASHES
  BY RingAssumption DEF Rows
<1>4. CASE r.next + k - 1 < HASHES
  BY <1>1, <1>3, <1>4 DEF RowAt
<1>5. CASE ~(r.next + k - 1 < HASHES)
  <2>1. PICK x \in Nat : x = r.next + k - 1 - HASHES
    BY <1>3, <1>5, RingAssumption DEF Rows
  <2>2. x < HASHES /\ r.next + k - 1 = x + HASHES
    BY <1>3, <2>1, RingAssumption DEF Rows
  <2>3. (x + HASHES) % HASHES = x
    BY <1>2, <1>3, <2>2
  <2>4. RowAt(r, k) = x
    BY <2>2, <2>3 DEF RowAt
  <2> QED
    BY <1>5, <2>1, <2>4
<1> QED
  BY <1>4, <1>5

\* The sequence holds exactly the signatures in the ring.
LEMMA OldestFirstType ==
  ASSUME NEW r, WellFormed(r)
  PROVE  /\ OldestFirst(r) \in Seq(Frames)
         /\ Len(OldestFirst(r)) = IF r.buff[r.next] = NoFrame THEN r.next ELSE HASHES
         /\ \A frame \in Frames :
              ContainsBuff(r, frame) <=> \E k \in 1 .. Len(OldestFirst(r)) : OldestFirst(r)[k] = frame
<1>1. r \in Rings /\ r.next \in Rows
  BY DEF WellFormed, Rings
<1>2. CASE r.buff[r.next] = NoFrame
  <2>1. \A row \in Rows : r.buff[row] # NoFrame <=> row < r.next
    BY <1>1, <1>2 DEF WellFormed, Written, Rows
  <2>2. \A k \in 1 .. r.next :
          /\ k - 1 \in Rows /\ r.buff[k - 1] \in Frames
          /\ OldestFirst(r)[k] = r.buff[k - 1]
    <3>1. \A k \in 1 .. r.next : k - 1 \in Rows /\ k - 1 < r.next
      BY <1>1, RingAssumption DEF Rows
    <3>2. \A row \in Rows : row < r.next => r.buff[row] \in Frames
      BY <1>1, <2>1 DEF Rings
    <3> QED
      BY <1>2, <3>1, <3>2 DEF OldestFirst
  <2>3. OldestFirst(r) \in Seq(Frames) /\ Len(OldestFirst(r)) = r.next
    <3>1. OldestFirst(r) \in [1 .. r.next -> Frames]
      BY <1>2, <2>2 DEF OldestFirst
    <3> QED
      BY <1>1, <3>1, FunctionsAreSeqs DEF Rows
  <2>4. ASSUME NEW frame \in Frames
        PROVE  ContainsBuff(r, frame) <=> \E k \in 1 .. r.next : OldestFirst(r)[k] = frame
    <3>1. ASSUME NEW row \in Rows, r.buff[row] = frame
          PROVE  row + 1 \in 1 .. r.next /\ OldestFirst(r)[row + 1] = frame
      <4>1. row < r.next
        BY <2>1, <3>1, FramesAssumption
      <4>2. row + 1 \in 1 .. r.next /\ (row + 1) - 1 = row
        BY <1>1, <4>1 DEF Rows
      <4> QED
        BY <2>2, <3>1, <4>2
    <3>2. ASSUME NEW k \in 1 .. r.next, OldestFirst(r)[k] = frame
          PROVE  k - 1 \in Rows /\ r.buff[k - 1] = frame
      BY <2>2, <3>2
    <3> QED
      BY <3>1, <3>2 DEF ContainsBuff
  <2> QED
    BY <1>2, <2>3, <2>4
<1>3. CASE r.buff[r.next] # NoFrame
  <2>1. \A row \in Rows : r.buff[row] \in Frames
    BY <1>1, <1>3 DEF WellFormed, Written, Rings
  <2>2. \A k \in 1 .. HASHES :
          /\ RowAt(r, k) \in Rows
          /\ OldestFirst(r)[k] = r.buff[RowAt(r, k)]
    BY <1>1, <1>3, RowsWrap, RingAssumption DEF OldestFirst, Rows
  <2>3. OldestFirst(r) \in [1 .. HASHES -> Frames]
    BY <1>3, <2>1, <2>2 DEF OldestFirst
  <2>4. OldestFirst(r) \in Seq(Frames) /\ Len(OldestFirst(r)) = HASHES
    BY <2>3, FunctionsAreSeqs, RingAssumption
  <2>5. ASSUME NEW row \in Rows
        PROVE  \E k \in 1 .. HASHES : RowAt(r, k) = row
    <3>1. CASE row >= r.next
      <4>1. row - r.next + 1 \in 1 .. HASHES
        BY <1>1, <3>1, RingAssumption DEF Rows
      <4>2. RowAt(r, row - r.next + 1) = row
        BY <1>1, <4>1, RowsWrap, RingAssumption DEF Rows
      <4> QED
        BY <4>1, <4>2
    <3>2. CASE row < r.next
      <4>1. row + HASHES - r.next + 1 \in 1 .. HASHES
        BY <1>1, <3>2, RingAssumption DEF Rows
      <4>2. RowAt(r, row + HASHES - r.next + 1) = row
        BY <1>1, <4>1, RowsWrap, RingAssumption DEF Rows
      <4> QED
        BY <4>1, <4>2
    <3> QED
      BY <1>1, <3>1, <3>2, RingAssumption DEF Rows
  <2> QED
    BY <1>3, <2>2, <2>4, <2>5 DEF ContainsBuff
<1> QED
  BY <1>2, <1>3

\* Writing a row appends the signature, in place of the oldest when the ring is full.
LEMMA WriteRowAppends ==
  ASSUME NEW r, WellFormed(r), NEW frame \in Frames, ~ContainsBuff(r, frame),
         NEW kept, kept = IF Len(OldestFirst(r)) = HASHES
                          THEN Tail(OldestFirst(r)) ELSE OldestFirst(r)
  PROVE  OldestFirst(WriteRow(r, frame)) = Append(kept, frame)
<1> DEFINE new == WriteRow(r, frame)
           old == OldestFirst(r)
<1>1. r \in Rings /\ r.next \in Rows /\ frame # NoFrame
  BY FramesAssumption DEF WellFormed, Rings
<1>2. /\ new.next \in Rows
      /\ new.buff[r.next] = frame
      /\ \A row \in Rows \ {r.next} : new.buff[row] = r.buff[row]
      /\ new.next = IF r.next = HASHES - 1 THEN 0 ELSE r.next + 1
  BY <1>1, WriteRowWrites DEF Rings
<1>3. WellFormed(new)
  BY AddToBuffWellFormed DEF AddToBuff
<1>4. /\ old \in Seq(Frames)
      /\ Len(old) = IF r.buff[r.next] = NoFrame THEN r.next ELSE HASHES
      /\ OldestFirst(new) \in Seq(Frames)
      /\ Len(OldestFirst(new)) = IF new.buff[new.next] = NoFrame THEN new.next ELSE HASHES
  BY <1>3, OldestFirstType
<1> HIDE DEF new, old
\* Seen from its cursor, the old ring begins one row earlier than the new one.
<1>5. CASE r.buff[r.next] # NoFrame
  <2>1. /\ Len(old) = HASHES /\ old # <<>>
        /\ kept \in Seq(Frames) /\ Len(kept) = HASHES - 1
        /\ \A k \in 1 .. HASHES - 1 : kept[k] = old[k + 1]
    <3>1. Len(old) = HASHES /\ old # <<>>
      BY <1>4, <1>5, RingAssumption
    <3>2. kept = Tail(old)
      BY <3>1 DEF old
    <3>3. /\ Tail(old) \in Seq(Frames) /\ Len(Tail(old)) = Len(old) - 1
          /\ \A k \in 1 .. Len(Tail(old)) : Tail(old)[k] = old[k + 1]
      BY <1>4, <3>1, HeadTailProperties
    <3> QED
      BY <3>1, <3>2, <3>3
  <2>2. new.buff[new.next] # NoFrame
    <3>1. \A row \in Rows : r.buff[row] # NoFrame
      BY <1>5 DEF WellFormed, Written
    <3> QED
      BY <1>1, <1>2, <3>1
  <2>3. Len(OldestFirst(new)) = HASHES
    BY <1>4, <2>2
  <2>4. ASSUME NEW k \in 1 .. HASHES - 1
        PROVE  OldestFirst(new)[k] = kept[k]
    <3>1. RowAt(r, k + 1) = RowAt(new, k) /\ RowAt(new, k) \in Rows \ {r.next}
      <4>1. k \in 1 .. HASHES /\ k + 1 \in 1 .. HASHES
        BY RingAssumption
      <4>2. RowAt(r, k + 1) = IF r.next + k < HASHES THEN r.next + k ELSE r.next + k - HASHES
        BY <1>1, <4>1, RowsWrap DEF Rows
      <4>3. RowAt(new, k) = IF new.next + k - 1 < HASHES THEN new.next + k - 1
                            ELSE new.next + k - 1 - HASHES
        BY <1>2, <4>1, RowsWrap
      <4>4. HASHES \in Nat /\ k \in Nat /\ 1 <= k /\ k < HASHES /\ r.next \in 0 .. HASHES - 1
        BY <1>1, RingAssumption DEF Rows
      <4>5. CASE r.next = HASHES - 1
        <5>1. new.next = 0
          BY <1>2, <4>5
        <5>2. RowAt(r, k + 1) = k - 1
          BY <4>2, <4>4, <4>5
        <5>3. RowAt(new, k) = k - 1
          BY <4>3, <4>4, <5>1
        <5> QED
          BY <4>4, <4>5, <5>2, <5>3 DEF Rows
      <4>6. CASE r.next # HASHES - 1
        <5>1. new.next = r.next + 1
          BY <1>2, <4>6
        <5>2. RowAt(new, k) = RowAt(r, k + 1)
          BY <4>2, <4>3, <4>4, <5>1
        <5>3. RowAt(r, k + 1) \in Rows \ {r.next}
          BY <4>2, <4>4 DEF Rows
        <5> QED
          BY <5>2, <5>3
      <4> QED
        BY <4>5, <4>6
    <3>2. old[k + 1] = r.buff[RowAt(r, k + 1)]
      BY <1>5, RingAssumption DEF old, OldestFirst
    <3>3. OldestFirst(new)[k] = new.buff[RowAt(new, k)]
      BY <2>2, RingAssumption DEF OldestFirst
    <3> QED
      BY <1>2, <2>1, <3>1, <3>2, <3>3
  <2>5. OldestFirst(new)[HASHES] = frame
    <3>1. RowAt(new, HASHES) = r.next
      <4>1. HASHES \in 1 .. HASHES
        BY RingAssumption
      <4>2. RowAt(new, HASHES) = IF new.next + HASHES - 1 < HASHES THEN new.next + HASHES - 1
                                 ELSE new.next + HASHES - 1 - HASHES
        BY <1>2, <4>1, RowsWrap
      <4> QED
        BY <1>1, <1>2, <4>2, RingAssumption DEF Rows
    <3>2. OldestFirst(new)[HASHES] = new.buff[RowAt(new, HASHES)]
      BY <2>2, RingAssumption DEF OldestFirst
    <3> QED
      BY <1>2, <3>1, <3>2
  <2>6. /\ Append(kept, frame) \in Seq(Frames)
        /\ Len(Append(kept, frame)) = HASHES
        /\ \A k \in 1 .. HASHES - 1 : Append(kept, frame)[k] = kept[k]
        /\ Append(kept, frame)[HASHES] = frame
    BY <2>1, AppendProperties, RingAssumption
  <2>7. \A k \in 1 .. HASHES : OldestFirst(new)[k] = Append(kept, frame)[k]
    BY <2>4, <2>5, <2>6, RingAssumption
  <2> QED
    BY <1>4, <2>3, <2>6, <2>7, SeqEqual DEF new
<1>6. CASE r.buff[r.next] = NoFrame
  <2>1. kept = old /\ Len(old) = r.next
    BY <1>1, <1>4, <1>6 DEF old, Rows
  <2>2. \A k \in 1 .. r.next : k - 1 \in Rows \ {r.next} /\ old[k] = r.buff[k - 1]
    BY <1>1, <1>6, RingAssumption DEF old, OldestFirst, Rows
  <2>3. /\ Len(OldestFirst(new)) = r.next + 1
        /\ \A k \in 1 .. r.next + 1 : OldestFirst(new)[k] = new.buff[k - 1]
    <3>1. Written(r) = 0 .. r.next - 1
      BY <1>6 DEF WellFormed
    <3>2. CASE r.next = HASHES - 1
      <4>1. new.next = 0 /\ r.next + 1 = HASHES
        BY <1>1, <1>2, <3>2, RingAssumption DEF Rows
      <4>2. new.buff[new.next] # NoFrame
        <5>1. CASE r.next = 0
          BY <1>1, <1>2, <4>1, <5>1
        <5>2. CASE r.next # 0
          <6>1. 0 \in Written(r)
            BY <1>1, <3>1, <5>2 DEF Rows
          <6> QED
            BY <1>2, <4>1, <5>2, <6>1 DEF Written
        <5> QED
          BY <5>1, <5>2
      <4>3. \A k \in 1 .. HASHES : RowAt(new, k) = k - 1
        <5>1. \A k \in 1 .. HASHES : RowAt(new, k) =
                IF new.next + k - 1 < HASHES THEN new.next + k - 1 ELSE new.next + k - 1 - HASHES
          BY <1>2, RowsWrap
        <5> QED
          BY <4>1, <5>1, RingAssumption
      <4>4. \A k \in 1 .. HASHES : OldestFirst(new)[k] = new.buff[RowAt(new, k)]
        BY <4>2 DEF OldestFirst
      <4> QED
        BY <1>4, <4>1, <4>2, <4>3, <4>4
    <3>3. CASE r.next # HASHES - 1
      <4>1. new.next = r.next + 1 /\ new.next # r.next /\ new.next \notin Written(r)
        BY <1>1, <1>2, <3>1, <3>3 DEF Rows
      <4>2. new.buff[new.next] = NoFrame
        BY <1>2, <4>1 DEF Written
      <4> QED
        BY <1>4, <4>1, <4>2 DEF OldestFirst
    <3> QED
      BY <3>2, <3>3
  <2>4. /\ Append(kept, frame) \in Seq(Frames)
        /\ Len(Append(kept, frame)) = r.next + 1
        /\ \A k \in 1 .. r.next : Append(kept, frame)[k] = old[k]
        /\ Append(kept, frame)[r.next + 1] = frame
    <3>1. kept \in Seq(Frames) /\ Len(kept) = r.next
      BY <1>4, <2>1
    <3> QED
      BY <2>1, <3>1, AppendProperties
  <2>5. ASSUME NEW k \in 1 .. r.next + 1
        PROVE  OldestFirst(new)[k] = Append(kept, frame)[k]
    <3>1. CASE k = r.next + 1
      <4>1. k - 1 = r.next
        BY <1>1, <3>1 DEF Rows
      <4> QED
        BY <1>2, <2>3, <2>4, <3>1, <4>1
    <3>2. CASE k # r.next + 1
      <4>1. k \in 1 .. r.next
        BY <1>1, <3>2 DEF Rows
      <4> QED
        BY <1>2, <2>2, <2>3, <2>4, <4>1
    <3> QED
      BY <3>1, <3>2
  <2>6. \A k \in 1 .. r.next + 1 : OldestFirst(new)[k] = Append(kept, frame)[k]
    BY <2>5
  <2>7. OldestFirst(new) = Append(kept, frame)
    <3>1. Len(OldestFirst(new)) = Len(Append(kept, frame))
      BY <2>3, <2>4
    <3>2. \A k \in 1 .. Len(OldestFirst(new)) : OldestFirst(new)[k] = Append(kept, frame)[k]
      BY <2>3, <2>6
    <3> QED
      BY <1>4, <2>4, <3>1, <3>2, SeqEqual
  <2> QED
    BY <2>7 DEF new
<1> QED
  BY <1>5, <1>6

(***************************************************************************)
(* Receive drops a signature exactly when it is among the last HASHES let  *)
(* through: the ring read from its oldest row is the sequence of those.    *)
(***************************************************************************)
THEOREM RingImplementsRecentHashes == Spec => ImplementsRecentHashes
<1>1. Init => Recent!Init
  <2>1. OldestFirst(EmptyRing) = <<>>
    BY RingAssumption DEF OldestFirst, EmptyRing, Rows
  <2> QED
    BY <2>1 DEF Init, Recent!Init
<1>2. ASSUME WellFormed(ring), [Next]_vars
      PROVE  [Recent!Next]_Recent!vars
  <2>1. ASSUME NEW frame \in Frames, Receive(frame)
        PROVE  Recent!Receive(frame)
    <3>1. ContainsBuff(ring, frame) <=> frame \in Recent!ToSet(OldestFirst(ring))
      <4>1. DOMAIN OldestFirst(ring) = 1 .. Len(OldestFirst(ring))
        BY <1>2, OldestFirstType, LenProperties
      <4> QED
        BY <1>2, <4>1, OldestFirstType DEF Recent!ToSet
    <3>2. CASE ContainsBuff(ring, frame)
      BY <2>1, <3>1, <3>2 DEF Receive, Recent!Receive
    <3>3. CASE ~ContainsBuff(ring, frame)
      <4>1. ring' = WriteRow(ring, frame) /\ accepted'
        BY <2>1, <3>3 DEF Receive, AddToBuff
      <4> QED
        BY <1>2, <3>1, <3>3, <4>1, WriteRowAppends DEF Recent!Receive
    <3> QED
      BY <3>2, <3>3
  <2>2. CASE UNCHANGED vars
    BY <2>2 DEF vars, Recent!vars
  <2> QED
    BY <1>2, <2>1, <2>2 DEF Next, Recent!Next
<1> QED
  BY <1>1, <1>2, FilterInvariance, PTL DEF Spec, ImplementsRecentHashes, Recent!Spec

==================================================================================
