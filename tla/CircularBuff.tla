------------------------------ MODULE CircularBuff ------------------------------
(***************************************************************************)
(* The ring of signatures a simulated node remembers, as operators on a    *)
(* record [buff, next].  Rows never written hold the zero signature, so a  *)
(* ring contains NoFrame from the start until every row was written.       *)
(***************************************************************************)
EXTENDS EmergencyPacket

CONSTANTS
  HASHES,    \* rows of the ring, 256 in the code
  LAST_ROW   \* where the cursor turns back, a literal of its own, 255 in the code

ASSUME RingAssumption == HASHES \in Nat \ {0} /\ LAST_ROW = HASHES - 1

Rows == 0 .. HASHES - 1
Rings == [buff : [Rows -> Frames \cup {NoFrame}], next : Rows]
EmptyRing == [buff |-> [row \in Rows |-> NoFrame], next |-> 0]

ContainsBuff(ring, val) == \E row \in Rows : ring.buff[row] = val

\* The cursor never moves: one row is all that is remembered.
MutantWriteRow(ring, val) ==
  [buff |-> [ring.buff EXCEPT ![ring.next] = val], next |-> ring.next]

\* The cursor turns back one row late.
MutantWriteRowLate(ring, val) ==
  [buff |-> [ring.buff EXCEPT ![ring.next] = val],
   next |-> IF ring.next = LAST_ROW + 1 THEN 0 ELSE ring.next + 1]

\* The row under the cursor is overwritten and the cursor steps on, from the
\* last row back to the first.
WriteRow(ring, val) ==
  [buff |-> [ring.buff EXCEPT ![ring.next] = val],
   next |-> IF ring.next = LAST_ROW THEN 0 ELSE ring.next + 1]

AddToBuff(ring, val) == IF ContainsBuff(ring, val) THEN ring ELSE WriteRow(ring, val)

=================================================================================
