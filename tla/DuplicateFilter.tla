----------------------------- MODULE DuplicateFilter -----------------------------
(***************************************************************************)
(* The test every simulated node and exit starts the handling of a         *)
(* datagram with: look the signature up in the ring, drop the packet when  *)
(* it is there, else remember it and go on.                                *)
(***************************************************************************)
EXTENDS CircularBuff

VARIABLES
  ring,
  accepted   \* whether the packet received last was not dropped

vars == <<ring, accepted>>

TypeOK == ring \in Rings /\ accepted \in BOOLEAN

Init == ring = EmptyRing /\ accepted = FALSE

Receive(frame) ==
  /\ accepted' = ~ContainsBuff(ring, frame)
  /\ ring' = IF ContainsBuff(ring, frame) THEN ring ELSE AddToBuff(ring, frame)

Next == \E frame \in Frames : Receive(frame)

Spec == Init /\ [][Next]_vars

\* The k-th row from the cursor on.
RowAt(r, k) == (r.next + k - 1) % HASHES

(***************************************************************************)
(* Until every row was written the signatures let through are the rows     *)
(* before the cursor; from then on the rows from the cursor on are the     *)
(* oldest, and the order goes on behind the last row with the first.       *)
(***************************************************************************)
OldestFirst(r) ==
  IF r.buff[r.next] = NoFrame
  THEN [k \in 1 .. r.next |-> r.buff[k - 1]]
  ELSE [k \in 1 .. HASHES |-> r.buff[RowAt(r, k)]]

Recent == INSTANCE RecentHashes WITH recent <- OldestFirst(ring)

ImplementsRecentHashes == Recent!Spec

==================================================================================
