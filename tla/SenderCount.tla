------------------------------ MODULE SenderCount ------------------------------
(***************************************************************************)
(* A relay together with what its counters are meant to count: the         *)
(* neighbours whose copies of a frame onResult has handled since the frame *)
(* was last accepted.  The history follows the steps of the callback and   *)
(* not what checkCache and addToCache write, and it restricts no step; it  *)
(* is forgotten with the frame, since no counter is left to compare.       *)
(***************************************************************************)
EXTENDS Relay

VARIABLE heardSince   \* history: the neighbours heard sending each frame that is cached

countedVars == <<vars, heardSince>>

\* A frame without an entry is forgotten.
HeardOfCached(heard) == [f \in Frames |-> IF CachedIn(f)' = {} THEN {} ELSE heard[f]]

\* A frame that is accepted is heard anew.
Accepts ==
  /\ Queue \/ FinishForward
  /\ heardSince' = HeardOfCached([heardSince EXCEPT ![HeardFrame] = {callback.mac}])

HearsAgain ==
  /\ DropDuplicate
  /\ heardSince' = HeardOfCached([heardSince EXCEPT ![HeardFrame] = @ \cup {callback.mac}])

HearsNothing ==
  /\ Tick \/ Arrival \/ DropExhausted \/ StartForward \/ SendDatagram \/ Loop \/ WifiChange
  /\ heardSince' = HeardOfCached(heardSince)

CountedInit == Init /\ heardSince = [f \in Frames |-> {}]

CountedNext == Accepts \/ HearsAgain \/ HearsNothing

CountedSpec == CountedInit /\ [][CountedNext]_countedVars

(***************************************************************************)
(* rx_count, by which loop decides whether a frame is covered, is the      *)
(* number of different neighbours that were heard sending the frame since  *)
(* it was accepted, or all that seen_macs has room for: no neighbour is    *)
(* counted twice or missed, and none is left over from the frame the slot  *)
(* held before, or from an entry of the same frame in another slot.        *)
(***************************************************************************)
CountsNeighboursHeard ==
  \A i \in Slots : cache[i].active =>
    cache[i].rx_count = Min({Cardinality(heardSince[cache[i].hmac]), MAX_TRACKED_MACS})

================================================================================
