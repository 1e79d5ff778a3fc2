------------------------------ MODULE RecentHashes ------------------------------
(***************************************************************************)
(* What a bounded duplicate filter promises: a signature is let through    *)
(* exactly when it is not among the last HASHES signatures let through.    *)
(***************************************************************************)
EXTENDS Naturals, Sequences, SequencesExt

CONSTANTS Frames, HASHES

VARIABLES
  recent,    \* the signatures let through last, oldest first
  accepted   \* whether the signature received last was let through

vars == <<recent, accepted>>

Init == recent = <<>> /\ accepted = FALSE

Receive(frame) ==
  IF frame \in ToSet(recent)
  THEN accepted' = FALSE /\ UNCHANGED recent
  ELSE /\ accepted' = TRUE
       /\ recent' = Append(IF Len(recent) = HASHES THEN Tail(recent) ELSE recent, frame)

Next == \E frame \in Frames : Receive(frame)

Spec == Init /\ [][Next]_vars

=================================================================================
