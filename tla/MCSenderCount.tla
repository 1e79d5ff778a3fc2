----------------------------- MODULE MCSenderCount -----------------------------
(* An instance of SenderCount for TLC: neighbours, and frames, are interchangeable. *)
EXTENDS SenderCount, TLC

RelaySymmetry == Permutations(Macs) \cup Permutations(Frames)

================================================================================
