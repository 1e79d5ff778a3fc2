-------------------------------- MODULE MCRelay --------------------------------
(* Instances of Relay for TLC.  A unit of its clock is given by each cfg. *)
EXTENDS Relay, TLC

\* Neighbours are interchangeable; so are frames that all or none have a GPS fix.
RelaySymmetry == Permutations(Macs) \cup Permutations(Frames)

================================================================================
