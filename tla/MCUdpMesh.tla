------------------------------- MODULE MCUdpMesh -------------------------------
(* Meshes for TLC. *)
EXTENDS UdpMesh, TLC

CONSTANTS r1, r2, r3, exit, z1, z2, z3

\* r1 passes on to r2, and r2 back.
Line == (r1 :> {z1, z2}) @@ (r2 :> {z2, z3})

\* r1 shortcuts what r2 and r3 do in two hops.
Triangle == (r1 :> {z1, z3}) @@ (r2 :> {z1, z2}) @@ (r3 :> {z2, z3}) @@ (exit :> {z3})

================================================================================
