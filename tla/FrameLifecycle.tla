----------------------------- MODULE FrameLifecycle -----------------------------
(***************************************************************************)
(* What one relay promises about every frame it hears, without caches,     *)
(* clocks, tasks or a radio: managed flooding as the routing rules of the  *)
(* repository describe it.                                                 *)
(*                                                                         *)
(* A frame heard for the first time is queued.  It is then aired once, by  *)
(* itself, unless enough neighbours were heard sending it, and it is done. *)
(* A done frame stays done until it is forgotten, and nothing that is      *)
(* queued is ever forgotten.                                               *)
(***************************************************************************)
EXTENDS FiniteSets, Naturals

CONSTANTS Frames, Macs, REDUNDANCY

VARIABLES
  status,    \* "unknown", "queued", "airing" or "done", of each frame
  heardFrom  \* the neighbours heard sending the frame since it was accepted

vars == <<status, heardFrom>>

Covered(frame) == Cardinality(heardFrom[frame]) >= REDUNDANCY

Init ==
  /\ status = [f \in Frames |-> "unknown"]
  /\ heardFrom = [f \in Frames |-> {}]

\* Frames that are done may be forgotten at any time.
Forget(frames) ==
  /\ \A f \in frames : status[f] = "done"
  /\ status' = [f \in Frames |-> IF f \in frames THEN "unknown" ELSE status[f]]
  /\ heardFrom' = [f \in Frames |-> IF f \in frames THEN {} ELSE heardFrom[f]]

\* A frame that is unknown, or forgotten in the same step, is accepted: it is
\* queued, or done at once when it is sent upstream instead.
Accept(frame, mac, frames) ==
  /\ status[frame] = "unknown" \/ frame \in frames
  /\ \A f \in frames : status[f] = "done"
  /\ \E next \in {"queued", "done"} :
       status' = [f \in Frames |-> IF f = frame THEN next
                                   ELSE IF f \in frames THEN "unknown" ELSE status[f]]
  /\ heardFrom' = [f \in Frames |-> IF f = frame THEN {mac}
                                    ELSE IF f \in frames THEN {} ELSE heardFrom[f]]

\* A frame that is known is heard again.
HearAgain(frame, mac, frames) ==
  /\ status[frame] # "unknown"
  /\ frame \notin frames
  /\ \A f \in frames : status[f] = "done"
  /\ status' = [f \in Frames |-> IF f \in frames THEN "unknown" ELSE status[f]]
  /\ heardFrom' = [f \in Frames |-> IF f = frame THEN heardFrom[f] \cup {mac}
                                    ELSE IF f \in frames THEN {} ELSE heardFrom[f]]

\* Queued frames that are covered are done without being aired.
Cancel(frames) ==
  /\ \A f \in frames : status[f] = "queued" /\ Covered(f)
  /\ status' = [f \in Frames |-> IF f \in frames THEN "done" ELSE status[f]]
  /\ UNCHANGED heardFrom

\* A queued frame that is not covered goes on the air, alone.
Air(frame, frames) ==
  /\ status[frame] = "queued"
  /\ ~Covered(frame)
  /\ \A f \in Frames : status[f] # "airing"
  /\ \A f \in frames : status[f] = "queued" /\ Covered(f)
  /\ status' = [f \in Frames |-> IF f = frame THEN "airing"
                                 ELSE IF f \in frames THEN "done" ELSE status[f]]
  /\ UNCHANGED heardFrom

\* The frame on the air has been sent.
EndAir(frame) ==
  /\ status[frame] = "airing"
  /\ status' = [status EXCEPT ![frame] = "done"]
  /\ UNCHANGED heardFrom

Next ==
  \/ \E frames \in SUBSET Frames :
       \/ Forget(frames)
       \/ Cancel(frames)
       \/ \E frame \in Frames : Air(frame, frames)
       \/ \E frame \in Frames, mac \in Macs :
            Accept(frame, mac, frames) \/ HearAgain(frame, mac, frames)
  \/ \E frame \in Frames : EndAir(frame)

Spec == Init /\ [][Next]_vars

=================================================================================
