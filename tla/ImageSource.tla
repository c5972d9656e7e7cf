------------------------------ MODULE ImageSource ------------------------------
(***************************************************************************)
(* What ImageSource.h promises the tracker, whatever camera is behind it:  *)
(* the calls come in turn, a grab ends with a picture or without, and each *)
(* picture retrieved is later than the one before, with a timestamp that   *)
(* is no earlier.  Pictures are numbered as they are taken.                *)
(***************************************************************************)
EXTENDS Naturals

VARIABLES phase, image, stamp

imageSourceVars == <<phase, image, stamp>>

Init == phase = "opening" /\ image = 0 /\ stamp = 0

Step(from, to) == phase = from /\ phase' = to /\ UNCHANGED <<image, stamp>>

Open == Step("opening", "idle") \/ Step("opening", "refused")
Grab == Step("idle", "grabbing") \/ Step("grabbing", "grabbed") \/ Step("grabbing", "idle")

Retrieve ==
  /\ phase = "grabbed"
  /\ phase' = "idle"
  /\ image' \in Nat /\ image' > image
  /\ stamp' \in Nat /\ stamp' >= stamp

Close == Step("idle", "closing") \/ Step("idle", "closed") \/ Step("closing", "closed")

\* An exception or a failed assertion, on whichever thread: nothing catches it.
Throw == phase \notin {"refused", "dead"} /\ phase' = "dead" /\ UNCHANGED <<image, stamp>>

Next == Open \/ Grab \/ Retrieve \/ Close \/ Throw

Spec == Init /\ [][Next]_imageSourceVars
=============================================================================
